-------------------------- MODULE PveSessionsProofs --------------------------
(***************************************************************************)
(* Theorems about PveSessions, for any number of users, games, rounds and  *)
(* concurrent requests, with failing statements, expiry and restarts.      *)
(***************************************************************************)
EXTENDS PveSessions, TLAPS

-----------------------------------------------------------------------------
(* Typing.                                                                 *)

LEMMA IdleType == Idle \in CallStates /\ Idle.at = "idle" /\ Idle.user = Nobody /\ Idle.game = NoGame
  BY DEF Idle, CallStates, Stages

\* A request that goes on keeps its user and its game; one that returns is idle.
LEMMA GotoEffect ==
  ASSUME TypeOK, NEW c \in Calls, NEW stage \in Stages, Goto(c, stage)
  PROVE  /\ call' \in [Calls -> CallStates]
         /\ \A d \in Calls : d # c => call'[d] = call[d]
         /\ call'[c].at = stage /\ call'[c].user = call[c].user /\ call'[c].game = call[c].game
  BY DEF Goto, TypeOK, CallStates

LEMMA ReturnEffect ==
  ASSUME TypeOK, NEW c \in Calls, Return(c)
  PROVE  /\ call' \in [Calls -> CallStates]
         /\ \A d \in Calls : d # c => call'[d] = call[d]
         /\ call'[c].at = "idle" /\ call'[c].user = Nobody /\ call'[c].game = NoGame
  BY IdleType DEF Return, TypeOK

\* A request that begins has found the active game of its user.
LEMMA BeginOnEffect ==
  ASSUME TypeOK, NEW c \in Calls, NEW u \in Users, NEW stage \in Stages, BeginOn(c, u, stage)
  PROVE  /\ call' \in [Calls -> CallStates]
         /\ \A d \in Calls : d # c => call'[d] = call[d]
         /\ call[c] = Idle
         /\ call'[c].at = stage /\ call'[c].user = u /\ call'[c].game = activeGames[u]
         /\ activeGames[u] \in Games /\ status[activeGames[u]] = "active"
         /\ orderly' \subseteq orderly /\ orderly \ {u} \subseteq orderly'
         /\ u \in orderly' => \A d \in Calls : call[d].user # u
         /\ UNCHANGED <<gems, activeGames, gameVars, ghostVars, intact>>
  BY DEF BeginOn, Ask, TypeOK, CallStates

\* Winnings are numbers.
LEMMA WinType ==
  ASSUME TypeOK, NEW g \in Games, status[g] = "cashed_out"
  PROVE  WinAmount(g) \in Nat /\ owner[g] \in Users
  <1>1. bet[g] \in Bets /\ owner[g] \in Users /\ rounds[g] \in 0 .. MaxRounds /\ rounds[g] > 0
    BY DEF TypeOK
  <1>2. rounds[g] \in 1 .. MaxRounds
    BY <1>1, SessionsAssumption
  <1>3. Prize[bet[g]] \in [1 .. MaxRounds -> Nat]
    BY <1>1, SessionsAssumption
  <1> QED
    BY <1>1, <1>2, <1>3 DEF WinAmount

\* Every step keeps the types.
LEMMA TypeStep == TypeOK /\ [Next]_vars => TypeOK'
  <1> SUFFICES ASSUME TypeOK, [Next]_vars PROVE TypeOK'
    OBVIOUS
  <1>1. ASSUME NEW u \in Users, NEW b \in Bets, StartGame(u, b) PROVE TypeOK'
    <2>1. PICK g \in Games : NewGame(g, u, b) /\ activeGames' = [activeGames EXCEPT ![u] = g]
      BY <1>1 DEF StartGame
    <2>2. gems' \in [Users -> Nat]
      BY <1>1, SessionsAssumption DEF StartGame, Enough, TypeOK
    <2>3. orderly' \subseteq Users
      BY <1>1 DEF StartGame, Ask, TypeOK
    <2>4. UNCHANGED <<rounds, call, credited, recorded, intact>>
      BY <1>1 DEF StartGame, ghostVars
    <2>5. /\ activeGames' \in [Users -> Games \cup {NoGame}] /\ owner' \in [Games -> Users \cup {Nobody}]
          /\ bet' \in [Games -> Bets \cup {0}] /\ status' \in [Games -> Statuses]
      BY <2>1 DEF NewGame, TypeOK, Statuses
    <2>6. /\ status[g] = "none" /\ owner'[g] = u /\ bet'[g] = b /\ status'[g] = "active"
          /\ rounds'[g] = 0 /\ 0 < MaxRounds
      BY <2>1, <2>4, SessionsAssumption DEF NewGame, TypeOK
    <2>7. \A h \in Games \ {g} : owner'[h] = owner[h] /\ bet'[h] = bet[h]
                                 /\ status'[h] = status[h] /\ rounds'[h] = rounds[h]
      BY <2>1, <2>4 DEF NewGame, TypeOK
    <2>8. \A h \in Games :
            /\ status'[h] # "none" => owner'[h] \in Users /\ bet'[h] \in Bets
            /\ status'[h] = "cashed_out" => rounds'[h] > 0
            /\ status'[h] = "none" => rounds'[h] = 0
            /\ status'[h] = "active" => rounds'[h] < MaxRounds
      <3> TAKE h \in Games
      <3>1. CASE h = g
        BY <3>1, <2>6
      <3>2. CASE h # g
        BY <3>2, <2>7 DEF TypeOK
      <3> QED
        BY <3>1, <3>2
    <2>9. \A v \in Users : activeGames'[v] # NoGame => status'[activeGames'[v]] # "none"
      <3> TAKE v \in Users
      <3>1. activeGames'[v] = g \/ activeGames'[v] = activeGames[v]
        BY <2>1 DEF TypeOK
      <3> QED
        BY <3>1, <2>6, <2>7 DEF TypeOK
    <2>10. \A c \in Calls :
            /\ call[c].at # "idle" => status'[call[c].game] # "none"
            /\ call[c].at = "pay" => status'[call[c].game] = "cashed_out"
      BY <2>6, <2>7 DEF TypeOK, CallStates
    <2> QED
      BY <2>2, <2>3, <2>4, <2>5, <2>8, <2>9, <2>10 DEF TypeOK
  <1>2. ASSUME NEW c \in Calls, NEW u \in Users, Flip(c, u) PROVE TypeOK'
    BY <1>2, BeginOnEffect DEF Flip, TypeOK, Stages, gameVars, ghostVars
  <1>3. ASSUME NEW c \in Calls, NEW u \in Users, CashOut(c, u) PROVE TypeOK'
    BY <1>3, BeginOnEffect DEF CashOut, TypeOK, Stages, gameVars, ghostVars
  <1>4. ASSUME NEW c \in Calls, Toss(c) PROVE TypeOK'
    <2>1. call[c].game \in Games /\ UNCHANGED <<gems, activeGames, owner, bet, credited, recorded, orderly, intact>>
      BY <1>4 DEF Toss, TypeOK, ghostVars
    <2>2. CASE status[call[c].game] = "active" /\ WinRound(call[c].game) /\ Goto(c, "look")
      <3> DEFINE g == call[c].game
      <3>1. rounds[g] \in 0 .. MaxRounds /\ rounds[g] < MaxRounds /\ MaxRounds \in Nat
        BY <2>1, <2>2, SessionsAssumption DEF TypeOK
      <3>2. /\ rounds' \in [Games -> 0 .. MaxRounds] /\ status' \in [Games -> Statuses]
            /\ rounds'[g] = rounds[g] + 1
            /\ status'[g] = (IF rounds[g] + 1 = MaxRounds THEN "cashed_out" ELSE "active")
            /\ \A h \in Games \ {g} : status'[h] = status[h] /\ rounds'[h] = rounds[h]
        BY <2>1, <2>2, <3>1 DEF WinRound, TypeOK, Statuses
      <3> HIDE DEF g
      <3>3. g = call[c].game /\ g \in Games /\ status[g] = "active"
        BY <2>1, <2>2 DEF g
      <3>4. \A h \in Games :
              /\ status'[h] = "none" <=> status[h] = "none"
              /\ status[h] = "cashed_out" => status'[h] = "cashed_out"
              /\ status'[h] = "cashed_out" => rounds'[h] > 0
              /\ status'[h] = "none" => rounds'[h] = 0
              /\ status'[h] = "active" => rounds'[h] < MaxRounds
        <4> TAKE h \in Games
        <4>1. CASE h = g
          BY <4>1, <3>1, <3>2, <3>3
        <4>2. CASE h # g
          BY <4>2, <3>2 DEF TypeOK
        <4> QED
          BY <4>1, <4>2
      <3>5. call' \in [Calls -> CallStates] /\ \A d \in Calls : d # c => call'[d] = call[d]
        BY <2>2, GotoEffect DEF Stages
      <3>6. call'[c].at = "look" /\ call'[c].user = call[c].user /\ call'[c].game = call[c].game
        BY <2>2, GotoEffect DEF Stages
      <3>7. call[c].at = "flip"
        BY <1>4 DEF Toss
      <3> QED
        BY <2>1, <3>2, <3>4, <3>5, <3>6, <3>7 DEF TypeOK
    <2>3. CASE status[call[c].game] = "active" /\ LoseGame(call[c].game) /\ Goto(c, "look")
      <3>1. /\ rounds' = rounds /\ status' \in [Games -> Statuses] /\ status'[call[c].game] = "lost"
            /\ \A h \in Games : h # call[c].game => status'[h] = status[h]
        BY <2>1, <2>3 DEF LoseGame, TypeOK, Statuses
      <3>2. \A h \in Games :
              /\ status'[h] = "none" <=> status[h] = "none"
              /\ status[h] = "cashed_out" <=> status'[h] = "cashed_out"
              /\ status'[h] = "active" => status[h] = "active"
        BY <3>1, <2>3
      <3>3. call' \in [Calls -> CallStates] /\ \A d \in Calls : d # c => call'[d] = call[d]
        BY <2>3, GotoEffect DEF Stages
      <3>4. call'[c].at = "look" /\ call'[c].user = call[c].user /\ call'[c].game = call[c].game
        BY <2>3, GotoEffect DEF Stages
      <3>5. call[c].at = "flip"
        BY <1>4 DEF Toss
      <3> QED
        BY <2>1, <3>1, <3>2, <3>3, <3>4, <3>5 DEF TypeOK
    <2>4. CASE Return(c) /\ UNCHANGED <<rounds, status>>
      BY <2>1, <2>4, ReturnEffect DEF TypeOK
    <2> QED
      BY <1>4, <2>2, <2>3, <2>4 DEF Toss
  <1>5. ASSUME NEW c \in Calls, Look(c) PROVE TypeOK'
    BY <1>5, GotoEffect DEF Look, TypeOK, Stages, gameVars, ghostVars
  <1>6. ASSUME NEW c \in Calls, Drop(c) PROVE TypeOK'
    BY <1>6, GotoEffect DEF Drop, Forget, TypeOK, Stages, gameVars, ghostVars
  <1>7. ASSUME NEW c \in Calls, Credit(c) PROVE TypeOK'
    <2>1. /\ call[c].game \in Games /\ Goto(c, "report")
          /\ UNCHANGED <<activeGames, owner, bet, rounds, status, recorded, orderly>>
      BY <1>7 DEF Credit, TypeOK, gameVars
    <2>2. gems' \in [Users -> Nat] /\ credited' \in [Games -> Nat] /\ intact' \subseteq Games
      BY <1>7, <2>1, WinType DEF Credit, CreditWinnings, TypeOK
    <2>3. call' \in [Calls -> CallStates] /\ \A d \in Calls : d # c => call'[d] = call[d]
      BY <2>1, GotoEffect DEF Stages
    <2>4. call'[c].at = "report" /\ call'[c].user = call[c].user /\ call'[c].game = call[c].game
          /\ call[c].at = "credit"
      BY <1>7, <2>1, GotoEffect DEF Stages, Credit
    <2> QED
      BY <2>1, <2>2, <2>3, <2>4 DEF TypeOK
  <1>8. ASSUME NEW c \in Calls, TakeOut(c) PROVE TypeOK'
    <2>1. call[c].game \in Games /\ UNCHANGED <<gems, activeGames, owner, bet, rounds, credited, recorded, orderly, intact>>
      BY <1>8 DEF TakeOut, TypeOK, ghostVars
    <2>2. CASE status[call[c].game] = "active" /\ rounds[call[c].game] > 0
      <3>1. status' = [status EXCEPT ![call[c].game] = "cashed_out"] /\ Goto(c, "pay")
        BY <1>8, <2>2 DEF TakeOut
      <3>2. /\ status' \in [Games -> Statuses] /\ status'[call[c].game] = "cashed_out"
            /\ \A h \in Games : h # call[c].game => status'[h] = status[h]
        BY <2>1, <3>1 DEF TypeOK, Statuses
      <3>3. call' \in [Calls -> CallStates] /\ \A d \in Calls : d # c => call'[d] = call[d]
        BY <3>1, GotoEffect DEF Stages
      <3>4. call'[c].at = "pay" /\ call'[c].user = call[c].user /\ call'[c].game = call[c].game
            /\ call[c].at = "cash"
        BY <1>8, <3>1, GotoEffect DEF Stages, TakeOut
      <3> QED
        BY <2>1, <2>2, <3>2, <3>3, <3>4 DEF TypeOK
    <2>3. CASE ~(status[call[c].game] = "active" /\ rounds[call[c].game] > 0)
      <3>1. UNCHANGED status /\ Return(c)
        BY <1>8, <2>3 DEF TakeOut
      <3> QED
        BY <2>1, <3>1, ReturnEffect DEF TypeOK
    <2> QED
      BY <2>2, <2>3
  <1>9. ASSUME NEW c \in Calls, Pay(c) PROVE TypeOK'
    <2>1. /\ call[c].game \in Games /\ status[call[c].game] = "cashed_out"
          /\ UNCHANGED <<activeGames, owner, bet, rounds, status, recorded, orderly>>
      BY <1>9 DEF Pay, TypeOK, gameVars
    <2>2. gems' \in [Users -> Nat] /\ credited' \in [Games -> Nat] /\ intact' \subseteq Games
      BY <1>9, <2>1, WinType DEF Pay, CreditWinnings, TypeOK
    <2>3. CASE Goto(c, "clear")
      <3>1. call' \in [Calls -> CallStates] /\ \A d \in Calls : d # c => call'[d] = call[d]
        BY <2>3, GotoEffect DEF Stages
      <3>2. call'[c].at = "clear" /\ call'[c].user = call[c].user /\ call'[c].game = call[c].game
            /\ call[c].at = "pay"
        BY <1>9, <2>3, GotoEffect DEF Stages, Pay
      <3> QED
        BY <2>1, <2>2, <3>1, <3>2 DEF TypeOK
    <2>4. CASE Return(c)
      BY <2>1, <2>2, <2>4, ReturnEffect DEF TypeOK
    <2> QED
      BY <1>9, <2>3, <2>4 DEF Pay
  <1>10. ASSUME NEW c \in Calls, Clear(c) PROVE TypeOK'
    BY <1>10, GotoEffect DEF Clear, Forget, TypeOK, Stages, gameVars, ghostVars
  <1>11. ASSUME NEW c \in Calls, Report(c) PROVE TypeOK'
    <2>1. recorded' \in [Games -> Nat]
      <3>1. call[c].game \in Games
        BY <1>11 DEF Report, TypeOK
      <3> QED
        BY <1>11, <3>1 DEF Report, TypeOK
    <2> QED
      BY <1>11, <2>1, ReturnEffect DEF Report, TypeOK, gameVars
  <1>12. ASSUME NEW u \in Users, Expire(u) PROVE TypeOK'
    BY <1>12 DEF Expire, Forget, TypeOK, gameVars, ghostVars
  <1>13. ASSUME Crash PROVE TypeOK'
    BY <1>13, IdleType DEF Crash, TypeOK, gameVars, ghostVars
  <1>14. CASE UNCHANGED vars
    BY <1>14 DEF vars, TypeOK, gameVars, ghostVars
  <1> QED
    BY <1>1, <1>2, <1>3, <1>4, <1>5, <1>6, <1>7, <1>8, <1>9, <1>10, <1>11, <1>12, <1>13, <1>14 DEF Next, FlipStep, CashOutStep

\* No balance goes below zero, a game that pays has won a round, and a request works
\* on a game that exists.
THEOREM SessionsTypeCorrect == Spec => []TypeOK
<1>1. Init => TypeOK
  BY SessionsAssumption, IdleType DEF Init, TypeOK, Statuses
<1> QED
  BY <1>1, TypeStep, PTL DEF Spec

\* A game that is over stays as it ended, whatever requests still hold it.
THEOREM EndedStaysHolds == Spec => EndedStays
<1>1. TypeOK /\ [Next]_vars => [\A g \in Games : Ended(g) => UNCHANGED <<status[g], rounds[g], bet[g]>>]_vars
  <2> SUFFICES ASSUME TypeOK, [Next]_vars, NEW g \in Games, Ended(g)
               PROVE  status'[g] = status[g] /\ rounds'[g] = rounds[g] /\ bet'[g] = bet[g]
    OBVIOUS
  <2>1. ASSUME NEW u \in Users, NEW b \in Bets, StartGame(u, b) PROVE
          status'[g] = status[g] /\ rounds'[g] = rounds[g] /\ bet'[g] = bet[g]
    BY <2>1 DEF StartGame, NewGame, Ended, TypeOK
  <2>2. ASSUME NEW c \in Calls, NEW u \in Users, Flip(c, u) PROVE
          status'[g] = status[g] /\ rounds'[g] = rounds[g] /\ bet'[g] = bet[g]
    BY <2>2 DEF Flip, BeginOn, gameVars
  <2>3. ASSUME NEW c \in Calls, NEW u \in Users, CashOut(c, u) PROVE
          status'[g] = status[g] /\ rounds'[g] = rounds[g] /\ bet'[g] = bet[g]
    BY <2>3 DEF CashOut, BeginOn, gameVars
  <2>4. ASSUME NEW c \in Calls, Toss(c) PROVE
          status'[g] = status[g] /\ rounds'[g] = rounds[g] /\ bet'[g] = bet[g]
    BY <2>4 DEF Toss, WinRound, LoseGame, Ended, TypeOK
  <2>5. ASSUME NEW c \in Calls, Look(c) PROVE
          status'[g] = status[g] /\ rounds'[g] = rounds[g] /\ bet'[g] = bet[g]
    BY <2>5 DEF Look, gameVars
  <2>6. ASSUME NEW c \in Calls, Drop(c) PROVE
          status'[g] = status[g] /\ rounds'[g] = rounds[g] /\ bet'[g] = bet[g]
    BY <2>6 DEF Drop, gameVars
  <2>7. ASSUME NEW c \in Calls, Credit(c) PROVE
          status'[g] = status[g] /\ rounds'[g] = rounds[g] /\ bet'[g] = bet[g]
    BY <2>7 DEF Credit, gameVars
  <2>8. ASSUME NEW c \in Calls, TakeOut(c) PROVE
          status'[g] = status[g] /\ rounds'[g] = rounds[g] /\ bet'[g] = bet[g]
    BY <2>8 DEF TakeOut, Ended, TypeOK
  <2>9. ASSUME NEW c \in Calls, Pay(c) PROVE
          status'[g] = status[g] /\ rounds'[g] = rounds[g] /\ bet'[g] = bet[g]
    BY <2>9 DEF Pay, gameVars
  <2>10. ASSUME NEW c \in Calls, Clear(c) PROVE
          status'[g] = status[g] /\ rounds'[g] = rounds[g] /\ bet'[g] = bet[g]
    BY <2>10 DEF Clear, gameVars
  <2>11. ASSUME NEW c \in Calls, Report(c) PROVE
          status'[g] = status[g] /\ rounds'[g] = rounds[g] /\ bet'[g] = bet[g]
    BY <2>11 DEF Report, gameVars
  <2>12. ASSUME NEW u \in Users, Expire(u) PROVE
          status'[g] = status[g] /\ rounds'[g] = rounds[g] /\ bet'[g] = bet[g]
    BY <2>12 DEF Expire, gameVars
  <2>13. ASSUME Crash PROVE
          status'[g] = status[g] /\ rounds'[g] = rounds[g] /\ bet'[g] = bet[g]
    BY <2>13 DEF Crash, gameVars
  <2>14. CASE UNCHANGED vars
    BY <2>14 DEF vars, gameVars
  <2> QED
    BY <2>1, <2>2, <2>3, <2>4, <2>5, <2>6, <2>7, <2>8, <2>9, <2>10, <2>11, <2>12, <2>13, <2>14 DEF Next, FlipStep, CashOutStep
<1> QED
  BY <1>1, SessionsTypeCorrect, PTL DEF Spec, EndedStays

-----------------------------------------------------------------------------
(* What a request works on, and what a step does to it.                    *)

\* A running request is for a game of its user, as an entry of the map is, and one
\* that is past the end of its game has seen it over.
CallInv ==
  /\ \A c \in Calls : call[c].at = "idle" => call[c] = Idle
  /\ \A c \in Calls : call[c].at # "idle" => owner[call[c].game] = call[c].user
  /\ \A c \in Calls : call[c].at \in {"drop", "credit"} => Ended(call[c].game)
  /\ \A c \in Calls : call[c].at \in {"pay", "clear"} => status[call[c].game] = "cashed_out"
  /\ \A u \in Users : activeGames[u] # NoGame => owner[activeGames[u]] = u

\* The request c goes from one stage to another and every other one stays put.
Moves(c, from, to) ==
  /\ call[c].at = from /\ call'[c].at = to
  /\ call'[c].user = call[c].user /\ call'[c].game = call[c].game
  /\ call[c].game \in Games /\ call[c].user \in Users /\ status[call[c].game] # "none"
  /\ \A d \in Calls \ {c} : call'[d] = call[d]

Returns(c, from) ==
  /\ call[c].at = from /\ call'[c] = Idle
  /\ call[c].game \in Games /\ call[c].user \in Users /\ status[call[c].game] # "none"
  /\ \A d \in Calls \ {c} : call'[d] = call[d]

\* Only g changes its status.
Becomes(g, s) ==
  /\ status'[g] = s
  /\ \A h \in Games \ {g} : status'[h] = status[h]

LEMMA MovesByGoto ==
  ASSUME TypeOK, NEW c \in Calls, NEW from \in Stages \ {"idle"}, NEW to \in Stages,
         call[c].at = from, Goto(c, to)
  PROVE  Moves(c, from, to)
  BY GotoEffect DEF Moves, TypeOK

LEMMA ReturnsByReturn ==
  ASSUME TypeOK, NEW c \in Calls, NEW from \in Stages \ {"idle"}, call[c].at = from, Return(c)
  PROVE  Returns(c, from)
  BY DEF Returns, Return, TypeOK

\* The effects of each step of a request, in these terms.
LEMMA StartEffect ==
  ASSUME TypeOK, NEW u \in Users, NEW b \in Bets, StartGame(u, b)
  PROVE  /\ UNCHANGED <<call, credited, recorded, intact>> /\ ~HasActiveGame(u)
         /\ orderly' = IF \E d \in Calls : call[d].user = u THEN orderly \ {u} ELSE orderly
         /\ \E g \in Games :
              /\ status[g] = "none" /\ Becomes(g, "active") /\ owner'[g] = u
              /\ \A h \in Games \ {g} : owner'[h] = owner[h]
              /\ activeGames'[u] = g /\ \A v \in Users \ {u} : activeGames'[v] = activeGames[v]
  BY DEF StartGame, NewGame, Ask, Becomes, TypeOK, Statuses, ghostVars

LEMMA TossEffect ==
  ASSUME TypeOK, NEW c \in Calls, Toss(c)
  PROVE  /\ UNCHANGED <<activeGames, owner, credited, recorded, orderly, intact>>
         /\ \/ /\ Moves(c, "flip", "look") /\ status[call[c].game] = "active"
               /\ \E s \in {"active", "cashed_out", "lost"} : Becomes(call[c].game, s)
            \/ Returns(c, "flip") /\ UNCHANGED status
  <1>1. /\ UNCHANGED <<activeGames, owner, credited, recorded, orderly, intact>>
        /\ call[c].at = "flip" /\ call[c].game \in Games
    BY DEF Toss, TypeOK, ghostVars
  <1>2. CASE status[call[c].game] = "active" /\ WinRound(call[c].game) /\ Goto(c, "look")
    <2>1. \E s \in {"active", "cashed_out", "lost"} : Becomes(call[c].game, s)
      BY <1>1, <1>2 DEF WinRound, Becomes, TypeOK
    <2> QED
      BY <1>1, <1>2, <2>1, MovesByGoto DEF Stages
  <1>3. CASE status[call[c].game] = "active" /\ LoseGame(call[c].game) /\ Goto(c, "look")
    <2>1. \E s \in {"active", "cashed_out", "lost"} : Becomes(call[c].game, s)
      BY <1>1, <1>3 DEF LoseGame, Becomes, TypeOK
    <2> QED
      BY <1>1, <1>3, <2>1, MovesByGoto DEF Stages
  <1>4. CASE Return(c) /\ UNCHANGED <<rounds, status>>
    BY <1>1, <1>4, ReturnsByReturn DEF Stages
  <1> QED
    BY <1>2, <1>3, <1>4 DEF Toss

LEMMA LookEffect ==
  ASSUME TypeOK, NEW c \in Calls, Look(c)
  PROVE  /\ UNCHANGED <<activeGames, owner, status, credited, recorded, orderly, intact>>
         /\ \/ Moves(c, "look", "report") /\ status[call[c].game] = "active"
            \/ Moves(c, "look", "drop") /\ status[call[c].game] # "active"
  BY MovesByGoto DEF Look, Stages, gameVars, ghostVars

LEMMA DropEffect ==
  ASSUME TypeOK, NEW c \in Calls, Drop(c)
  PROVE  /\ UNCHANGED <<owner, status, credited, recorded, orderly, intact>>
         /\ Moves(c, "drop", "credit") /\ Forget(call[c].user)
  BY MovesByGoto DEF Drop, Stages, gameVars, ghostVars

LEMMA CreditEffect ==
  ASSUME TypeOK, NEW c \in Calls, Credit(c)
  PROVE  /\ UNCHANGED <<activeGames, owner, status, recorded, orderly>>
         /\ Moves(c, "credit", "report")
         /\ \/ /\ status[call[c].game] = "cashed_out" /\ intact' = intact
               /\ credited' = [credited EXCEPT ![call[c].game] = @ + 1]
            \/ /\ status[call[c].game] = "cashed_out" /\ intact' = intact \ {call[c].game}
               /\ credited' = credited
            \/ status[call[c].game] # "cashed_out" /\ UNCHANGED <<credited, intact>>
  <1>1. UNCHANGED <<activeGames, owner, status, recorded, orderly>> /\ Moves(c, "credit", "report")
    BY MovesByGoto DEF Credit, Stages, gameVars
  <1> QED
    BY <1>1 DEF Credit, CreditWinnings

LEMMA TakeOutEffect ==
  ASSUME TypeOK, NEW c \in Calls, TakeOut(c)
  PROVE  /\ UNCHANGED <<activeGames, owner, credited, recorded, orderly, intact>>
         /\ \/ /\ Moves(c, "cash", "pay") /\ status[call[c].game] = "active"
               /\ Becomes(call[c].game, "cashed_out")
            \/ Returns(c, "cash") /\ UNCHANGED status
  <1>1. /\ UNCHANGED <<activeGames, owner, credited, recorded, orderly, intact>>
        /\ call[c].at = "cash" /\ call[c].game \in Games
    BY DEF TakeOut, TypeOK, ghostVars
  <1>2. CASE status[call[c].game] = "active" /\ rounds[call[c].game] > 0
    <2>1. status' = [status EXCEPT ![call[c].game] = "cashed_out"] /\ Goto(c, "pay")
      BY <1>2 DEF TakeOut
    <2>2. Becomes(call[c].game, "cashed_out")
      BY <1>1, <2>1 DEF Becomes, TypeOK
    <2> QED
      BY <1>1, <1>2, <2>1, <2>2, MovesByGoto DEF Stages
  <1>3. CASE ~(status[call[c].game] = "active" /\ rounds[call[c].game] > 0)
    <2>1. UNCHANGED status /\ Return(c)
      BY <1>3 DEF TakeOut
    <2> QED
      BY <1>1, <2>1, ReturnsByReturn DEF Stages
  <1> QED
    BY <1>2, <1>3

LEMMA PayEffect ==
  ASSUME TypeOK, NEW c \in Calls, Pay(c)
  PROVE  /\ UNCHANGED <<activeGames, owner, status, recorded, orderly>>
         /\ \/ /\ Moves(c, "pay", "clear") /\ intact' = intact
               /\ credited' = [credited EXCEPT ![call[c].game] = @ + 1]
            \/ /\ Returns(c, "pay") /\ intact' = intact \ {call[c].game}
               /\ credited' = credited
  <1>1. UNCHANGED <<activeGames, owner, status, recorded, orderly>> /\ call[c].at = "pay"
    BY DEF Pay, gameVars
  <1>2. Goto(c, "clear") => Moves(c, "pay", "clear")
    BY <1>1, MovesByGoto DEF Stages
  <1>3. Return(c) => Returns(c, "pay")
    BY <1>1, ReturnsByReturn DEF Stages
  <1> QED
    BY <1>1, <1>2, <1>3 DEF Pay, CreditWinnings

LEMMA ClearEffect ==
  ASSUME TypeOK, NEW c \in Calls, Clear(c)
  PROVE  /\ UNCHANGED <<owner, status, credited, recorded, orderly, intact>>
         /\ Moves(c, "clear", "report") /\ Forget(call[c].user)
  BY MovesByGoto DEF Clear, Stages, gameVars, ghostVars

LEMMA ReportEffect ==
  ASSUME TypeOK, NEW c \in Calls, Report(c)
  PROVE  /\ UNCHANGED <<activeGames, owner, status, credited, orderly, intact>>
         /\ Returns(c, "report")
         /\ recorded' = IF status[call[c].game] # "active"
                        THEN [recorded EXCEPT ![call[c].game] = @ + 1] ELSE recorded
  BY ReturnsByReturn DEF Report, Stages, gameVars

LEMMA ForgetEffect ==
  ASSUME TypeOK, NEW u \in Users, Forget(u)
  PROVE  activeGames'[u] = NoGame /\ \A v \in Users \ {u} : activeGames'[v] = activeGames[v]
  BY DEF Forget, TypeOK

\* Every step keeps requests and the map on the games of their users.
LEMMA CallStep == TypeOK /\ CallInv /\ [Next]_vars => CallInv'
  <1> SUFFICES ASSUME TypeOK, CallInv, [Next]_vars PROVE CallInv'
    OBVIOUS
  <1>1. ASSUME NEW u \in Users, NEW b \in Bets, StartGame(u, b) PROVE CallInv'
    <2>1. PICK g \in Games :
            /\ status[g] = "none" /\ Becomes(g, "active") /\ owner'[g] = u
            /\ \A h \in Games \ {g} : owner'[h] = owner[h]
            /\ activeGames'[u] = g /\ \A v \in Users \ {u} : activeGames'[v] = activeGames[v]
      BY <1>1, StartEffect
    <2>2. UNCHANGED call
      BY <1>1, StartEffect
    <2>3. \A h \in Games : status[h] # "none" => owner'[h] = owner[h] /\ status'[h] = status[h]
      BY <2>1 DEF Becomes
    <2>4. \A c \in Calls : call[c].at # "idle" => call[c].game \in Games /\ status[call[c].game] # "none"
      BY DEF TypeOK
    <2>5. \A v \in Users : activeGames[v] # NoGame => activeGames[v] \in Games /\ status[activeGames[v]] # "none"
      BY DEF TypeOK
    <2> QED
      BY <2>1, <2>2, <2>3, <2>4, <2>5 DEF CallInv, Ended
  <1>2. ASSUME NEW c \in Calls, NEW u \in Users, Flip(c, u) PROVE CallInv'
    <2>1. /\ call'[c].at = "flip" /\ call'[c].user = u /\ call'[c].game = activeGames[u]
          /\ activeGames[u] \in Games /\ \A d \in Calls : d # c => call'[d] = call[d]
      BY <1>2, BeginOnEffect DEF Flip, Stages
    <2>2. UNCHANGED <<activeGames, owner, status>>
      BY <1>2, BeginOnEffect DEF Flip, Stages, gameVars
    <2>3. activeGames[u] # NoGame
      BY <1>2 DEF Flip, BeginOn
    <2> QED
      BY <2>1, <2>2, <2>3 DEF CallInv, Ended
  <1>3. ASSUME NEW c \in Calls, NEW u \in Users, CashOut(c, u) PROVE CallInv'
    <2>1. /\ call'[c].at = "cash" /\ call'[c].user = u /\ call'[c].game = activeGames[u]
          /\ activeGames[u] \in Games /\ \A d \in Calls : d # c => call'[d] = call[d]
      BY <1>3, BeginOnEffect DEF CashOut, Stages
    <2>2. UNCHANGED <<activeGames, owner, status>>
      BY <1>3, BeginOnEffect DEF CashOut, Stages, gameVars
    <2>3. activeGames[u] # NoGame
      BY <1>3 DEF CashOut, BeginOn
    <2> QED
      BY <2>1, <2>2, <2>3 DEF CallInv, Ended
  <1>4. ASSUME NEW c \in Calls, Toss(c) PROVE CallInv'
    <2>1. UNCHANGED <<activeGames, owner>>
      BY <1>4, TossEffect
    <2>2. CASE /\ Moves(c, "flip", "look") /\ status[call[c].game] = "active"
               /\ \E s \in {"active", "cashed_out", "lost"} : Becomes(call[c].game, s)
      BY <2>1, <2>2 DEF Moves, Becomes, CallInv, Ended, TypeOK
    <2>3. CASE Returns(c, "flip") /\ UNCHANGED status
      BY <2>1, <2>3, IdleType DEF Returns, CallInv, Ended
    <2> QED
      BY <1>4, <2>2, <2>3, TossEffect
  <1>5. ASSUME NEW c \in Calls, Look(c) PROVE CallInv'
    BY <1>5, LookEffect DEF Moves, CallInv, Ended, TypeOK, Statuses
  <1>6. ASSUME NEW c \in Calls, Drop(c) PROVE CallInv'
    BY <1>6, DropEffect, ForgetEffect DEF Moves, CallInv, Ended
  <1>7. ASSUME NEW c \in Calls, Credit(c) PROVE CallInv'
    BY <1>7, CreditEffect DEF Moves, CallInv, Ended
  <1>8. ASSUME NEW c \in Calls, TakeOut(c) PROVE CallInv'
    <2>1. UNCHANGED <<activeGames, owner>>
      BY <1>8, TakeOutEffect
    <2>2. CASE /\ Moves(c, "cash", "pay") /\ status[call[c].game] = "active"
               /\ Becomes(call[c].game, "cashed_out")
      BY <2>1, <2>2 DEF Moves, Becomes, CallInv, Ended, TypeOK
    <2>3. CASE Returns(c, "cash") /\ UNCHANGED status
      BY <2>1, <2>3, IdleType DEF Returns, CallInv, Ended
    <2> QED
      BY <1>8, <2>2, <2>3, TakeOutEffect
  <1>9. ASSUME NEW c \in Calls, Pay(c) PROVE CallInv'
    BY <1>9, PayEffect, IdleType DEF Moves, Returns, CallInv, Ended
  <1>10. ASSUME NEW c \in Calls, Clear(c) PROVE CallInv'
    BY <1>10, ClearEffect, ForgetEffect DEF Moves, CallInv, Ended
  <1>11. ASSUME NEW c \in Calls, Report(c) PROVE CallInv'
    BY <1>11, ReportEffect, IdleType DEF Returns, CallInv, Ended
  <1>12. ASSUME NEW u \in Users, Expire(u) PROVE CallInv'
    BY <1>12, ForgetEffect DEF Expire, CallInv, Ended, gameVars
  <1>13. ASSUME Crash PROVE CallInv'
    BY <1>13, IdleType DEF Crash, CallInv, Ended, gameVars
  <1>14. CASE UNCHANGED vars
    BY <1>14 DEF vars, CallInv, Ended, gameVars
  <1> QED
    BY <1>1, <1>2, <1>3, <1>4, <1>5, <1>6, <1>7, <1>8, <1>9, <1>10, <1>11, <1>12, <1>13, <1>14 DEF Next, FlipStep, CashOutStep

-----------------------------------------------------------------------------
(* Nothing is lost.  While the winnings or the record of an ended game are       *)
(* missing, a request that will see to it is still under way.                    *)

WillCredit(g) == \E c \in Calls : call[c].game = g /\ call[c].at \in {"look", "drop", "credit", "pay"}
WillRecord(g) ==
  \E c \in Calls : call[c].game = g /\ call[c].at \in {"look", "drop", "credit", "pay", "clear", "report"}

CreditsWins == \A g \in Games : credited[g] > 0 => status[g] = "cashed_out"
WinsCredited == \A g \in intact : status[g] = "cashed_out" => credited[g] > 0 \/ WillCredit(g)
EndsRecorded == \A g \in intact : Ended(g) => recorded[g] > 0 \/ WillRecord(g)

LostInv == CreditsWins /\ WinsCredited /\ EndsRecorded

\* A request that moves on from a game's end is one that will still see to it.
LEMMA LostStep == TypeOK /\ CallInv /\ LostInv /\ [Next]_vars => LostInv'
  <1> SUFFICES ASSUME TypeOK, CallInv, LostInv, [Next]_vars PROVE LostInv'
    OBVIOUS
  <1> USE DEF LostInv
  <1>1. ASSUME NEW u \in Users, NEW b \in Bets, StartGame(u, b) PROVE LostInv'
    <2>1. PICK g \in Games :
            /\ status[g] = "none" /\ Becomes(g, "active") /\ owner'[g] = u
            /\ \A h \in Games \ {g} : owner'[h] = owner[h]
            /\ activeGames'[u] = g /\ \A v \in Users \ {u} : activeGames'[v] = activeGames[v]
      BY <1>1, StartEffect
    <2>2. UNCHANGED <<call, credited, recorded, intact>>
      BY <1>1, StartEffect
    <2>3. \A h \in Games : status'[h] # status[h] => status[h] = "none" /\ status'[h] = "active"
      BY <2>1 DEF Becomes
    <2> QED
      BY <2>2, <2>3 DEF CreditsWins, WinsCredited, EndsRecorded, WillCredit, WillRecord, Ended, TypeOK
  <1>2. ASSUME NEW c \in Calls, NEW u \in Users, Flip(c, u) PROVE LostInv'
    <2>1. /\ call[c] = Idle /\ \A d \in Calls : d # c => call'[d] = call[d]
          /\ UNCHANGED <<status, credited, recorded, intact>>
      BY <1>2, BeginOnEffect DEF Flip, Stages, gameVars, ghostVars
    <2> QED
      BY <2>1, IdleType DEF CreditsWins, WinsCredited, EndsRecorded, WillCredit, WillRecord, Ended, TypeOK
  <1>3. ASSUME NEW c \in Calls, NEW u \in Users, CashOut(c, u) PROVE LostInv'
    <2>1. /\ call[c] = Idle /\ \A d \in Calls : d # c => call'[d] = call[d]
          /\ UNCHANGED <<status, credited, recorded, intact>>
      BY <1>3, BeginOnEffect DEF CashOut, Stages, gameVars, ghostVars
    <2> QED
      BY <2>1, IdleType DEF CreditsWins, WinsCredited, EndsRecorded, WillCredit, WillRecord, Ended, TypeOK
  <1>4. ASSUME NEW c \in Calls, Toss(c) PROVE LostInv'
    <2>1. UNCHANGED <<credited, recorded, intact>> /\ call[c].at = "flip" /\ call[c].game \in Games
      BY <1>4 DEF Toss, ghostVars, TypeOK
    <2>2. CASE /\ Moves(c, "flip", "look") /\ status[call[c].game] = "active"
               /\ \E s \in {"active", "cashed_out", "lost"} : Becomes(call[c].game, s)
      BY <2>1, <2>2 DEF Moves, Becomes, CreditsWins, WinsCredited, EndsRecorded, WillCredit, WillRecord, Ended, TypeOK
    <2>3. CASE Returns(c, "flip") /\ UNCHANGED status
      BY <2>1, <2>3 DEF Returns, CreditsWins, WinsCredited, EndsRecorded, WillCredit, WillRecord, Ended
    <2> QED
      BY <1>4, <2>2, <2>3, TossEffect
  <1>5. ASSUME NEW c \in Calls, Look(c) PROVE LostInv'
    BY <1>5, LookEffect DEF Moves, CreditsWins, WinsCredited, EndsRecorded, WillCredit, WillRecord, Ended
  <1>6. ASSUME NEW c \in Calls, Drop(c) PROVE LostInv'
    BY <1>6, DropEffect DEF Moves, CreditsWins, WinsCredited, EndsRecorded, WillCredit, WillRecord, Ended
  <1>7. ASSUME NEW c \in Calls, Credit(c) PROVE LostInv'
    <2>1. UNCHANGED <<status, recorded>> /\ Moves(c, "credit", "report")
      BY <1>7, CreditEffect
    <2>2. intact' \subseteq intact /\ EndsRecorded'
      BY <1>7, <2>1, CreditEffect DEF Moves, CreditsWins, WinsCredited, EndsRecorded, WillCredit, WillRecord, Ended
    <2>3. CASE /\ status[call[c].game] = "cashed_out" /\ intact' = intact
               /\ credited' = [credited EXCEPT ![call[c].game] = @ + 1]
      BY <2>1, <2>2, <2>3 DEF Moves, CreditsWins, WinsCredited, WillCredit, TypeOK
    <2>4. CASE status[call[c].game] = "cashed_out" /\ intact' = intact \ {call[c].game} /\ credited' = credited
      BY <2>1, <2>2, <2>4 DEF Moves, CreditsWins, WinsCredited, WillCredit
    <2>5. CASE status[call[c].game] # "cashed_out" /\ UNCHANGED <<credited, intact>>
      BY <2>1, <2>2, <2>5 DEF Moves, CreditsWins, WinsCredited, WillCredit
    <2> QED
      BY <1>7, <2>3, <2>4, <2>5, CreditEffect
  <1>8. ASSUME NEW c \in Calls, TakeOut(c) PROVE LostInv'
    <2>1. UNCHANGED <<credited, recorded, intact>> /\ call[c].at = "cash" /\ call[c].game \in Games
      BY <1>8 DEF TakeOut, ghostVars, TypeOK
    <2>2. CASE /\ Moves(c, "cash", "pay") /\ status[call[c].game] = "active"
               /\ Becomes(call[c].game, "cashed_out")
      BY <2>1, <2>2 DEF Moves, Becomes, CreditsWins, WinsCredited, EndsRecorded, WillCredit, WillRecord, Ended, TypeOK
    <2>3. CASE Returns(c, "cash") /\ UNCHANGED status
      BY <2>1, <2>3 DEF Returns, CreditsWins, WinsCredited, EndsRecorded, WillCredit, WillRecord, Ended
    <2> QED
      BY <1>8, <2>2, <2>3, TakeOutEffect
  <1>9. ASSUME NEW c \in Calls, Pay(c) PROVE LostInv'
    <2>1. UNCHANGED <<status, recorded>> /\ status[call[c].game] = "cashed_out" /\ call[c].game \in Games
      BY <1>9, PayEffect DEF Pay, TypeOK
    <2>2. CASE /\ Moves(c, "pay", "clear") /\ intact' = intact
               /\ credited' = [credited EXCEPT ![call[c].game] = @ + 1]
      <3>1. EndsRecorded'
        BY <2>1, <2>2 DEF Moves, CreditsWins, WinsCredited, EndsRecorded, WillCredit, WillRecord, Ended
      <3> QED
        BY <2>1, <2>2, <3>1 DEF Moves, CreditsWins, WinsCredited, WillCredit, TypeOK
    <2>3. CASE Returns(c, "pay") /\ intact' = intact \ {call[c].game} /\ credited' = credited
      BY <2>1, <2>3 DEF Returns, CreditsWins, WinsCredited, EndsRecorded, WillCredit, WillRecord, Ended
    <2> QED
      BY <1>9, <2>2, <2>3, PayEffect
  <1>10. ASSUME NEW c \in Calls, Clear(c) PROVE LostInv'
    <2>1. UNCHANGED <<status, credited, recorded, intact>> /\ Moves(c, "clear", "report")
      BY <1>10, ClearEffect
    <2> QED
      BY <2>1 DEF Moves, CreditsWins, WinsCredited, EndsRecorded, WillCredit, WillRecord, Ended
  <1>11. ASSUME NEW c \in Calls, Report(c) PROVE LostInv'
    <2>1. /\ UNCHANGED <<status, credited, intact>> /\ Returns(c, "report")
          /\ recorded' = IF status[call[c].game] # "active"
                         THEN [recorded EXCEPT ![call[c].game] = @ + 1] ELSE recorded
      BY <1>11, ReportEffect
    <2>2. CreditsWins' /\ WinsCredited'
      BY <2>1 DEF Returns, CreditsWins, WinsCredited, WillCredit
    <2>3. EndsRecorded'
      BY <2>1 DEF Returns, EndsRecorded, WillRecord, Ended, TypeOK
    <2> QED
      BY <2>2, <2>3
  <1>12. ASSUME NEW u \in Users, Expire(u) PROVE LostInv'
    BY <1>12 DEF Expire, gameVars, ghostVars, CreditsWins, WinsCredited, EndsRecorded, WillCredit, WillRecord, Ended
  <1>13. ASSUME Crash PROVE LostInv'
    <2>1. UNCHANGED <<status, credited, recorded>>
      BY <1>13 DEF Crash, gameVars, ghostVars
    <2>2. \A g \in intact' : g \in intact /\ \A c \in Calls : call[c].game # g
      BY <1>13 DEF Crash, TypeOK
    <2> QED
      BY <2>1, <2>2 DEF CreditsWins, WinsCredited, EndsRecorded, WillCredit, WillRecord, Ended
  <1>14. CASE UNCHANGED vars
    BY <1>14 DEF vars, gameVars, ghostVars, CreditsWins, WinsCredited, EndsRecorded, WillCredit, WillRecord, Ended
  <1> QED
    BY <1>1, <1>2, <1>3, <1>4, <1>5, <1>6, <1>7, <1>8, <1>9, <1>10, <1>11, <1>12, <1>13, <1>14 DEF Next, FlipStep, CashOutStep

\* What is typed, what requests work on, and what they will still see to.
SessionsInv == TypeOK /\ CallInv /\ LostInv

LEMMA SessionsInvariant == Spec => []SessionsInv
<1>1. Init => SessionsInv
  BY SessionsAssumption, IdleType
  DEF Init, SessionsInv, TypeOK, Statuses, CallInv, LostInv, CreditsWins, WinsCredited, EndsRecorded, Ended
<1>2. SessionsInv /\ [Next]_vars => SessionsInv'
  BY TypeStep, CallStep, LostStep DEF SessionsInv
<1> QED
  BY <1>1, <1>2, PTL DEF Spec

\* When no request holds it any more, a game that is over was recorded, and credited if
\* it was won and only then, unless a statement failed, the process stopped or the
\* game was forgotten for its age.
THEOREM NothingIsLostHolds == Spec => []NothingIsLost
<1>1. SessionsInv => NothingIsLost
  <2> SUFFICES ASSUME SessionsInv, NEW g \in intact, Ended(g), \A c \in Calls : call[c].game # g
               PROVE  recorded[g] > 0 /\ (credited[g] > 0 <=> status[g] = "cashed_out")
    BY DEF NothingIsLost
  <2> QED
    BY DEF SessionsInv, LostInv, CreditsWins, WinsCredited, EndsRecorded, WillCredit, WillRecord, TypeOK
<1> QED
  BY <1>1, SessionsInvariant, PTL

-----------------------------------------------------------------------------
(* Paid once, and found.  The only request of an orderly user is for his only    *)
(* active game, for which nothing was paid or recorded; after its end nothing is *)
(* paid or recorded twice, because each stage of the request is passed once.     *)

OneRequest(u) == \A c, d \in Calls : call[c].user = u /\ call[d].user = u => c = d

OneGame(u) ==
  \A g \in intact : owner[g] = u /\ status[g] = "active" =>
    /\ activeGames[u] = g
    /\ \A c \in Calls : call[c].user = u => call[c].game = g

\* Nothing was paid or recorded for the game.
Fresh(g) == credited[g] = 0 /\ recorded[g] = 0

PaidByNow(u) ==
  \A g \in Games : owner[g] = u => /\ credited[g] <= 1 /\ recorded[g] <= 1
                                   /\ status[g] = "active" => Fresh(g)

RequestInv(u) ==
  \A c \in Calls : call[c].user = u =>
    /\ call[c].at \in {"flip", "cash"} => status[call[c].game] = "active"
    /\ call[c].at \in {"look", "drop", "credit", "pay"} => Fresh(call[c].game)
    /\ call[c].at \in {"clear", "report"} => recorded[call[c].game] = 0

OrderInv ==
  /\ \A g \in Games : status[g] = "none" => Fresh(g)
  /\ \A u \in orderly : OneRequest(u) /\ OneGame(u) /\ PaidByNow(u) /\ RequestInv(u)

\* Every step keeps orderly users at one request and one unpaid game.
LEMMA OrderStep == TypeOK /\ CallInv /\ OrderInv /\ [Next]_vars => OrderInv'
  <1> SUFFICES ASSUME TypeOK, CallInv, OrderInv, [Next]_vars PROVE OrderInv'
    OBVIOUS
  <1>0. \A u \in orderly :
          /\ u \in Users /\ u # Nobody
          /\ \A c \in Calls : call[c].user = u =>
               /\ call[c].at # "idle" /\ call[c].game \in Games /\ status[call[c].game] # "none"
               /\ owner[call[c].game] = u
    BY SessionsAssumption, IdleType DEF TypeOK, CallInv
  <1>1. ASSUME NEW u \in Users, NEW b \in Bets, StartGame(u, b) PROVE OrderInv'
    <2>1. PICK g \in Games :
            /\ status[g] = "none" /\ Becomes(g, "active") /\ owner'[g] = u
            /\ \A h \in Games \ {g} : owner'[h] = owner[h]
            /\ activeGames'[u] = g /\ \A v \in Users \ {u} : activeGames'[v] = activeGames[v]
      BY <1>1, StartEffect
    <2>2. UNCHANGED <<call, credited, recorded, intact>> /\ ~HasActiveGame(u)
      BY <1>1, StartEffect
    <2>3. /\ orderly' \subseteq orderly
          /\ u \in orderly' => \A d \in Calls : call[d].user # u
      BY <1>1, StartEffect
    <2>4. \A h \in Games : status'[h] = "none" => status[h] = "none"
      BY <2>1 DEF Becomes
    <2>5. ASSUME NEW v \in orderly'
          PROVE  OneRequest(v)' /\ OneGame(v)' /\ PaidByNow(v)' /\ RequestInv(v)'
      <3>1. v \in orderly /\ v \in Users
        BY <2>3, <2>5, <1>1, StartEffect DEF TypeOK
      <3>2. OneRequest(v)'
        BY <2>2, <3>1 DEF OrderInv, OneRequest
      <3>3. PaidByNow(v)'
        BY <2>1, <2>2, <3>1 DEF OrderInv, PaidByNow, Fresh, Becomes
      <3>4. \A c \in Calls : call[c].user = v => call[c].game \in Games /\ status[call[c].game] # "none"
        BY <1>0, <3>1
      <3>5. RequestInv(v)'
        BY <2>1, <2>2, <3>1, <3>4 DEF OrderInv, RequestInv, Fresh, Becomes
      <3>6. ASSUME v = u PROVE OneGame(v)'
        <4>1. \A h \in intact : ~(owner[h] = u /\ status[h] = "active")
          <5>1. OneGame(u) /\ intact \subseteq Games
            BY <3>1, <3>6 DEF OrderInv, TypeOK
          <5> QED
            BY <2>2, <5>1, SessionsAssumption DEF OneGame, HasActiveGame
        <4>2. \A h \in intact' : owner'[h] = u /\ status'[h] = "active" => h = g
          BY <2>1, <2>2, <4>1 DEF Becomes, TypeOK
        <4> QED
          <5>1. \A c \in Calls : call'[c].user # u
            BY <2>2, <2>3, <2>5, <3>6
          <5> QED
            BY <2>1, <3>6, <4>2, <5>1 DEF OneGame
      <3>7. ASSUME v # u PROVE OneGame(v)'
        <4>1. \A h \in intact' : owner'[h] = v /\ status'[h] = "active" =>
                h \in intact /\ owner[h] = v /\ status[h] = "active"
          BY <2>1, <2>2, <3>7 DEF Becomes, TypeOK
        <4> QED
          <5>1. OneGame(v) /\ activeGames'[v] = activeGames[v]
            BY <2>1, <3>1, <3>7 DEF OrderInv
          <5> QED
            BY <2>2, <4>1, <5>1 DEF OneGame
      <3> QED
        BY <3>2, <3>3, <3>5, <3>6, <3>7
    <2>6. \A h \in Games : status'[h] = "none" => Fresh(h)'
      BY <2>2, <2>4 DEF OrderInv, Fresh
    <2> QED
      BY <2>5, <2>6 DEF OrderInv
  <1>2. ASSUME NEW c \in Calls, NEW u \in Users, Flip(c, u) PROVE OrderInv'
    <2>1. /\ call'[c].at = "flip" /\ call'[c].user = u /\ call'[c].game = activeGames[u]
          /\ call[c] = Idle /\ \A d \in Calls : d # c => call'[d] = call[d]
          /\ activeGames[u] \in Games /\ status[activeGames[u]] = "active"
      BY <1>2, BeginOnEffect DEF Flip, Stages
    <2>2. UNCHANGED <<activeGames, owner, status, credited, recorded, intact>>
      BY <1>2, BeginOnEffect DEF Flip, Stages, gameVars, ghostVars
    <2>3. /\ orderly' \subseteq orderly
          /\ u \in orderly' => \A d \in Calls : call[d].user # u
      BY <1>2, BeginOnEffect DEF Flip, Stages
    <2>4. ASSUME NEW v \in orderly'
          PROVE  OneRequest(v)' /\ OneGame(v)' /\ PaidByNow(v)' /\ RequestInv(v)'
      <3>1. v \in orderly /\ v \in Users
        BY <2>3, <2>4, <1>2, BeginOnEffect DEF Flip, Stages, TypeOK
      <3>2. PaidByNow(v)'
        BY <2>2, <3>1 DEF OrderInv, PaidByNow, Fresh
      <3>3. OneRequest(v) /\ OneGame(v) /\ PaidByNow(v) /\ RequestInv(v)
        BY <3>1 DEF OrderInv
      <3>4. CASE v = u
        <4>1. \A d \in Calls : call'[d].user = v => d = c
          <5>1. \A d \in Calls : call[d].user # u
            BY <2>3, <2>4, <3>4
          <5> QED
            BY <2>1, <3>4, <5>1
        <4>2. OneRequest(v)'
          BY <4>1 DEF OneRequest
        <4>3. OneGame(v)'
          BY <2>1, <2>2, <3>3, <3>4, <4>1 DEF OneGame
        <4>4. RequestInv(v)'
          BY <2>1, <2>2, <4>1 DEF RequestInv
        <4> QED
          BY <3>2, <4>2, <4>3, <4>4
      <3>5. CASE v # u
        <4>1. \A d \in Calls : call'[d].user = v => d # c /\ call'[d] = call[d]
          BY <2>1, <3>5
        <4> QED
          BY <2>2, <3>2, <3>3, <4>1 DEF OneRequest, OneGame, RequestInv, Fresh
      <3> QED
        BY <3>4, <3>5
    <2> QED
      BY <2>2, <2>4 DEF OrderInv, Fresh
  <1>3. ASSUME NEW c \in Calls, NEW u \in Users, CashOut(c, u) PROVE OrderInv'
    <2>1. /\ call'[c].at = "cash" /\ call'[c].user = u /\ call'[c].game = activeGames[u]
          /\ call[c] = Idle /\ \A d \in Calls : d # c => call'[d] = call[d]
          /\ activeGames[u] \in Games /\ status[activeGames[u]] = "active"
      BY <1>3, BeginOnEffect DEF CashOut, Stages
    <2>2. UNCHANGED <<activeGames, owner, status, credited, recorded, intact>>
      BY <1>3, BeginOnEffect DEF CashOut, Stages, gameVars, ghostVars
    <2>3. /\ orderly' \subseteq orderly
          /\ u \in orderly' => \A d \in Calls : call[d].user # u
      BY <1>3, BeginOnEffect DEF CashOut, Stages
    <2>4. ASSUME NEW v \in orderly'
          PROVE  OneRequest(v)' /\ OneGame(v)' /\ PaidByNow(v)' /\ RequestInv(v)'
      <3>1. v \in orderly /\ v \in Users
        BY <2>3, <2>4, <1>3, BeginOnEffect DEF CashOut, Stages, TypeOK
      <3>2. PaidByNow(v)'
        BY <2>2, <3>1 DEF OrderInv, PaidByNow, Fresh
      <3>3. OneRequest(v) /\ OneGame(v) /\ PaidByNow(v) /\ RequestInv(v)
        BY <3>1 DEF OrderInv
      <3>4. CASE v = u
        <4>1. \A d \in Calls : call'[d].user = v => d = c
          <5>1. \A d \in Calls : call[d].user # u
            BY <2>3, <2>4, <3>4
          <5> QED
            BY <2>1, <3>4, <5>1
        <4>2. OneRequest(v)'
          BY <4>1 DEF OneRequest
        <4>3. OneGame(v)'
          BY <2>1, <2>2, <3>3, <3>4, <4>1 DEF OneGame
        <4>4. RequestInv(v)'
          BY <2>1, <2>2, <4>1 DEF RequestInv
        <4> QED
          BY <3>2, <4>2, <4>3, <4>4
      <3>5. CASE v # u
        <4>1. \A d \in Calls : call'[d].user = v => d # c /\ call'[d] = call[d]
          BY <2>1, <3>5
        <4> QED
          BY <2>2, <3>2, <3>3, <4>1 DEF OneRequest, OneGame, RequestInv, Fresh
      <3> QED
        BY <3>4, <3>5
    <2> QED
      BY <2>2, <2>4 DEF OrderInv, Fresh
  <1>4. ASSUME NEW c \in Calls, Toss(c) PROVE OrderInv'
    <2>1. UNCHANGED <<activeGames, owner, credited, recorded, orderly, intact>>
      BY <1>4, TossEffect
    <2>2. CASE /\ Moves(c, "flip", "look") /\ status[call[c].game] = "active"
               /\ \E s \in {"active", "cashed_out", "lost"} : Becomes(call[c].game, s)
      <3>1. \A h \in Games :
              /\ status'[h] = "none" <=> status[h] = "none"
              /\ status'[h] = "active" => status[h] = "active"
              /\ h # call[c].game => status'[h] = status[h]
        BY <2>2 DEF Moves, Becomes
      <3>2. owner[call[c].game] = call[c].user
        BY <2>2 DEF Moves, CallInv
      <3>3. ASSUME NEW u \in orderly
            PROVE  OneRequest(u)' /\ OneGame(u)' /\ PaidByNow(u)' /\ RequestInv(u)'
        <4>1. OneRequest(u)'
          BY <2>1, <2>2 DEF Moves, OrderInv, OneRequest
        <4>2. OneGame(u)' /\ PaidByNow(u)'
          <5>1. OneGame(u) /\ PaidByNow(u)
            BY DEF OrderInv
          <5>2. \A d \in Calls : call'[d].user = call[d].user /\ call'[d].game = call[d].game
            BY <2>2 DEF Moves
          <5>3. \A g \in intact : g \in Games
            BY DEF TypeOK
          <5>4. OneGame(u)'
            BY <2>1, <3>1, <5>1, <5>2, <5>3 DEF OneGame
          <5> QED
            BY <2>1, <3>1, <5>1, <5>4 DEF PaidByNow, Fresh
        <4>3. ASSUME NEW d \in Calls, call'[d].user = u
              PROVE  /\ call'[d].at \in {"flip", "cash"} => status'[call'[d].game] = "active"
                     /\ call'[d].at \in {"look", "drop", "credit", "pay"} => credited'[call'[d].game] = 0 /\ recorded'[call'[d].game] = 0
                     /\ call'[d].at \in {"clear", "report"} => recorded'[call'[d].game] = 0
          <5>1. CASE d = c
            <6>1. Fresh(call[c].game)
              BY <1>0, <2>2, <3>2, <4>3, <5>1 DEF Moves, OrderInv, PaidByNow
            <6>2. call'[d].game = call[c].game /\ call'[d].at \notin {"flip", "cash", "clear", "report"}
              BY <2>2, <5>1 DEF Moves
            <6> QED
              BY <2>1, <6>1, <6>2 DEF Fresh
          <5>2. CASE d # c
            <6>1. call'[d] = call[d] /\ call[c].user # u
              BY <2>2, <4>3, <5>2 DEF Moves, OrderInv, OneRequest
            <6>2. status'[call[d].game] = status[call[d].game]
              BY <1>0, <3>1, <3>2, <4>3, <6>1
            <6>3. RequestInv(u) /\ call[d].user = u
              BY <4>3, <6>1 DEF OrderInv
            <6> QED
              BY <2>1, <6>1, <6>2, <6>3 DEF RequestInv, Fresh
          <5> QED
            BY <5>1, <5>2
        <4> QED
          BY <4>1, <4>2, <4>3 DEF RequestInv, Fresh
      <3> QED
        BY <2>1, <3>1, <3>3 DEF OrderInv, Fresh
    <2>3. CASE Returns(c, "flip") /\ UNCHANGED status
      BY <1>0, <2>1, <2>3, IdleType DEF Returns, OrderInv, OneRequest, OneGame, PaidByNow, RequestInv, Fresh
    <2> QED
      BY <1>4, <2>2, <2>3, TossEffect
  <1>5. ASSUME NEW c \in Calls, Look(c) PROVE OrderInv'
    <2>1. UNCHANGED <<activeGames, owner, status, credited, recorded, orderly, intact>>
      BY <1>5, LookEffect
    <2>2. Moves(c, "look", "report") \/ Moves(c, "look", "drop")
      BY <1>5, LookEffect
    <2> QED
      BY <2>1, <2>2 DEF Moves, OrderInv, OneRequest, OneGame, PaidByNow, RequestInv, Fresh
  <1>6. ASSUME NEW c \in Calls, Drop(c) PROVE OrderInv'
    <2>1. UNCHANGED <<owner, status, credited, recorded, orderly, intact>> /\ Moves(c, "drop", "credit")
      BY <1>6, DropEffect
    <2>2. \A v \in Users \ {call[c].user} : activeGames'[v] = activeGames[v]
      BY <1>6, <2>1, DropEffect, ForgetEffect DEF Moves
    <2>3. status[call[c].game] # "active"
      BY <2>1 DEF Moves, CallInv, Ended
    <2>4. ASSUME NEW u \in orderly
          PROVE  OneRequest(u)' /\ OneGame(u)' /\ PaidByNow(u)' /\ RequestInv(u)'
      <3>1. OneRequest(u)' /\ PaidByNow(u)' /\ RequestInv(u)'
        BY <2>1 DEF Moves, OrderInv, OneRequest, PaidByNow, RequestInv, Fresh
      <3>2. CASE call[c].user = u
        <4>1. OneGame(u)
          BY DEF OrderInv
        <4>2. \A g \in intact : ~(owner[g] = u /\ status[g] = "active")
          BY <2>3, <3>2, <4>1 DEF OneGame
        <4> QED
          BY <2>1, <3>1, <4>2 DEF OneGame
      <3>3. CASE call[c].user # u
        <4>1. OneGame(u) /\ activeGames'[u] = activeGames[u]
          BY <1>0, <2>2, <3>3 DEF OrderInv
        <4>2. \A d \in Calls : call'[d].user = call[d].user /\ call'[d].game = call[d].game
          BY <2>1 DEF Moves
        <4> QED
          BY <2>1, <3>1, <4>1, <4>2 DEF OneGame
      <3> QED
        BY <3>1, <3>2, <3>3
    <2> QED
      BY <2>1, <2>4 DEF OrderInv, Fresh
  <1>7. ASSUME NEW c \in Calls, Credit(c) PROVE OrderInv'
    <2>1. UNCHANGED <<activeGames, owner, status, recorded, orderly>> /\ Moves(c, "credit", "report")
      BY <1>7, CreditEffect
    <2>2. CASE /\ status[call[c].game] = "cashed_out" /\ intact' = intact
               /\ credited' = [credited EXCEPT ![call[c].game] = @ + 1]
      <3>1. call[c].game \in Games /\ credited' \in [Games -> Nat] /\ owner[call[c].game] = call[c].user
        BY <2>1, <2>2 DEF Moves, CallInv, TypeOK
      <3>2. status[call[c].game] \notin {"none", "active"} /\ credited'[call[c].game] = credited[call[c].game] + 1
        BY <2>1, <2>2, <3>1 DEF TypeOK
      <3>3. \A h \in Games : h # call[c].game => credited'[h] = credited[h]
        BY <2>2 DEF TypeOK
      <3>4. ASSUME NEW u \in orderly
            PROVE  OneRequest(u)' /\ OneGame(u)' /\ PaidByNow(u)' /\ RequestInv(u)'
        <4>1. OneRequest(u)' /\ OneGame(u)'
          BY <2>1, <2>2 DEF Moves, OrderInv, OneRequest, OneGame
        <4>2. CASE call[c].user = u
          <5>1. Fresh(call[c].game)
            BY <2>1, <2>2, <4>2 DEF Moves, OrderInv, RequestInv
          <5>2. \A d \in Calls : call[d].user = u => d = c
            BY <4>2 DEF OrderInv, OneRequest
          <5>3. PaidByNow(u)'
            BY <2>1, <2>2, <3>2, <3>3, <5>1 DEF OrderInv, PaidByNow, Fresh, TypeOK
          <5>4. RequestInv(u)'
            BY <2>1, <2>2, <5>1, <5>2 DEF Moves, RequestInv, Fresh
          <5> QED
            BY <4>1, <5>3, <5>4
        <4>3. CASE call[c].user # u
          <5>1. PaidByNow(u)'
            BY <2>1, <2>2, <3>1, <3>3, <4>3 DEF OrderInv, PaidByNow, Fresh
          <5>2. \A d \in Calls : call[d].user = u /\ call[d].at # "idle" =>
                  call[d].game \in Games /\ call[d].game # call[c].game
            BY <3>1, <4>3 DEF TypeOK, CallInv
          <5>3. RequestInv(u)'
            BY <2>1, <2>2, <3>3, <4>3, <5>2 DEF Moves, OrderInv, RequestInv, Fresh
          <5> QED
            BY <4>1, <5>1, <5>3
        <4> QED
          BY <4>2, <4>3
      <3> QED
        BY <2>1, <2>2, <3>2, <3>3, <3>4 DEF OrderInv, Fresh
    <2>3. CASE intact' \subseteq intact /\ credited' = credited
      BY <2>1, <2>3 DEF Moves, OrderInv, OneRequest, OneGame, PaidByNow, RequestInv, Fresh
    <2> QED
      BY <1>7, <2>2, <2>3, CreditEffect
  <1>8. ASSUME NEW c \in Calls, TakeOut(c) PROVE OrderInv'
    <2>1. UNCHANGED <<activeGames, owner, credited, recorded, orderly, intact>>
      BY <1>8, TakeOutEffect
    <2>2. CASE /\ Moves(c, "cash", "pay") /\ status[call[c].game] = "active"
               /\ Becomes(call[c].game, "cashed_out")
      <3>1. \A h \in Games :
              /\ status'[h] = "none" <=> status[h] = "none"
              /\ status'[h] = "active" => status[h] = "active"
              /\ h # call[c].game => status'[h] = status[h]
        BY <2>2 DEF Moves, Becomes
      <3>2. owner[call[c].game] = call[c].user
        BY <2>2 DEF Moves, CallInv
      <3>3. ASSUME NEW u \in orderly
            PROVE  OneRequest(u)' /\ OneGame(u)' /\ PaidByNow(u)' /\ RequestInv(u)'
        <4>1. OneRequest(u)'
          BY <2>1, <2>2 DEF Moves, OrderInv, OneRequest
        <4>2. OneGame(u)' /\ PaidByNow(u)'
          <5>1. OneGame(u) /\ PaidByNow(u)
            BY DEF OrderInv
          <5>2. \A d \in Calls : call'[d].user = call[d].user /\ call'[d].game = call[d].game
            BY <2>2 DEF Moves
          <5>3. \A g \in intact : g \in Games
            BY DEF TypeOK
          <5>4. OneGame(u)'
            BY <2>1, <3>1, <5>1, <5>2, <5>3 DEF OneGame
          <5> QED
            BY <2>1, <3>1, <5>1, <5>4 DEF PaidByNow, Fresh
        <4>3. ASSUME NEW d \in Calls, call'[d].user = u
              PROVE  /\ call'[d].at \in {"flip", "cash"} => status'[call'[d].game] = "active"
                     /\ call'[d].at \in {"look", "drop", "credit", "pay"} => credited'[call'[d].game] = 0 /\ recorded'[call'[d].game] = 0
                     /\ call'[d].at \in {"clear", "report"} => recorded'[call'[d].game] = 0
          <5>1. CASE d = c
            <6>1. Fresh(call[c].game)
              BY <1>0, <2>2, <3>2, <4>3, <5>1 DEF Moves, OrderInv, PaidByNow
            <6>2. call'[d].game = call[c].game /\ call'[d].at \notin {"flip", "cash", "clear", "report"}
              BY <2>2, <5>1 DEF Moves
            <6> QED
              BY <2>1, <6>1, <6>2 DEF Fresh
          <5>2. CASE d # c
            <6>1. call'[d] = call[d] /\ call[c].user # u
              BY <2>2, <4>3, <5>2 DEF Moves, OrderInv, OneRequest
            <6>2. status'[call[d].game] = status[call[d].game]
              BY <1>0, <3>1, <3>2, <4>3, <6>1
            <6>3. RequestInv(u) /\ call[d].user = u
              BY <4>3, <6>1 DEF OrderInv
            <6> QED
              BY <2>1, <6>1, <6>2, <6>3 DEF RequestInv, Fresh
          <5> QED
            BY <5>1, <5>2
        <4> QED
          BY <4>1, <4>2, <4>3 DEF RequestInv, Fresh
      <3> QED
        BY <2>1, <3>1, <3>3 DEF OrderInv, Fresh
    <2>3. CASE Returns(c, "cash") /\ UNCHANGED status
      BY <1>0, <2>1, <2>3, IdleType DEF Returns, OrderInv, OneRequest, OneGame, PaidByNow, RequestInv, Fresh
    <2> QED
      BY <1>8, <2>2, <2>3, TakeOutEffect
  <1>9. ASSUME NEW c \in Calls, Pay(c) PROVE OrderInv'
    <2>1. /\ UNCHANGED <<activeGames, owner, status, recorded, orderly>> /\ call[c].game \in Games
          /\ status[call[c].game] = "cashed_out"
      BY <1>9, PayEffect DEF Pay, TypeOK
    <2>2. CASE /\ Moves(c, "pay", "clear") /\ intact' = intact
               /\ credited' = [credited EXCEPT ![call[c].game] = @ + 1]
      <3>1. call[c].game \in Games /\ credited' \in [Games -> Nat] /\ owner[call[c].game] = call[c].user
        BY <2>1, <2>2 DEF Moves, CallInv, TypeOK
      <3>2. status[call[c].game] \notin {"none", "active"} /\ credited'[call[c].game] = credited[call[c].game] + 1
        BY <2>1, <2>2, <3>1 DEF TypeOK
      <3>3. \A h \in Games : h # call[c].game => credited'[h] = credited[h]
        BY <2>2 DEF TypeOK
      <3>4. ASSUME NEW u \in orderly
            PROVE  OneRequest(u)' /\ OneGame(u)' /\ PaidByNow(u)' /\ RequestInv(u)'
        <4>1. OneRequest(u)' /\ OneGame(u)'
          BY <2>1, <2>2 DEF Moves, OrderInv, OneRequest, OneGame
        <4>2. CASE call[c].user = u
          <5>1. Fresh(call[c].game)
            BY <2>1, <2>2, <4>2 DEF Moves, OrderInv, RequestInv
          <5>2. \A d \in Calls : call[d].user = u => d = c
            BY <4>2 DEF OrderInv, OneRequest
          <5>3. PaidByNow(u)'
            BY <2>1, <2>2, <3>2, <3>3, <5>1 DEF OrderInv, PaidByNow, Fresh, TypeOK
          <5>4. RequestInv(u)'
            BY <2>1, <2>2, <5>1, <5>2 DEF Moves, RequestInv, Fresh
          <5> QED
            BY <4>1, <5>3, <5>4
        <4>3. CASE call[c].user # u
          <5>1. PaidByNow(u)'
            BY <2>1, <2>2, <3>1, <3>3, <4>3 DEF OrderInv, PaidByNow, Fresh
          <5>2. \A d \in Calls : call[d].user = u /\ call[d].at # "idle" =>
                  call[d].game \in Games /\ call[d].game # call[c].game
            BY <3>1, <4>3 DEF TypeOK, CallInv
          <5>3. RequestInv(u)'
            BY <2>1, <2>2, <3>3, <4>3, <5>2 DEF Moves, OrderInv, RequestInv, Fresh
          <5> QED
            BY <4>1, <5>1, <5>3
        <4> QED
          BY <4>2, <4>3
      <3> QED
        BY <2>1, <2>2, <3>2, <3>3, <3>4 DEF OrderInv, Fresh
    <2>3. CASE Returns(c, "pay") /\ intact' = intact \ {call[c].game} /\ credited' = credited
      BY <1>0, <2>1, <2>3, IdleType DEF Returns, OrderInv, OneRequest, OneGame, PaidByNow, RequestInv, Fresh
    <2> QED
      BY <1>9, <2>2, <2>3, PayEffect
  <1>10. ASSUME NEW c \in Calls, Clear(c) PROVE OrderInv'
    <2>1. UNCHANGED <<owner, status, credited, recorded, orderly, intact>> /\ Moves(c, "clear", "report")
      BY <1>10, ClearEffect
    <2>2. \A v \in Users \ {call[c].user} : activeGames'[v] = activeGames[v]
      BY <1>10, <2>1, ClearEffect, ForgetEffect DEF Moves
    <2>3. status[call[c].game] # "active"
      BY <2>1 DEF Moves, CallInv, Ended
    <2>4. ASSUME NEW u \in orderly
          PROVE  OneRequest(u)' /\ OneGame(u)' /\ PaidByNow(u)' /\ RequestInv(u)'
      <3>1. OneRequest(u)' /\ PaidByNow(u)' /\ RequestInv(u)'
        BY <2>1 DEF Moves, OrderInv, OneRequest, PaidByNow, RequestInv, Fresh
      <3>2. CASE call[c].user = u
        <4>1. OneGame(u)
          BY DEF OrderInv
        <4>2. \A g \in intact : ~(owner[g] = u /\ status[g] = "active")
          BY <2>3, <3>2, <4>1 DEF OneGame
        <4> QED
          BY <2>1, <3>1, <4>2 DEF OneGame
      <3>3. CASE call[c].user # u
        <4>1. OneGame(u) /\ activeGames'[u] = activeGames[u]
          BY <1>0, <2>2, <3>3 DEF OrderInv
        <4>2. \A d \in Calls : call'[d].user = call[d].user /\ call'[d].game = call[d].game
          BY <2>1 DEF Moves
        <4> QED
          BY <2>1, <3>1, <4>1, <4>2 DEF OneGame
      <3> QED
        BY <3>1, <3>2, <3>3
    <2> QED
      BY <2>1, <2>4 DEF OrderInv, Fresh
  <1>11. ASSUME NEW c \in Calls, Report(c) PROVE OrderInv'
    <2>1. UNCHANGED <<activeGames, owner, status, credited, orderly, intact>> /\ Returns(c, "report")
      BY <1>11, ReportEffect
    <2>2. CASE status[call[c].game] = "active" /\ recorded' = recorded
      BY <1>0, <2>1, <2>2, IdleType DEF Returns, OrderInv, OneRequest, OneGame, PaidByNow, RequestInv, Fresh
    <2>3. CASE status[call[c].game] # "active" /\ recorded' = [recorded EXCEPT ![call[c].game] = @ + 1]
      <3>1. recorded'[call[c].game] = recorded[call[c].game] + 1 /\ owner[call[c].game] = call[c].user
            /\ call[c].game \in Games /\ status[call[c].game] # "none"
        BY <2>1, <2>3 DEF Returns, CallInv, TypeOK
      <3>2. \A h \in Games : h # call[c].game => recorded'[h] = recorded[h]
        BY <2>3 DEF TypeOK
      <3>3. ASSUME NEW u \in orderly
            PROVE  OneRequest(u)' /\ OneGame(u)' /\ PaidByNow(u)' /\ RequestInv(u)'
        <4>1. u \in Users /\ u # Nobody
          BY SessionsAssumption DEF TypeOK
        <4>2. OneRequest(u)' /\ OneGame(u)'
          BY <2>1, <4>1, IdleType DEF Returns, OrderInv, OneRequest, OneGame
        <4>3. CASE call[c].user = u
          <5>1. recorded[call[c].game] = 0
            BY <2>1, <4>3 DEF Returns, OrderInv, RequestInv
          <5>2. \A d \in Calls : call'[d].user # u
            BY <2>1, <4>1, <4>3, IdleType DEF Returns, OrderInv, OneRequest
          <5>3. PaidByNow(u)'
            BY <2>1, <2>3, <3>1, <3>2, <5>1 DEF OrderInv, PaidByNow, Fresh, TypeOK
          <5> QED
            BY <4>2, <5>2, <5>3 DEF RequestInv
        <4>4. CASE call[c].user # u
          <5>1. PaidByNow(u)'
            BY <2>1, <3>1, <3>2, <4>4 DEF OrderInv, PaidByNow, Fresh
          <5>2. \A d \in Calls : call[d].user = u /\ call[d].at # "idle" =>
                  call[d].game \in Games /\ call[d].game # call[c].game
            BY <3>1, <4>4 DEF TypeOK, CallInv
          <5>3. RequestInv(u)'
            BY <2>1, <3>2, <4>1, <4>4, <5>2, IdleType DEF Returns, OrderInv, RequestInv, Fresh
          <5> QED
            BY <4>2, <5>1, <5>3
        <4> QED
          BY <4>3, <4>4
      <3> QED
        BY <2>1, <3>1, <3>2, <3>3 DEF OrderInv, Fresh
    <2> QED
      BY <1>11, <2>2, <2>3, ReportEffect
  <1>12. ASSUME NEW u \in Users, Expire(u) PROVE OrderInv'
    <2>1. UNCHANGED <<owner, status, call, credited, recorded, orderly>> /\ intact' = intact \ {activeGames[u]}
      BY <1>12 DEF Expire, gameVars, ghostVars
    <2>2. \A v \in Users : v # u => activeGames'[v] = activeGames[v]
      BY <1>12, ForgetEffect DEF Expire
    <2> QED
      BY <2>1, <2>2 DEF OrderInv, OneRequest, OneGame, PaidByNow, RequestInv, Fresh, TypeOK
  <1>13. ASSUME Crash PROVE OrderInv'
    <2>1. UNCHANGED <<owner, status, credited, recorded, orderly>>
      BY <1>13 DEF Crash, gameVars, ghostVars
    <2>2. \A g \in intact' : status[g] # "active"
      BY <1>13 DEF Crash, TypeOK
    <2>3. \A u \in orderly, c \in Calls : call'[c].user # u
      BY <1>13, IdleType, SessionsAssumption DEF Crash, TypeOK
    <2> QED
      BY <2>1, <2>2, <2>3 DEF OrderInv, OneRequest, OneGame, PaidByNow, RequestInv, Fresh
  <1>14. CASE UNCHANGED vars
    BY <1>14 DEF vars, gameVars, ghostVars, OrderInv, OneRequest, OneGame, PaidByNow, RequestInv, Fresh
  <1> QED
    BY <1>1, <1>2, <1>3, <1>4, <1>5, <1>6, <1>7, <1>8, <1>9, <1>10, <1>11, <1>12, <1>13, <1>14 DEF Next, FlipStep, CashOutStep

LEMMA OrderInvariant == Spec => []OrderInv
<1>1. Init => OrderInv
  BY SessionsAssumption, IdleType DEF Init, OrderInv, OneRequest, OneGame, PaidByNow, RequestInv, Fresh
<1>2. SessionsInv => TypeOK /\ CallInv
  BY DEF SessionsInv
<1> QED
  BY <1>1, <1>2, OrderStep, SessionsInvariant, PTL DEF Spec

\* A user who makes one request at a time is paid, and gets a game into his history,
\* once.
THEOREM PaidOnceHolds == Spec => []PaidOnce
<1>1. OrderInv => PaidOnce
  BY DEF OrderInv, PaidByNow, PaidOnce
<1> QED
  BY <1>1, OrderInvariant, PTL

\* A user who makes one request at a time finds the game he has staked on until it ends.
THEOREM GameIsFoundHolds == Spec => []GameIsFound
<1>1. OrderInv => GameIsFound
  BY DEF OrderInv, OneGame, GameIsFound
<1> QED
  BY <1>1, OrderInvariant, PTL

=============================================================================
