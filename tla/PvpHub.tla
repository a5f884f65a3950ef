------------------------------- MODULE PvpHub -------------------------------
(***************************************************************************)
(* PvP matchmaking, the life of a room and the money the players staked:   *)
(* internal/http/handlers/ws.go, internal/ws/{client,hub,room}.go.         *)
(*                                                                         *)
(* Four kinds of goroutine interleave.  A connection reserves its bet, is  *)
(* assigned to a room under Hub.mu, registers with it and later drops.     *)
(* The setup goroutine of a room cancels the game when nobody came.  The   *)
(* Run loop of a room takes registrations and disconnections one by one    *)
(* and pays when the game is over.  A janitor drops stale waiting slots.   *)
(* The rounds themselves are the business of RoomRounds: here a game whose *)
(* setup is complete may end, at some point, with some result.             *)
(***************************************************************************)
EXTENDS Integers, Sequences, FiniteSets, Functions

CONSTANTS Users,         \* the players
          NoUser,        \* players[1] = 0: nobody sits there
          Conns,         \* the WebSocket requests that may be made
          NoConn,        \* a nil *Client, a missing map entry
          Keys,          \* WaitingKey: game type and bet (and currency)
          UserOf,        \* the user who makes each request
          KeyOf,         \* the game and the bet each request asks for
          StartBalance,  \* what every user owns at the start
          MaxRequests,   \* bound: how many of the requests are made in one run
          DbMayFail      \* may a credit be lost (the code only logs it)?

\* Results that name no player.
Draw == "draw"
Undecided == "undecided"   \* CheckResult has not been reached, or returned nil
Results == Users \cup {NoUser, Draw}

ASSUME HubAssumption ==
  /\ {NoUser, Draw, Undecided} \cap Users = {}
  /\ NoConn \notin Conns
  /\ Keys \subseteq [game : {"rps", "mines"}, bet : Nat]
  /\ UserOf \in [Conns -> Users]
  /\ KeyOf \in [Conns -> Keys]
  /\ StartBalance \in Nat
  /\ MaxRequests \in Nat
  /\ DbMayFail \in BOOLEAN

\* Capacity of Room.Register and of Room.Disconnect.
ChanCap == 2

(***************************************************************************)
(* A room is named by the connection that created it: roomSeq makes every  *)
(* id fresh, and a connection creates at most one room.  players[0], the   *)
(* game type and the bet of a room are those of that connection.           *)
(***************************************************************************)
Rooms == Conns
Bet(r) == KeyOf[r].bet
First(r) == UserOf[r]

\* The goroutines of a room that call cleanup.
Cleaners == {"setup", "run"}

VARIABLES
  balance,        \* users.gems (or coins), per user
  rooms,          \* domain of Hub.Rooms
  userRoom,       \* Hub.UserRoom
  waitingByKey,   \* Hub.WaitingByKey
  pc,             \* how far the goroutine of each connection has come
  room,           \* the room AssignClient found for the connection
  gone,           \* has readPump returned?
  second,         \* players[1] of each room
  clients,        \* Room.Clients, per room and user
  leaving,        \* whom the cleanup under way in a goroutine has found in the room
  registerQ,      \* Room.Register
  disconnectQ,    \* Room.Disconnect
  setupTimer,     \* the setup goroutine of Room.Run
  setupCompleted, \* Room.setupCompleted
  announced,      \* the result checkRound has broadcast
  verdict,        \* what CheckResult would return now
  run,            \* the loop of Room.Run
  betPaid,        \* Room.betPaid
  paid            \* what the room has credited to each user

hubVars == <<rooms, userRoom, waitingByKey>>
connVars == <<pc, room, gone>>
seatVars == <<second, clients, leaving>>
gameVars == <<setupCompleted, announced, verdict>>
chanVars == <<registerQ, disconnectQ>>
moneyVars == <<balance, betPaid, paid>>
vars == <<hubVars, connVars, seatVars, gameVars, chanVars, setupTimer, run, moneyVars>>

Nobody == [u \in Users |-> NoConn]
Nothing == [u \in Users |-> 0]

TypeOK ==
  /\ balance \in [Users -> Nat]
  /\ rooms \subseteq Rooms
  /\ userRoom \in [Users -> Rooms \cup {NoConn}]
  /\ waitingByKey \in [Keys -> Conns \cup {NoConn}]
  /\ pc \in [Conns -> {"new", "rejected", "reserved", "unupgraded",
                       "registering", "live", "dropped"}]
  /\ room \in [Conns -> Rooms \cup {NoConn}]
  /\ gone \in [Conns -> BOOLEAN]
  /\ second \in [Rooms -> Users \cup {NoUser}]
  /\ clients \in [Rooms -> [Users -> Conns \cup {NoConn}]]
  /\ leaving \in [Rooms -> [Cleaners -> SUBSET Users]]
  /\ registerQ \in [Rooms -> Seq(Conns)]
  /\ disconnectQ \in [Rooms -> Seq(Conns)]
  /\ setupTimer \in [Rooms -> {"none", "armed", "cancelling", "cleaning", "forgetting",
                               "done"}]
  /\ setupCompleted \in [Rooms -> BOOLEAN]
  /\ announced \in [Rooms -> Results \cup {Undecided}]
  /\ verdict \in [Rooms -> Results \cup {Undecided}]
  /\ run \in [Rooms -> {"none", "top", "select", "cleaning", "forgetting", "exited"}]
  /\ betPaid \in [Rooms -> BOOLEAN]
  /\ paid \in [Rooms -> [Users -> Nat]]

Init ==
  /\ balance = [u \in Users |-> StartBalance]
  /\ rooms = {}
  /\ userRoom = [u \in Users |-> NoConn]
  /\ waitingByKey = [k \in Keys |-> NoConn]
  /\ pc = [c \in Conns |-> "new"]
  /\ room = [c \in Conns |-> NoConn]
  /\ gone = [c \in Conns |-> FALSE]
  /\ second = [r \in Rooms |-> NoUser]
  /\ clients = [r \in Rooms |-> Nobody]
  /\ leaving = [r \in Rooms |-> [g \in Cleaners |-> {}]]
  /\ registerQ = [r \in Rooms |-> <<>>]
  /\ disconnectQ = [r \in Rooms |-> <<>>]
  /\ setupTimer = [r \in Rooms |-> "none"]
  /\ setupCompleted = [r \in Rooms |-> FALSE]
  /\ announced = [r \in Rooms |-> Undecided]
  /\ verdict = [r \in Rooms |-> Undecided]
  /\ run = [r \in Rooms |-> "none"]
  /\ betPaid = [r \in Rooms |-> FALSE]
  /\ paid = [r \in Rooms |-> Nothing]

-----------------------------------------------------------------------------
(* Money.  betPaid is tested and set under Room.mu; the credits follow.    *)

\* Mutant of Unsettled: betPaid is not looked at.
UnsettledTwice(r) == Bet(r) > 0

Unsettled(r) == Bet(r) > 0 /\ ~betPaid[r]

\* Mutant of Refund: the stake goes to every user the loop finds.
RefundAll(r, u) == [v \in Users |-> Bet(r)]

Refund(r, u) == [v \in Users |-> IF v = u THEN Bet(r) ELSE 0]

\* payoutWinner: the pot to the winner, or each his stake after a draw.  A
\* credit to players[1] = 0 finds no row and is lost.
Payout(r, result) ==
  [v \in Users |->
     IF result = Draw
     THEN IF v = First(r) /\ v = second[r] THEN 2 * Bet(r)
          ELSE IF v \in {First(r), second[r]} THEN Bet(r) ELSE 0
     ELSE IF v = result THEN 2 * Bet(r) ELSE 0]

\* Mutant of Settle: the amounts are taken instead of given.
SettleDebits(r, amount) ==
  /\ betPaid' = [betPaid EXCEPT ![r] = TRUE]
  /\ paid' = [paid EXCEPT ![r] = [u \in Users |-> @[u] + amount[u]]]
  /\ balance' = [u \in Users |-> balance[u] - amount[u]]

\* The credits of one settlement; when the database fails some do not land.
Settle(r, amount) ==
  \E landed \in IF DbMayFail THEN SUBSET {u \in Users : amount[u] > 0} ELSE {Users} :
    LET credit == [u \in Users |-> IF u \in landed THEN amount[u] ELSE 0]
    IN  /\ betPaid' = [betPaid EXCEPT ![r] = TRUE]
        /\ paid' = [paid EXCEPT ![r] = [u \in Users |-> @[u] + credit[u]]]
        /\ balance' = [u \in Users |-> balance[u] + credit[u]]

-----------------------------------------------------------------------------
(* A connection.                                                           *)

\* Handler.WS: the conditional UPDATE takes the bet or the request is refused.
Reserve(c) ==
  /\ pc[c] = "new"
  /\ Cardinality({d \in Conns : pc[d] # "new"}) < MaxRequests
  /\ \/ /\ balance[UserOf[c]] >= Bet(c)
        /\ balance' = [balance EXCEPT ![UserOf[c]] = @ - Bet(c)]
        /\ pc' = [pc EXCEPT ![c] = "reserved"]
     \/ /\ balance[UserOf[c]] < Bet(c)
        /\ pc' = [pc EXCEPT ![c] = "rejected"]
        /\ UNCHANGED balance
  /\ UNCHANGED <<hubVars, room, gone, seatVars, gameVars, chanVars, setupTimer,
                 run, betPaid, paid>>

\* Handler.WS: the upgrade fails and the bet goes back.
UpgradeFails(c) ==
  /\ pc[c] = "reserved"
  /\ pc' = [pc EXCEPT ![c] = "unupgraded"]
  /\ balance' = [balance EXCEPT ![UserOf[c]] = @ + Bet(c)]
  /\ UNCHANGED <<hubVars, room, gone, seatVars, gameVars, chanVars, setupTimer,
                 run, betPaid, paid>>

\* The waiting slots without those of user u.
SlotsWithout(u) ==
  [k \in Keys |-> IF waitingByKey[k] # NoConn /\ UserOf[waitingByKey[k]] = u
                  THEN NoConn ELSE waitingByKey[k]]

\* Mutant of SlotsSeenBy: whoever waits for the same game will do, whatever his
\* bet, as in the map by game that the map by key replaced.
SlotsSeenByGame(c) ==
  [k \in Keys |->
     LET alike == {j \in Keys : j.game = k.game /\ waitingByKey[j] # NoConn}
     IN  IF alike = {} THEN NoConn ELSE waitingByKey[CHOOSE j \in alike : TRUE]]

\* AssignClient first forgets the previous room of the user, if it knows one,
\* and only then his waiting slots.
SlotsSeenBy(c) ==
  IF userRoom[UserOf[c]] # NoConn THEN SlotsWithout(UserOf[c]) ELSE waitingByKey

\* Mutant of Undrained: the ping is not tried, everybody counts as dead.
UndrainedAlways(w) == TRUE

\* Is the Send buffer of w still drained?  readPump closes the socket, which
\* ends writePump: from then on the buffer may be full (or not yet).
Undrained(w) == gone[w] \/ pc[w] = "dropped"

SetSecondPlayer(r, u) == second' = [second EXCEPT ![r] = u]

\* The waiting client w can be joined by c: another user, whose room is still
\* known and still lists him.
Joinable(c, w) ==
  /\ w # NoConn
  /\ UserOf[w] # UserOf[c]
  /\ userRoom[UserOf[w]] \in rooms
  /\ clients[userRoom[UserOf[w]]][UserOf[w]] # NoConn

\* AssignClient, first half (under Hub.mu): sit down opposite the waiting client.
\* At an RPS table that has just been decided without him, CheckResult finds no
\* move of the newcomer when saveResult asks again, and calls him the winner.
JoinRoom(c) ==
  LET w == SlotsSeenBy(c)[KeyOf[c]]
      r == userRoom[UserOf[w]]
      u == UserOf[c]
  IN  /\ pc[c] = "reserved"
      /\ Joinable(c, w)
      /\ SetSecondPlayer(r, u)
      /\ clients' = [clients EXCEPT ![r][u] = c]
      /\ userRoom' = [userRoom EXCEPT ![u] = r]
      /\ waitingByKey' = [SlotsSeenBy(c) EXCEPT ![KeyOf[c]] = NoConn]
      /\ room' = [room EXCEPT ![c] = r]
      /\ pc' = [pc EXCEPT ![c] = "registering"]
      /\ verdict' = IF announced[r] # Undecided /\ KeyOf[r].game = "rps"
                    THEN [verdict EXCEPT ![r] = u] ELSE verdict
      /\ UNCHANGED <<rooms, gone, leaving, setupCompleted, announced, chanVars,
                     setupTimer, run, moneyVars>>

\* AssignClient, first half: nobody can be joined (or his Send buffer is full),
\* so open a room, start its Run and wait in the slot of the key.
CreateRoom(c) ==
  LET w == SlotsSeenBy(c)[KeyOf[c]]
      u == UserOf[c]
  IN  /\ pc[c] = "reserved"
      /\ Joinable(c, w) => Undrained(w)
      /\ rooms' = rooms \cup {c}
      /\ clients' = [clients EXCEPT ![c][u] = c]
      /\ userRoom' = [userRoom EXCEPT ![u] = c]
      /\ waitingByKey' = [SlotsSeenBy(c) EXCEPT ![KeyOf[c]] = c]
      /\ room' = [room EXCEPT ![c] = c]
      /\ pc' = [pc EXCEPT ![c] = "registering"]
      /\ setupTimer' = [setupTimer EXCEPT ![c] = "armed"]
      /\ run' = [run EXCEPT ![c] = "select"]
      /\ UNCHANGED <<gone, second, leaving, gameVars, chanVars, moneyVars>>

\* AssignClient, second half (no lock): hand the client to the room.  When the
\* channel stays full for five seconds the connection is closed, bet and all.
SendRegister(c) ==
  LET r == room[c]
  IN  /\ pc[c] = "registering"
      /\ IF Len(registerQ[r]) < ChanCap
         THEN /\ registerQ' = [registerQ EXCEPT ![r] = Append(@, c)]
              /\ pc' = [pc EXCEPT ![c] = "live"]
         ELSE /\ pc' = [pc EXCEPT ![c] = "dropped"]
              /\ UNCHANGED registerQ
      /\ UNCHANGED <<hubVars, room, gone, seatVars, gameVars, disconnectQ,
                     setupTimer, run, moneyVars>>

\* readPump fails before c.Room is set: disconnect() tells nobody.
VanishEarly(c) ==
  /\ pc[c] = "registering"
  /\ ~gone[c]
  /\ gone' = [gone EXCEPT ![c] = TRUE]
  /\ UNCHANGED <<hubVars, pc, room, seatVars, gameVars, chanVars, setupTimer,
                 run, moneyVars>>

\* readPump fails later: Hub.OnDisconnect goes by the user, not the connection.
Disconnect(c) ==
  LET u == UserOf[c]
      r == userRoom[u]
  IN  /\ pc[c] = "live"
      /\ ~gone[c]
      /\ gone' = [gone EXCEPT ![c] = TRUE]
      /\ waitingByKey' = SlotsWithout(u)
      /\ disconnectQ' = IF r \in rooms /\ Len(disconnectQ[r]) < ChanCap
                        THEN [disconnectQ EXCEPT ![r] = Append(@, c)]
                        ELSE disconnectQ
      /\ UNCHANGED <<rooms, userRoom, pc, room, seatVars, gameVars, registerQ,
                     setupTimer, run, moneyVars>>
-----------------------------------------------------------------------------
(* The game of a room.                                                     *)

\* IsSetupComplete can become true: always for RPS; for Mines once two players
\* have placed their mines.
CanCompleteSetup(r) == KeyOf[r].game = "rps" \/ second[r] # NoUser

\* HandleMessage closes setupDone, which ends a setup goroutine that still
\* waits for its timer.
StopSetup(r) ==
  setupTimer' = [setupTimer EXCEPT ![r] = IF @ = "armed" THEN "done" ELSE @]

\* HandleMessage: a move that completes the setup starts the rounds at once,
\* whether or not an opponent has come.  (Once the Run loop is over and the timer
\* spent, nothing reads the flag any more.)
CompleteSetup(c) ==
  LET r == room[c]
  IN  /\ pc[c] = "live"
      /\ ~gone[c]
      /\ run[r] \in {"top", "select"} \/ setupTimer[r] = "armed"
      /\ ~setupCompleted[r]
      /\ CanCompleteSetup(r)
      /\ setupCompleted' = [setupCompleted EXCEPT ![r] = TRUE]
      /\ StopSetup(r)
      /\ UNCHANGED <<hubVars, connVars, seatVars, announced, verdict, chanVars,
                     run, moneyVars>>

\* checkRound: the rounds end with a result.  Bots move for whoever is late, so
\* this needs no message; and players[1] = 0 gets a bot move like anyone else.
FinishGame(r) ==
  /\ run[r] \in {"top", "select"}
  /\ setupCompleted[r]
  /\ announced[r] = Undecided
  /\ \E result \in {First(r), second[r], Draw} :
        /\ announced' = [announced EXCEPT ![r] = result]
        /\ verdict' = [verdict EXCEPT ![r] = result]
  /\ UNCHANGED <<hubVars, connVars, seatVars, setupCompleted, chanVars,
                 setupTimer, run, moneyVars>>

\* What CheckResult may return after a move of c that comes when the game has been
\* decided: it decides again, or clears the moves and returns nil.  Mines lets a
\* player replace his move.  RPS refuses a second one, but whoever sat down after
\* the decision has not moved; and after a nil the table is open to both.
Rejudged(r, c) ==
  IF /\ announced[r] # Undecided
     /\ \/ KeyOf[r].game = "mines"
        \/ verdict[r] = Undecided
        \/ verdict[r] # announced[r] /\ verdict[r] = UserOf[c]
  THEN {First(r), second[r], Draw, Undecided} ELSE {}

OverwriteMove(c) ==
  LET r == room[c]
  IN  /\ pc[c] = "live"
      /\ ~gone[c]
      /\ run[r] \in {"top", "select"}
      /\ \E result \in Rejudged(r, c) : verdict' = [verdict EXCEPT ![r] = result]
      /\ UNCHANGED <<hubVars, connVars, seatVars, setupCompleted, announced,
                     chanVars, setupTimer, run, moneyVars>>
-----------------------------------------------------------------------------
(* A room.                                                                 *)

\* cleanup, under Room.mu: goroutine g notes who is in the room.
CollectClients(r, g) ==
  LET here == {u \in Users : u = First(r) \/ u = second[r] \/ clients[r][u] # NoConn}
  IN  /\ leaving' = [leaving EXCEPT ![r][g] = here]
      /\ UNCHANGED <<hubVars, second, clients>>

\* cleanup, under Hub.mu: the room and whoever was noted leave the hub.  UserRoom is
\* cleared whatever room it names by now; WaitingByKey is left alone.
Cleanup(r, g) ==
  /\ rooms' = rooms \ {r}
  /\ userRoom' = [u \in Users |-> IF u \in leaving[r][g] THEN NoConn ELSE userRoom[u]]
  /\ leaving' = [leaving EXCEPT ![r][g] = {}]
  /\ UNCHANGED <<waitingByKey, second, clients>>

\* Mutant of SetupTimeout: without an opponent the timer just ends.
SetupTimeoutNoCancel(r) ==
  /\ setupTimer[r] = "armed"
  /\ setupTimer' = [setupTimer EXCEPT ![r] = "done"]
  /\ setupCompleted' = [setupCompleted EXCEPT ![r] = @ \/ second[r] # NoUser]
  /\ UNCHANGED <<hubVars, connVars, seatVars, announced, verdict, chanVars, run,
                 moneyVars>>

\* The setup timer of ten seconds fires: without an opponent the game is to be
\* cancelled, otherwise the bots complete the setup and the rounds begin.
SetupTimeout(r) ==
  /\ setupTimer[r] = "armed"
  /\ IF second[r] = NoUser
     THEN /\ setupTimer' = [setupTimer EXCEPT ![r] = "cancelling"]
          /\ UNCHANGED setupCompleted
     ELSE /\ setupTimer' = [setupTimer EXCEPT ![r] = "done"]
          /\ setupCompleted' = [setupCompleted EXCEPT ![r] = TRUE]
  /\ UNCHANGED <<hubVars, connVars, seatVars, announced, verdict, chanVars, run,
                 moneyVars>>

\* cancelGameNoOpponent, up to the refund.
CancelNoOpponent(r) ==
  /\ setupTimer[r] = "cancelling"
  /\ setupTimer' = [setupTimer EXCEPT ![r] = "cleaning"]
  /\ IF Unsettled(r) THEN Settle(r, Refund(r, First(r))) ELSE UNCHANGED moneyVars
  /\ UNCHANGED <<hubVars, connVars, seatVars, gameVars, chanVars, run>>

\* cancelGameNoOpponent, after the refund.  The Run loop is not told.
CancelCleanup(r) ==
  /\ \/ /\ setupTimer[r] = "cleaning"
        /\ setupTimer' = [setupTimer EXCEPT ![r] = "forgetting"]
        /\ CollectClients(r, "setup")
     \/ /\ setupTimer[r] = "forgetting"
        /\ setupTimer' = [setupTimer EXCEPT ![r] = "done"]
        /\ Cleanup(r, "setup")
  /\ UNCHANGED <<connVars, gameVars, chanVars, run, moneyVars>>

\* Run looks at IsFinished before it waits: back at the top of the loop it waits
\* for the next event unless the game is over.
LoopTop(r) == IF announced[r] = Undecided THEN "select" ELSE "top"

\* The game is over, as seen at the top of the loop, at once or after a tick.
\* saveResult asks CheckResult once more; a nil answer pays nobody.
SaveResult(r) ==
  /\ run[r] \in {"top", "select"}
  /\ announced[r] # Undecided
  /\ run' = [run EXCEPT ![r] = "cleaning"]
  /\ IF verdict[r] # Undecided /\ Unsettled(r)
     THEN Settle(r, Payout(r, verdict[r]))
     ELSE UNCHANGED moneyVars
  /\ UNCHANGED <<hubVars, connVars, seatVars, gameVars, chanVars, setupTimer>>

Present(clientsOf) == {u \in Users : clientsOf[u] # NoConn}

\* handleRegister.  Moves buffered before the registration are replayed first
\* (and may complete the setup, or come after the result); two clients at an RPS
\* table start the rounds.
HandleRegister(r) ==
  LET c == Head(registerQ[r])
      now == [clients[r] EXCEPT ![UserOf[c]] = c]
  IN  /\ run[r] = "select"
      /\ registerQ[r] # <<>>
      /\ registerQ' = [registerQ EXCEPT ![r] = Tail(@)]
      /\ clients' = [clients EXCEPT ![r] = now]
      /\ \E replayed \in BOOLEAN :
           /\ replayed => CanCompleteSetup(r) /\ ~setupCompleted[r]
           /\ setupCompleted' =
                [setupCompleted EXCEPT ![r] = \/ @
                                              \/ replayed
                                              \/ /\ KeyOf[r].game = "rps"
                                                 /\ Cardinality(Present(now)) = 2]
           /\ IF replayed THEN StopSetup(r) ELSE UNCHANGED setupTimer
      /\ \E result \in {verdict[r]} \cup Rejudged(r, c) :
            verdict' = [verdict EXCEPT ![r] = result]
      /\ run' = [run EXCEPT ![r] = LoopTop(r)]
      /\ UNCHANGED <<hubVars, connVars, second, leaving, announced, disconnectQ,
                     moneyVars>>

\* handleDisconnect: with an opponent seated the one who stays takes the pot;
\* before that the one who leaves gets his stake back.
HandleDisconnect(r) ==
  LET u == UserOf[Head(disconnectQ[r])]
      left == Present(clients[r]) \ {u}
      forfeit == Unsettled(r) /\ second[r] # NoUser /\ Cardinality(left) = 1
      unstarted == Unsettled(r) /\ second[r] = NoUser
  IN  /\ run[r] = "select"
      /\ disconnectQ[r] # <<>>
      /\ disconnectQ' = [disconnectQ EXCEPT ![r] = Tail(@)]
      /\ clients' = [clients EXCEPT ![r][u] = NoConn]
      /\ IF forfeit
         THEN \E stayed \in left : Settle(r, Payout(r, stayed))
         ELSE IF unstarted THEN Settle(r, Refund(r, u)) ELSE UNCHANGED moneyVars
      /\ run' = [run EXCEPT ![r] = IF Cardinality(left) <= 1 THEN "cleaning" ELSE LoopTop(r)]
      /\ UNCHANGED <<hubVars, connVars, second, leaving, gameVars, registerQ, setupTimer>>

\* The cleanup that ends Run, after a result or after a disconnection.
RunCleanup(r) ==
  /\ \/ /\ run[r] = "cleaning"
        /\ run' = [run EXCEPT ![r] = "forgetting"]
        /\ CollectClients(r, "run")
     \/ /\ run[r] = "forgetting"
        /\ run' = [run EXCEPT ![r] = "exited"]
        /\ Cleanup(r, "run")
  /\ UNCHANGED <<connVars, gameVars, chanVars, setupTimer, moneyVars>>

-----------------------------------------------------------------------------
(* The janitor (Hub.StartCleanup).                                         *)

\* cleanupStaleWaiting, for one slot whose client no longer drains its buffer.
\* The money of the room is not looked at.
CleanupStaleWaiting(k) ==
  LET w == waitingByKey[k]
      u == UserOf[w]
      r == userRoom[u]
  IN  /\ w # NoConn
      /\ Undrained(w)
      /\ waitingByKey' = [waitingByKey EXCEPT ![k] = NoConn]
      /\ userRoom' = [userRoom EXCEPT ![u] = NoConn]
      /\ IF r \in rooms
         THEN /\ clients' = [clients EXCEPT ![r][u] = NoConn]
              /\ rooms' = IF Present(clients[r]) \subseteq {u} THEN rooms \ {r} ELSE rooms
         ELSE UNCHANGED <<clients, rooms>>
      /\ UNCHANGED <<connVars, second, leaving, gameVars, chanVars, setupTimer, run,
                     moneyVars>>

\* cleanupStaleRooms, for one room without clients (its age is not modelled).
CleanupStaleRoom(r) ==
  /\ r \in rooms
  /\ clients[r] = Nobody
  /\ rooms' = rooms \ {r}
  /\ userRoom' = [u \in Users |-> IF userRoom[u] = r THEN NoConn ELSE userRoom[u]]
  /\ UNCHANGED <<waitingByKey, connVars, seatVars, gameVars, chanVars, setupTimer,
                 run, moneyVars>>

-----------------------------------------------------------------------------
ConnStep(c) ==
  \/ Reserve(c) \/ UpgradeFails(c)
  \/ JoinRoom(c) \/ CreateRoom(c) \/ SendRegister(c)
  \/ VanishEarly(c) \/ Disconnect(c)
  \/ CompleteSetup(c) \/ OverwriteMove(c)

SetupStep(r) == SetupTimeout(r) \/ CancelNoOpponent(r) \/ CancelCleanup(r)

RunStep(r) ==
  \/ HandleRegister(r) \/ HandleDisconnect(r)
  \/ SaveResult(r) \/ RunCleanup(r)

Next ==
  \/ \E c \in Conns : ConnStep(c)
  \/ \E r \in Rooms : SetupStep(r) \/ RunStep(r) \/ FinishGame(r) \/ CleanupStaleRoom(r)
  \/ \E k \in Keys : CleanupStaleWaiting(k)

Spec == Init /\ [][Next]_vars

\* Every goroutine of a room that can run does run.  Players owe nothing, and
\* the rounds need not end: RoomRounds shows how they stop.
Fairness == \A r \in Rooms : WF_vars(SetupStep(r)) /\ WF_vars(RunStep(r))

FairSpec == Spec /\ Fairness
-----------------------------------------------------------------------------
(* Properties that hold however often a user connects.                     *)

\* Each room keeps the promise of PvpEscrow: its stakes are settled once, by the
\* setup goroutine or by the Run loop, and for no more than the pot.
Status ==
  [r \in Rooms |-> IF run[r] = "none" THEN "none"
                   ELSE IF betPaid[r] THEN "settled" ELSE "open"]

Escrow == INSTANCE PvpEscrow WITH
            Rooms <- Conns, BetOf <- [r \in Conns |-> Bet(r)],
            status <- Status, credit <- paid

EscrowSpec == Escrow!Spec

\* Whoever a room credits has put a stake into that very room: neither a stale
\* UserRoom entry nor a late Disconnect turns a stranger into a winner.
CreditsGoToStakers ==
  \A r \in Rooms, u \in Users :
     paid[r][u] > 0 => \E c \in Conns : UserOf[c] = u /\ room[c] = r

\* A room credits no more than the stakes put into it, except when it played
\* its rounds against the empty seat.
TotalPaid(r) == SumFunctionOnSet(paid[r], {u \in Users : paid[r][u] > 0})

PaidFromStakes ==
  \A r \in Rooms :
     TotalPaid(r) > Bet(r) * Cardinality({c \in Conns : room[c] = r})
       => second[r] = NoUser /\ announced[r] # Undecided

-----------------------------------------------------------------------------
(* Properties that hold while each user connects once: a second connection *)
(* of a user breaks them.                                                  *)

OneConnection == \A c, d \in Conns : UserOf[c] = UserOf[d] => c = d

\* "Players are matched by game type, bet and currency" (hub.go:14): whoever is
\* in a room asked for its game and its bet, and has a seat there.
MatchedAlike ==
  \A r \in Rooms, u \in Users :
     clients[r][u] # NoConn => /\ KeyOf[clients[r][u]] = KeyOf[r]
                               /\ u \in {First(r), second[r]}

\* A player can still forfeit: while the stakes of his room are open, the hub
\* leads from his user id to that room, so OnDisconnect reaches it.
LeaverIsSeen ==
  \A c \in Conns :
     /\ pc[c] = "live"
     /\ ~gone[c]
     /\ Unsettled(room[c])
     /\ run[room[c]] \in {"top", "select"}
     => userRoom[UserOf[c]] = room[c] /\ room[c] \in rooms

\* Whoever disappears, somebody is left to settle the open stakes of a room:
\* its setup goroutine, or its loop once the rounds are on; unless a move
\* undid the result before it was saved.
SettlerRemains ==
  \A r \in Rooms :
     run[r] # "none" /\ Unsettled(r) =>
       \/ setupTimer[r] \in {"armed", "cancelling"}
       \/ run[r] \in {"top", "select"} /\ setupCompleted[r]
       \/ announced[r] # Undecided /\ verdict[r] = Undecided

\* The rounds of r are being played.
UnderWay(r) ==
  setupCompleted[r] /\ announced[r] = Undecided /\ run[r] \in {"top", "select"}

\* The stakes of a room do not stay open for ever, whoever disappears and when,
\* except while its rounds last and unless a move undid the result before it was
\* saved.
StakesAreSettled ==
  \A r \in Rooms :
     []<>(\/ run[r] = "none" \/ ~Unsettled(r) \/ UnderWay(r)
          \/ announced[r] # Undecided /\ verdict[r] = Undecided)

-----------------------------------------------------------------------------
(* What the comments of the code say, and the code does not do.            *)

\* "Both players' stakes go to the winner" (room.go:16): when the stakes are
\* settled after a result was announced, the announced winner gets the pot.
PotGoesToWinner ==
  [][\A r \in Rooms :
       betPaid'[r] # betPaid[r] /\ announced[r] \in Users
         => paid'[r][announced[r]] = 2 * Bet(r)]_vars
=============================================================================
