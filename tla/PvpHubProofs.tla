---------------------------- MODULE PvpHubProofs ----------------------------
(***************************************************************************)
(* What PvpHub promises for any number of users, connections and bets.     *)
(* However often a user connects: its typing, that a room credits only     *)
(* users who staked in it and pays from its stakes, and that every room    *)
(* implements PvpEscrow.  While each user connects once: who shares a room *)
(* has asked for the same and can be seen to leave it, and somebody is     *)
(* left to settle its stakes.                                              *)
(***************************************************************************)
EXTENDS PvpHub, FiniteSetTheorems, WellFoundedInduction, TLAPS

\* User u has put a stake into room r: one of his connections is assigned to it.
Staker(assigned, r, u) == \E c \in Conns : UserOf[c] = u /\ assigned[c] = r

\* A room is unpaid until betPaid is set, and betPaid is set in running rooms only.
MoneyInv ==
  \A r \in Rooms :
     /\ ~betPaid[r] => paid[r] = Nothing
     /\ run[r] = "none" => ~betPaid[r] /\ setupTimer[r] = "none"

\* A connection is assigned once, and the first player of a room is in it.
AssignInv ==
  /\ \A c \in Conns : pc[c] \in {"new", "reserved"} => room[c] = NoConn
  /\ \A r \in Rooms : run[r] # "none" => room[r] = r

\* Whoever the state of a room can pay is one of its stakers: seats, results,
\* the clients, the map of the hub and both channels.
SeatInv ==
  /\ \A r \in Rooms : second[r] \in Users => Staker(room, r, second[r])
  /\ \A r \in Rooms : verdict[r] \in Users => Staker(room, r, verdict[r])
  /\ \A r \in Rooms, u \in Users : clients[r][u] # NoConn => Staker(room, r, u)
  /\ \A u \in Users : userRoom[u] # NoConn => Staker(room, userRoom[u], u)
  /\ \A r \in Rooms : \A i \in 1 .. Len(registerQ[r]) : room[registerQ[r][i]] = r
  /\ \A r \in Rooms : \A i \in 1 .. Len(disconnectQ[r]) : Staker(room, r, UserOf[disconnectQ[r][i]])

HubInv == TypeOK /\ MoneyInv /\ AssignInv /\ SeatInv /\ CreditsGoToStakers
-----------------------------------------------------------------------------
(* Lemmas about the operators of the model.                                *)

\* The bet of a room is a number and its first player a user.
LEMMA BetType == \A r \in Rooms : Bet(r) \in Nat /\ First(r) \in Users
  BY HubAssumption DEF Bet, First, Rooms

\* An update of one entry keeps the type of a function, and of a table.
LEMMA UpdateType ==
  ASSUME NEW S, NEW T, NEW f \in [S -> T], NEW x, NEW y \in T
  PROVE  [f EXCEPT ![x] = y] \in [S -> T]
  OBVIOUS

\* The same for one cell of a table.
LEMMA UpdateTableType ==
  ASSUME NEW R, NEW S, NEW T, NEW f \in [R -> [S -> T]], NEW r, NEW x, NEW y \in T
  PROVE  [f EXCEPT ![r][x] = y] \in [R -> [S -> T]]
  OBVIOUS

\* A table with one new cell holds the new value there and the old ones elsewhere.
LEMMA UpdateTableValue ==
  ASSUME NEW R, NEW S, NEW T, NEW f \in [R -> [S -> T]], NEW r, NEW x, NEW y
  PROVE  \A q \in R, z \in S : [f EXCEPT ![r][x] = y][q][z] \in {f[q][z], y}
  OBVIOUS

\* What payoutWinner and refundBet hand out are amounts per user.
LEMMA AmountType ==
  ASSUME TypeOK, NEW r \in Rooms
  PROVE  /\ \A u : Refund(r, u) \in [Users -> Nat]
         /\ \A result : Payout(r, result) \in [Users -> Nat]
  BY BetType DEF Refund, Payout

\* A settlement closes the stakes and credits, to some users, their amounts.
LEMMA SettleEffect ==
  ASSUME NEW r, NEW amount, Settle(r, amount)
  PROVE  \E landed :
          /\ betPaid' = [betPaid EXCEPT ![r] = TRUE]
          /\ paid' = [paid EXCEPT ![r] =
                        [u \in Users |-> @[u] + (IF u \in landed THEN amount[u] ELSE 0)]]
          /\ balance' = [u \in Users |-> balance[u] + (IF u \in landed THEN amount[u] ELSE 0)]
  <1>1. PICK landed \in IF DbMayFail THEN SUBSET Users ELSE {Users} :
          LET credit == [u \in Users |-> IF u \in landed THEN amount[u] ELSE 0]
          IN  /\ betPaid' = [betPaid EXCEPT ![r] = TRUE]
              /\ paid' = [paid EXCEPT ![r] = [u \in Users |-> @[u] + credit[u]]]
              /\ balance' = [u \in Users |-> balance[u] + credit[u]]
    BY DEF Settle
  <1> DEFINE credit == [u \in Users |-> IF u \in landed THEN amount[u] ELSE 0]
  <1>2. \A u \in Users : credit[u] = IF u \in landed THEN amount[u] ELSE 0
    OBVIOUS
  <1>3. /\ betPaid' = [betPaid EXCEPT ![r] = TRUE]
        /\ paid' = [paid EXCEPT ![r] = [u \in Users |-> @[u] + credit[u]]]
        /\ balance' = [u \in Users |-> balance[u] + credit[u]]
    BY <1>1
  <1> QED
    BY <1>2, <1>3

\* A settlement keeps the accounts well-formed.
LEMMA SettleType ==
  ASSUME TypeOK, NEW r \in Rooms, NEW amount \in [Users -> Nat], Settle(r, amount)
  PROVE  /\ balance' \in [Users -> Nat]
         /\ betPaid' \in [Rooms -> BOOLEAN]
         /\ paid' \in [Rooms -> [Users -> Nat]]
  <1>1. PICK landed :
          /\ betPaid' = [betPaid EXCEPT ![r] = TRUE]
          /\ paid' = [paid EXCEPT ![r] =
                        [u \in Users |-> @[u] + (IF u \in landed THEN amount[u] ELSE 0)]]
          /\ balance' = [u \in Users |-> balance[u] + (IF u \in landed THEN amount[u] ELSE 0)]
    BY SettleEffect
  <1>2. [u \in Users |-> paid[r][u] + (IF u \in landed THEN amount[u] ELSE 0)] \in [Users -> Nat]
    BY DEF TypeOK
  <1> QED
    BY <1>1, <1>2 DEF TypeOK

\* Both halves of a cleanup keep the hub and the lists of the cleanups well-formed.
LEMMA CleanupType ==
  ASSUME TypeOK, NEW r \in Rooms, NEW g \in Cleaners, CollectClients(r, g) \/ Cleanup(r, g)
  PROVE  /\ rooms' \subseteq Rooms
         /\ userRoom' \in [Users -> Rooms \cup {NoConn}]
         /\ leaving' \in [Rooms -> [Cleaners -> SUBSET Users]]
         /\ UNCHANGED <<waitingByKey, second, clients>>
  <1>1. CASE CollectClients(r, g)
    BY <1>1 DEF CollectClients, TypeOK, hubVars
  <1>2. CASE Cleanup(r, g)
    BY <1>2 DEF Cleanup, TypeOK
  <1> QED
    BY <1>1, <1>2

\* Forgetting the slots of a user leaves slots.
LEMMA SlotsType ==
  ASSUME TypeOK
  PROVE  /\ \A u : SlotsWithout(u) \in [Keys -> Conns \cup {NoConn}]
         /\ \A c : SlotsSeenBy(c) \in [Keys -> Conns \cup {NoConn}]
  BY DEF TypeOK, SlotsWithout, SlotsSeenBy
-----------------------------------------------------------------------------
(* Typing.                                                                 *)

\* Every variable keeps its type, however the goroutines interleave.
THEOREM TypeCorrect == Spec => []TypeOK
<1>1. Init => TypeOK
  BY HubAssumption, BetType DEF Init, TypeOK, Nobody, Nothing, Rooms
<1>2. TypeOK /\ [Next]_vars => TypeOK'
  <2> SUFFICES ASSUME TypeOK, [Next]_vars PROVE TypeOK'
    OBVIOUS
  <2> USE HubAssumption, BetType DEF TypeOK, Rooms
  <2>1. ASSUME NEW c \in Conns, Reserve(c) PROVE TypeOK'
    <3>1. balance' \in [Users -> Nat]
      <4>1. UserOf[c] \in Users /\ Bet(c) \in Nat /\ balance[UserOf[c]] \in Nat
        OBVIOUS
      <4>2. \/ balance' = balance
            \/ /\ balance[UserOf[c]] - Bet(c) \in Nat
               /\ balance' = [balance EXCEPT ![UserOf[c]] = balance[UserOf[c]] - Bet(c)]
        BY <4>1, <2>1 DEF Reserve
      <4> QED
        BY <4>1, <4>2
    <3>2. pc' \in [Conns -> {"new", "rejected", "reserved", "unupgraded",
                               "registering", "live", "dropped"}]
      BY <2>1 DEF Reserve
    <3> QED
      BY <3>1, <3>2, <2>1 DEF Reserve, hubVars, connVars, seatVars, gameVars, chanVars, moneyVars
  <2>2. ASSUME NEW c \in Conns, UpgradeFails(c) PROVE TypeOK'
    BY <2>2 DEF UpgradeFails, hubVars, connVars, seatVars, gameVars, chanVars, moneyVars
  <2>3. ASSUME NEW c \in Conns, JoinRoom(c) PROVE TypeOK'
    <3> DEFINE w == SlotsSeenBy(c)[KeyOf[c]]
               r == userRoom[UserOf[w]]
    <3>1. r \in Rooms
      BY <2>3 DEF JoinRoom, Joinable
    <3>2. waitingByKey' \in [Keys -> Conns \cup {NoConn}]
      BY <2>3, SlotsType DEF JoinRoom
    <3>3. second' \in [Rooms -> Users \cup {NoUser}]
      BY <2>3 DEF JoinRoom, SetSecondPlayer
    <3>4. clients' \in [Rooms -> [Users -> Conns \cup {NoConn}]]
      BY <3>1, <2>3 DEF JoinRoom
    <3>5. verdict' \in [Rooms -> Results \cup {Undecided}]
      BY <2>3 DEF JoinRoom, Results
    <3>6. /\ userRoom' \in [Users -> Rooms \cup {NoConn}]
          /\ room' \in [Conns -> Rooms \cup {NoConn}]
      BY <3>1, <2>3 DEF JoinRoom
    <3> HIDE DEF r, w
    <3> QED
      BY <3>2, <3>3, <3>4, <3>5, <3>6, <2>3 DEF JoinRoom, hubVars, connVars, seatVars, gameVars, chanVars, moneyVars
  <2>4. ASSUME NEW c \in Conns, CreateRoom(c) PROVE TypeOK'
    BY <2>4, SlotsType DEF CreateRoom, hubVars, connVars, seatVars, gameVars, chanVars, moneyVars
  <2>5. ASSUME NEW c \in Conns, SendRegister(c) PROVE TypeOK'
    <3>1. registerQ' \in [Rooms -> Seq(Conns)]
      <4>1. \/ registerQ' = [registerQ EXCEPT ![room[c]] = Append(registerQ[room[c]], c)]
            \/ registerQ' = registerQ
        BY <2>5 DEF SendRegister
      <4>2. CASE room[c] \in Rooms
        <5>1. registerQ[room[c]] \in Seq(Conns)
          BY <4>2
        <5> DEFINE q == Append(registerQ[room[c]], c)
        <5>2. q \in Seq(Conns)
          BY <5>1
        <5>3. registerQ' = [registerQ EXCEPT ![room[c]] = q] \/ registerQ' = registerQ
          BY <4>1
        <5> HIDE DEF q
        <5> QED
          BY <5>2, <5>3, UpdateType
      <4>3. CASE room[c] \notin Rooms
        BY <4>1, <4>3
      <4> QED
        BY <4>2, <4>3
    <3> QED
      BY <3>1, <2>5 DEF SendRegister, hubVars, connVars, seatVars, gameVars, chanVars, moneyVars
  <2>6. ASSUME NEW c \in Conns, VanishEarly(c) PROVE TypeOK'
    BY <2>6 DEF VanishEarly, hubVars, connVars, seatVars, gameVars, chanVars, moneyVars
  <2>7. ASSUME NEW c \in Conns, Disconnect(c) PROVE TypeOK'
    <3> DEFINE r == userRoom[UserOf[c]]
    <3>1. disconnectQ' \in [Rooms -> Seq(Conns)]
      <4>1. CASE r \in rooms /\ Len(disconnectQ[r]) < ChanCap
        <5>1. Append(disconnectQ[r], c) \in Seq(Conns)
          BY <4>1
        <5>2. disconnectQ' = [disconnectQ EXCEPT ![r] = Append(@, c)]
          BY <4>1, <2>7 DEF Disconnect
        <5> QED
          BY <5>1, <5>2
      <4>2. CASE ~(r \in rooms /\ Len(disconnectQ[r]) < ChanCap)
        BY <4>2, <2>7 DEF Disconnect
      <4> QED
        BY <4>1, <4>2
    <3>2. waitingByKey' \in [Keys -> Conns \cup {NoConn}]
      BY <2>7, SlotsType DEF Disconnect
    <3> HIDE DEF r
    <3> QED
      BY <3>1, <3>2, <2>7 DEF Disconnect, hubVars, connVars, seatVars, gameVars, chanVars, moneyVars
  <2>8. ASSUME NEW c \in Conns, CompleteSetup(c) PROVE TypeOK'
    BY <2>8 DEF CompleteSetup, StopSetup, hubVars, connVars, seatVars, gameVars, chanVars, moneyVars
  <2>9. ASSUME NEW c \in Conns, OverwriteMove(c) PROVE TypeOK'
    <3>1. PICK result \in {First(room[c]), second[room[c]], Draw, Undecided} :
            verdict' = [verdict EXCEPT ![room[c]] = result]
      BY <2>9 DEF OverwriteMove, Rejudged
    <3>2. verdict' \in [Rooms -> Results \cup {Undecided}]
      <4>1. CASE room[c] \in Rooms
        <5>1. First(room[c]) \in Results /\ second[room[c]] \in Results /\ Draw \in Results
          BY <4>1 DEF Results
        <5>2. result \in Results \cup {Undecided}
          BY <3>1, <5>1
        <5> QED
          BY <3>1, <5>2
      <4>2. CASE room[c] \notin Rooms
        BY <3>1, <4>2
      <4> QED
        BY <4>1, <4>2
    <3> QED
      BY <3>2, <2>9 DEF OverwriteMove, hubVars, connVars, seatVars, gameVars, chanVars, moneyVars
  <2>10. ASSUME NEW r \in Rooms, SetupTimeout(r) PROVE TypeOK'
    BY <2>10 DEF SetupTimeout, hubVars, connVars, seatVars, gameVars, chanVars, moneyVars
  <2>11. ASSUME NEW r \in Rooms, CancelNoOpponent(r) PROVE TypeOK'
    BY <2>11, AmountType, SettleType DEF CancelNoOpponent, hubVars, connVars, seatVars, gameVars, chanVars, moneyVars
  <2>12. ASSUME NEW r \in Rooms, CancelCleanup(r) PROVE TypeOK'
    BY <2>12, CleanupType DEF CancelCleanup, Cleaners, hubVars, connVars, seatVars, gameVars, chanVars, moneyVars
  <2>13. ASSUME NEW r \in Rooms, HandleRegister(r) PROVE TypeOK'
    <3> DEFINE c == Head(registerQ[r])
    <3>1. c \in Conns /\ Tail(registerQ[r]) \in Seq(Conns)
      BY <2>13 DEF HandleRegister
    <3>2. registerQ' \in [Rooms -> Seq(Conns)]
      BY <3>1, <2>13 DEF HandleRegister
    <3>3. clients' \in [Rooms -> [Users -> Conns \cup {NoConn}]]
      BY <3>1, <2>13 DEF HandleRegister
    <3>6. verdict' \in [Rooms -> Results \cup {Undecided}]
      <4>1. PICK result \in {verdict[r]} \cup Rejudged(r, c) : verdict' = [verdict EXCEPT ![r] = result]
        BY <2>13 DEF HandleRegister
      <4>2. result \in Results \cup {Undecided}
        BY <4>1 DEF Rejudged, Results
      <4> QED
        BY <4>1, <4>2
    <3>4. /\ setupCompleted' \in [Rooms -> BOOLEAN]
          /\ setupTimer' \in [Rooms -> {"none", "armed", "cancelling", "cleaning", "forgetting", "done"}]
      <4>1. PICK b \in [Rooms -> BOOLEAN] : setupCompleted' = b
        BY <2>13 DEF HandleRegister
      <4>2. StopSetup(r) \/ UNCHANGED setupTimer
        BY <2>13 DEF HandleRegister
      <4>3. setupTimer' \in [Rooms -> {"none", "armed", "cancelling", "cleaning", "forgetting", "done"}]
        BY <4>2 DEF StopSetup
      <4> QED
        BY <4>1, <4>3
    <3>5. run' \in [Rooms -> {"none", "top", "select", "cleaning", "forgetting", "exited"}]
      BY <2>13 DEF HandleRegister, LoopTop
    <3>7. UNCHANGED <<hubVars, connVars, second, leaving, announced, disconnectQ, moneyVars>>
      BY <2>13 DEF HandleRegister
    <3> HIDE DEF c
    <3> QED
      BY <3>2, <3>3, <3>4, <3>5, <3>6, <3>7 DEF hubVars, connVars, moneyVars
  <2>14. ASSUME NEW r \in Rooms, HandleDisconnect(r) PROVE TypeOK'
    <3> DEFINE u == UserOf[Head(disconnectQ[r])]
    <3>1. disconnectQ' \in [Rooms -> Seq(Conns)]
      BY <2>14 DEF HandleDisconnect
    <3>2. clients' \in [Rooms -> [Users -> Conns \cup {NoConn}]]
      BY <2>14 DEF HandleDisconnect
    <3>3. run' \in [Rooms -> {"none", "top", "select", "cleaning", "forgetting", "exited"}]
      BY <2>14 DEF HandleDisconnect, LoopTop
    <3>4. \/ \E stayed : Settle(r, Payout(r, stayed))
          \/ Settle(r, Refund(r, u))
          \/ UNCHANGED moneyVars
      BY <2>14 DEF HandleDisconnect
    <3>5. /\ balance' \in [Users -> Nat]
          /\ betPaid' \in [Rooms -> BOOLEAN]
          /\ paid' \in [Rooms -> [Users -> Nat]]
      BY <3>4, AmountType, SettleType DEF moneyVars
    <3> QED
      BY <3>1, <3>2, <3>3, <3>5, <2>14 DEF HandleDisconnect, hubVars, connVars, seatVars, gameVars, chanVars, moneyVars
  <2>15. ASSUME NEW r \in Rooms, SaveResult(r) PROVE TypeOK'
    BY <2>15, AmountType, SettleType DEF SaveResult, hubVars, connVars, seatVars, gameVars, chanVars, moneyVars
  <2>16. ASSUME NEW r \in Rooms, RunCleanup(r) PROVE TypeOK'
    BY <2>16, CleanupType DEF RunCleanup, Cleaners, hubVars, connVars, seatVars, gameVars, chanVars, moneyVars
  <2>17. ASSUME NEW r \in Rooms, FinishGame(r) PROVE TypeOK'
    <3>1. PICK result \in {First(r), second[r], Draw} :
            /\ announced' = [announced EXCEPT ![r] = result]
            /\ verdict' = [verdict EXCEPT ![r] = result]
      BY <2>17 DEF FinishGame
    <3>2. result \in Results
      BY <3>1 DEF Results
    <3> QED
      BY <3>1, <3>2, <2>17 DEF FinishGame, hubVars, connVars, seatVars, gameVars, chanVars, moneyVars
  <2>18. ASSUME NEW r \in Rooms, CleanupStaleRoom(r) PROVE TypeOK'
    BY <2>18 DEF CleanupStaleRoom, hubVars, connVars, seatVars, gameVars, chanVars, moneyVars
  <2>19. ASSUME NEW k \in Keys, CleanupStaleWaiting(k) PROVE TypeOK'
    <3> DEFINE u == UserOf[waitingByKey[k]]
               r == userRoom[u]
    <3>1. u \in Users
      BY <2>19 DEF CleanupStaleWaiting
    <3>2. \/ clients' = [clients EXCEPT ![r][u] = NoConn]
          \/ clients' = clients
      BY <2>19 DEF CleanupStaleWaiting
    <3> HIDE DEF u, r
    <3>3. clients' \in [Rooms -> [Users -> Conns \cup {NoConn}]]
      <4>1. clients \in [Rooms -> [Users -> Conns \cup {NoConn}]] /\ NoConn \in Conns \cup {NoConn}
        OBVIOUS
      <4>2. [clients EXCEPT ![r][u] = NoConn] \in [Rooms -> [Users -> Conns \cup {NoConn}]]
        BY ONLY <4>1, UpdateTableType
      <4> QED
        BY <3>2, <4>1, <4>2
    <3>4. rooms' \subseteq Rooms
      BY <2>19 DEF CleanupStaleWaiting
    <3> QED
      BY <3>1, <3>3, <3>4, <2>19 DEF CleanupStaleWaiting, hubVars, connVars, seatVars, gameVars, chanVars, moneyVars
  <2>20. CASE UNCHANGED vars
    BY <2>20 DEF vars, hubVars, connVars, seatVars, gameVars, chanVars, moneyVars
  <2> QED
    BY <2>1, <2>2, <2>3, <2>4, <2>5, <2>6, <2>7, <2>8, <2>9, <2>10, <2>11, <2>12, <2>13, <2>14, <2>15, <2>16, <2>17, <2>18, <2>19, <2>20 DEF Next, ConnStep, SetupStep, RunStep
<1> QED
  BY <1>1, <1>2, PTL DEF Spec
-----------------------------------------------------------------------------
(* Who can be paid.                                                        *)

\* An assignment of a waiting connection takes nobody's stake away.
LEMMA StakersStay ==
  ASSUME TypeOK, AssignInv, NEW c \in Conns, pc[c] = "reserved",
         NEW q, room' = [room EXCEPT ![c] = q]
  PROVE  \A r \in Rooms, u \in Users : Staker(room, r, u) => Staker(room', r, u)
  <1> TAKE r \in Rooms, u \in Users
  <1> SUFFICES ASSUME Staker(room, r, u) PROVE Staker(room', r, u)
    OBVIOUS
  <1>1. PICK d \in Conns : UserOf[d] = u /\ room[d] = r
    BY DEF Staker
  <1>2. d # c
    BY <1>1, HubAssumption DEF AssignInv, Rooms
  <1>3. room'[d] = r
    BY <1>1, <1>2 DEF TypeOK
  <1> QED
    BY <1>1, <1>3 DEF Staker

\* A connection is assigned to a room once, and the room it created is its own.
LEMMA AssignStep == TypeOK /\ MoneyInv /\ AssignInv /\ [Next]_vars => AssignInv'
  <1> SUFFICES ASSUME TypeOK, MoneyInv, AssignInv, [Next]_vars PROVE AssignInv'
    OBVIOUS
  <1> USE DEF TypeOK, AssignInv, Rooms
  <1>1. ASSUME NEW c \in Conns, JoinRoom(c) PROVE AssignInv'
    BY <1>1, HubAssumption DEF JoinRoom
  <1>2. ASSUME NEW c \in Conns, CreateRoom(c) PROVE AssignInv'
    BY <1>2 DEF CreateRoom
  <1>3. ASSUME NEW c \in Conns, Reserve(c) PROVE AssignInv'
    BY <1>3 DEF Reserve, connVars
  <1>4. ASSUME NEW c \in Conns, UpgradeFails(c) PROVE AssignInv'
    BY <1>4 DEF UpgradeFails, connVars
  <1>5. ASSUME NEW c \in Conns, SendRegister(c) PROVE AssignInv'
    BY <1>5 DEF SendRegister, connVars
  <1>6. ASSUME NEW c \in Conns, VanishEarly(c) PROVE AssignInv'
    BY <1>6 DEF VanishEarly, connVars
  <1>7. ASSUME NEW c \in Conns, Disconnect(c) PROVE AssignInv'
    BY <1>7 DEF Disconnect, connVars
  <1>8. ASSUME NEW c \in Conns, CompleteSetup(c) PROVE AssignInv'
    BY <1>8 DEF CompleteSetup, connVars
  <1>9. ASSUME NEW c \in Conns, OverwriteMove(c) PROVE AssignInv'
    BY <1>9 DEF OverwriteMove, connVars
  <1>10. ASSUME NEW r \in Rooms, SetupTimeout(r) PROVE AssignInv'
    BY <1>10 DEF SetupTimeout, connVars
  <1>11. ASSUME NEW r \in Rooms, CancelNoOpponent(r) PROVE AssignInv'
    BY <1>11 DEF CancelNoOpponent, connVars
  <1>12. ASSUME NEW r \in Rooms, CancelCleanup(r) PROVE AssignInv'
    BY <1>12 DEF CancelCleanup, connVars
  <1>13. ASSUME NEW r \in Rooms, HandleRegister(r) PROVE AssignInv'
    BY <1>13 DEF HandleRegister, connVars
  <1>14. ASSUME NEW r \in Rooms, HandleDisconnect(r) PROVE AssignInv'
    BY <1>14 DEF HandleDisconnect, connVars
  <1>15. ASSUME NEW r \in Rooms, SaveResult(r) PROVE AssignInv'
    BY <1>15 DEF SaveResult, connVars
  <1>16. ASSUME NEW r \in Rooms, RunCleanup(r) PROVE AssignInv'
    BY <1>16 DEF RunCleanup, connVars
  <1>17. ASSUME NEW r \in Rooms, FinishGame(r) PROVE AssignInv'
    BY <1>17 DEF FinishGame, connVars
  <1>18. ASSUME NEW r \in Rooms, CleanupStaleRoom(r) PROVE AssignInv'
    BY <1>18 DEF CleanupStaleRoom, connVars
  <1>19. ASSUME NEW k \in Keys, CleanupStaleWaiting(k) PROVE AssignInv'
    BY <1>19 DEF CleanupStaleWaiting, connVars
  <1>20. CASE UNCHANGED vars
    BY <1>20 DEF vars, connVars
  <1> QED
    BY <1>1, <1>2, <1>3, <1>4, <1>5, <1>6, <1>7, <1>8, <1>9, <1>10, <1>11, <1>12, <1>13, <1>14, <1>15, <1>16, <1>17, <1>18, <1>19, <1>20 DEF Next, ConnStep, SetupStep, RunStep

\* Seats, results, clients, the map of the hub and both channels name stakers
\* after every step.
LEMMA SeatStep == TypeOK /\ AssignInv /\ SeatInv /\ [Next]_vars => SeatInv'
  <1> SUFFICES ASSUME TypeOK, AssignInv, SeatInv, [Next]_vars PROVE SeatInv'
    OBVIOUS
  <1>1. ASSUME UNCHANGED <<second, verdict, clients, registerQ, disconnectQ, room>>,
               \A u \in Users : userRoom'[u] \in {userRoom[u], NoConn}
        PROVE  SeatInv'
    BY <1>1 DEF SeatInv, Staker
  <1>2. ASSUME NEW r \in Rooms, NEW result,
               UNCHANGED <<second, clients, registerQ, disconnectQ, room, userRoom>>,
               verdict' = [verdict EXCEPT ![r] = result],
               result \in Users => Staker(room, r, result)
        PROVE  SeatInv'
    <2>1. \A q \in Rooms : verdict'[q] = (IF q = r THEN result ELSE verdict[q])
      BY <1>2 DEF TypeOK
    <2>2. \A q \in Rooms : verdict'[q] \in Users => Staker(room, q, verdict'[q])
      BY <1>2, <2>1 DEF SeatInv
    <2> QED
      BY <1>2, <2>2 DEF SeatInv, Staker
  <1>3. ASSUME NEW c \in Conns, JoinRoom(c) PROVE SeatInv'
    <2> DEFINE w == SlotsSeenBy(c)[KeyOf[c]]
               r == userRoom[UserOf[w]]
               u == UserOf[c]
    <2>1. /\ r \in Rooms
          /\ u \in Users
          /\ pc[c] = "reserved"
          /\ second' = [second EXCEPT ![r] = u]
          /\ clients' = [clients EXCEPT ![r][u] = c]
          /\ userRoom' = [userRoom EXCEPT ![u] = r]
          /\ room' = [room EXCEPT ![c] = r]
          /\ verdict' \in {verdict, [verdict EXCEPT ![r] = u]}
          /\ UNCHANGED <<registerQ, disconnectQ>>
      BY <1>3, HubAssumption DEF JoinRoom, Joinable, SetSecondPlayer, TypeOK, chanVars, moneyVars
    <2> HIDE DEF w, r, u
    <2>2. \A q \in Rooms, v \in Users : Staker(room, q, v) => Staker(room', q, v)
      BY <2>1, StakersStay
    <2>3. Staker(room', r, u)
      BY <2>1 DEF Staker, TypeOK, u
    <2>4. \A q \in Rooms : second'[q] \in Users => Staker(room', q, second'[q])
      BY <2>1, <2>2, <2>3 DEF SeatInv, TypeOK
    <2>5. \A q \in Rooms : verdict'[q] \in Users => Staker(room', q, verdict'[q])
      BY <2>1, <2>2, <2>3 DEF SeatInv, TypeOK
    <2>6. \A q \in Rooms, v \in Users : clients'[q][v] # NoConn => Staker(room', q, v)
      BY <2>1, <2>2, <2>3 DEF SeatInv, TypeOK
    <2>7. \A v \in Users : userRoom'[v] # NoConn => Staker(room', userRoom'[v], v)
      BY <2>1, <2>2, <2>3 DEF SeatInv, TypeOK
    <2>8. \A q \in Rooms : \A i \in 1 .. Len(registerQ'[q]) : room'[registerQ'[q][i]] = q
      <3> TAKE q \in Rooms
      <3> TAKE i \in 1 .. Len(registerQ'[q])
      <3>1. registerQ[q][i] \in Conns /\ room[registerQ[q][i]] = q
        BY <2>1 DEF SeatInv, TypeOK
      <3>2. registerQ[q][i] # c
        BY <2>1, <3>1, HubAssumption DEF AssignInv, Rooms
      <3> QED
        BY <2>1, <3>1, <3>2 DEF TypeOK
    <2>9. \A q \in Rooms : \A i \in 1 .. Len(disconnectQ'[q]) :
            Staker(room', q, UserOf[disconnectQ'[q][i]])
      <3> TAKE q \in Rooms
      <3> TAKE i \in 1 .. Len(disconnectQ'[q])
      <3>1. disconnectQ[q][i] \in Conns /\ Staker(room, q, UserOf[disconnectQ[q][i]])
        BY <2>1 DEF SeatInv, TypeOK
      <3> QED
        BY <2>1, <2>2, <3>1, HubAssumption
    <2> QED
      BY <2>4, <2>5, <2>6, <2>7, <2>8, <2>9 DEF SeatInv
  <1>4. ASSUME NEW c \in Conns, CreateRoom(c) PROVE SeatInv'
    <2> DEFINE u == UserOf[c]
    <2>1. /\ c \in Rooms
          /\ u \in Users
          /\ pc[c] = "reserved"
          /\ clients' = [clients EXCEPT ![c][u] = c]
          /\ userRoom' = [userRoom EXCEPT ![u] = c]
          /\ room' = [room EXCEPT ![c] = c]
          /\ UNCHANGED <<second, verdict, registerQ, disconnectQ>>
      BY <1>4, HubAssumption DEF CreateRoom, Rooms, chanVars, gameVars
    <2> HIDE DEF u
    <2>2. \A q \in Rooms, v \in Users : Staker(room, q, v) => Staker(room', q, v)
      BY <2>1, StakersStay
    <2>3. Staker(room', c, u)
      BY <2>1 DEF Staker, TypeOK, u
    <2>4. \A q \in Rooms : second'[q] \in Users => Staker(room', q, second'[q])
      BY <2>1, <2>2 DEF SeatInv, TypeOK
    <2>9. \A q \in Rooms : verdict'[q] \in Users => Staker(room', q, verdict'[q])
      BY <2>1, <2>2 DEF SeatInv, TypeOK
    <2>5. \A q \in Rooms, v \in Users : clients'[q][v] # NoConn => Staker(room', q, v)
      BY <2>1, <2>2, <2>3 DEF SeatInv, TypeOK
    <2>6. \A v \in Users : userRoom'[v] # NoConn => Staker(room', userRoom'[v], v)
      BY <2>1, <2>2, <2>3 DEF SeatInv, TypeOK
    <2>7. \A q \in Rooms : \A i \in 1 .. Len(registerQ'[q]) : room'[registerQ'[q][i]] = q
      <3> TAKE q \in Rooms
      <3> TAKE i \in 1 .. Len(registerQ'[q])
      <3>1. registerQ[q][i] \in Conns /\ room[registerQ[q][i]] = q
        BY <2>1 DEF SeatInv, TypeOK
      <3>2. registerQ[q][i] # c
        BY <2>1, <3>1, HubAssumption DEF AssignInv, Rooms
      <3> QED
        BY <2>1, <3>1, <3>2 DEF TypeOK
    <2>8. \A q \in Rooms : \A i \in 1 .. Len(disconnectQ'[q]) :
            Staker(room', q, UserOf[disconnectQ'[q][i]])
      <3> TAKE q \in Rooms
      <3> TAKE i \in 1 .. Len(disconnectQ'[q])
      <3>1. disconnectQ[q][i] \in Conns /\ Staker(room, q, UserOf[disconnectQ[q][i]])
        BY <2>1 DEF SeatInv, TypeOK
      <3> QED
        BY <2>1, <2>2, <3>1, HubAssumption
    <2> QED
      BY <2>4, <2>5, <2>6, <2>7, <2>8, <2>9 DEF SeatInv
  <1>5. ASSUME NEW c \in Conns, Reserve(c) PROVE SeatInv'
    BY <1>1, <1>5 DEF Reserve, TypeOK, hubVars, connVars, seatVars, gameVars, chanVars, moneyVars
  <1>6. ASSUME NEW c \in Conns, UpgradeFails(c) PROVE SeatInv'
    BY <1>1, <1>6 DEF UpgradeFails, TypeOK, hubVars, connVars, seatVars, gameVars, chanVars, moneyVars
  <1>7. ASSUME NEW c \in Conns, VanishEarly(c) PROVE SeatInv'
    BY <1>1, <1>7 DEF VanishEarly, TypeOK, hubVars, connVars, seatVars, gameVars, chanVars, moneyVars
  <1>8. ASSUME NEW c \in Conns, CompleteSetup(c) PROVE SeatInv'
    BY <1>1, <1>8 DEF CompleteSetup, TypeOK, hubVars, connVars, seatVars, gameVars, chanVars, moneyVars
  <1>9. ASSUME NEW r \in Rooms, SetupTimeout(r) PROVE SeatInv'
    BY <1>1, <1>9 DEF SetupTimeout, TypeOK, hubVars, connVars, seatVars, gameVars, chanVars, moneyVars
  <1>10. ASSUME NEW r \in Rooms, CancelNoOpponent(r) PROVE SeatInv'
    BY <1>1, <1>10 DEF CancelNoOpponent, TypeOK, hubVars, connVars, seatVars, gameVars, chanVars, moneyVars
  <1>11. ASSUME NEW r \in Rooms, SaveResult(r) PROVE SeatInv'
    BY <1>1, <1>11 DEF SaveResult, TypeOK, hubVars, connVars, seatVars, gameVars, chanVars, moneyVars
  <1>12. ASSUME NEW r \in Rooms, CancelCleanup(r) PROVE SeatInv'
    BY <1>1, <1>12 DEF CancelCleanup, CollectClients, Cleanup, TypeOK, hubVars, connVars, gameVars, chanVars, moneyVars
  <1>13. ASSUME NEW r \in Rooms, RunCleanup(r) PROVE SeatInv'
    BY <1>1, <1>13 DEF RunCleanup, CollectClients, Cleanup, TypeOK, hubVars, connVars, gameVars, chanVars, moneyVars
  <1>14. ASSUME NEW r \in Rooms, CleanupStaleRoom(r) PROVE SeatInv'
    BY <1>1, <1>14 DEF CleanupStaleRoom, TypeOK, hubVars, connVars, seatVars, gameVars, chanVars, moneyVars
  <1>15. ASSUME NEW r \in Rooms, FinishGame(r) PROVE SeatInv'
    <2>1. PICK result \in {First(r), second[r], Draw} :
            verdict' = [verdict EXCEPT ![r] = result]
      BY <1>15 DEF FinishGame
    <2>2. Staker(room, r, First(r))
      BY <1>15 DEF FinishGame, AssignInv, Staker, First, Rooms
    <2>3. result \in Users => Staker(room, r, result)
      BY <2>1, <2>2, HubAssumption DEF SeatInv
    <2> QED
      BY <1>2, <1>15, <2>1, <2>3 DEF FinishGame, hubVars, connVars, seatVars, gameVars, chanVars, moneyVars
  <1>16. ASSUME NEW c \in Conns, OverwriteMove(c) PROVE SeatInv'
    <2> DEFINE r == room[c]
    <2>1. PICK result \in {First(r), second[r], Draw, Undecided} :
            verdict' = [verdict EXCEPT ![r] = result]
      BY <1>16 DEF OverwriteMove, Rejudged
    <2>2. CASE r \notin Rooms
      <3>1. verdict' = verdict
        BY <2>1, <2>2 DEF TypeOK
      <3> QED
        BY <1>1, <1>16, <3>1 DEF OverwriteMove, hubVars, connVars, seatVars, gameVars, chanVars, moneyVars
    <2>3. CASE r \in Rooms
      <3>1. Staker(room, r, First(r))
        BY <1>16, <2>3 DEF OverwriteMove, AssignInv, Staker, First, Rooms
      <3>2. result \in Users => Staker(room, r, result)
        BY <2>1, <2>3, <3>1, HubAssumption DEF SeatInv
      <3> HIDE DEF r
      <3> QED
        BY <1>2, <1>16, <2>1, <2>3, <3>2 DEF OverwriteMove, hubVars, connVars, seatVars, gameVars, chanVars, moneyVars
    <2> QED
      BY <2>2, <2>3
  <1>17. ASSUME NEW c \in Conns, SendRegister(c) PROVE SeatInv'
    <2> DEFINE q == room[c]
    <2>1. \/ registerQ' = [registerQ EXCEPT ![q] = Append(registerQ[q], c)]
          \/ registerQ' = registerQ
      BY <1>17 DEF SendRegister
    <2>2. UNCHANGED <<second, verdict, clients, userRoom, disconnectQ, room>>
      BY <1>17 DEF SendRegister, hubVars, connVars, seatVars, gameVars, chanVars, moneyVars
    <2>3. \A r \in Rooms : \A i \in 1 .. Len(registerQ'[r]) : room[registerQ'[r][i]] = r
      <3> TAKE r \in Rooms
      <3>1. CASE registerQ'[r] = registerQ[r]
        BY <3>1 DEF SeatInv
      <3>2. CASE registerQ'[r] # registerQ[r]
        <4>1. r = room[c] /\ registerQ'[r] = Append(registerQ[r], c)
          BY <2>1, <3>2 DEF TypeOK
        <4>2. registerQ[r] \in Seq(Conns)
          BY DEF TypeOK
        <4> QED
          BY <4>1, <4>2 DEF SeatInv
      <3> QED
        BY <3>1, <3>2
    <2> QED
      BY <2>2, <2>3 DEF SeatInv, Staker
  <1>18. ASSUME NEW c \in Conns, Disconnect(c) PROVE SeatInv'
    <2> DEFINE q == userRoom[UserOf[c]]
    <2>1. \/ q \in rooms /\ disconnectQ' = [disconnectQ EXCEPT ![q] = Append(disconnectQ[q], c)]
          \/ disconnectQ' = disconnectQ
      BY <1>18 DEF Disconnect
    <2>2. UNCHANGED <<second, verdict, clients, userRoom, registerQ, room>>
      BY <1>18 DEF Disconnect, hubVars, connVars, seatVars, gameVars, chanVars, moneyVars
    <2>3. \A r \in Rooms : \A i \in 1 .. Len(disconnectQ'[r]) : Staker(room, r, UserOf[disconnectQ'[r][i]])
      <3> TAKE r \in Rooms
      <3>1. CASE disconnectQ'[r] = disconnectQ[r]
        BY <3>1 DEF SeatInv
      <3>2. CASE disconnectQ'[r] # disconnectQ[r]
        <4>1. r = q /\ disconnectQ'[r] = Append(disconnectQ[r], c)
          BY <2>1, <3>2 DEF TypeOK
        <4>2. Staker(room, r, UserOf[c])
          BY <4>1, HubAssumption DEF SeatInv, Rooms
        <4>3. disconnectQ[r] \in Seq(Conns)
          BY DEF TypeOK
        <4> QED
          BY <4>1, <4>2, <4>3 DEF SeatInv
      <3> QED
        BY <3>1, <3>2
    <2> QED
      BY <2>2, <2>3 DEF SeatInv, Staker
  <1>19. ASSUME NEW r \in Rooms, HandleRegister(r) PROVE SeatInv'
    <2> DEFINE c == Head(registerQ[r])
    <2>1. /\ registerQ' = [registerQ EXCEPT ![r] = Tail(registerQ[r])]
          /\ clients' = [clients EXCEPT ![r] = [clients[r] EXCEPT ![UserOf[c]] = c]]
          /\ UNCHANGED <<second, userRoom, disconnectQ, room>>
      BY <1>19 DEF HandleRegister, hubVars, connVars, seatVars, gameVars, chanVars, moneyVars
    <2>2. c \in Conns /\ room[c] = r
      BY <1>19 DEF HandleRegister, SeatInv, TypeOK
    <2>3. Staker(room, r, UserOf[c])
      BY <2>2 DEF Staker
    <2> HIDE DEF c
    <2>4. \A q \in Rooms, u \in Users : clients'[q][u] # NoConn => Staker(room, q, u)
      BY <2>1, <2>3 DEF SeatInv, TypeOK
    <2>5. \A q \in Rooms : \A i \in 1 .. Len(registerQ'[q]) : room[registerQ'[q][i]] = q
      BY <1>19, <2>1 DEF HandleRegister, SeatInv, TypeOK
    <2>6. \A q \in Rooms : verdict'[q] \in Users => Staker(room, q, verdict'[q])
      <3>1. PICK result \in {verdict[r], First(r), second[r], Draw, Undecided} :
              verdict' = [verdict EXCEPT ![r] = result]
        BY <1>19 DEF HandleRegister, Rejudged
      <3>2. Staker(room, r, First(r))
        BY <1>19 DEF HandleRegister, AssignInv, Staker, First, Rooms
      <3>3. result \in Users => Staker(room, r, result)
        BY <3>1, <3>2, HubAssumption DEF SeatInv
      <3>4. \A q \in Rooms : verdict'[q] = (IF q = r THEN result ELSE verdict[q])
        BY <3>1 DEF TypeOK
      <3> QED
        BY <3>3, <3>4 DEF SeatInv
    <2> QED
      BY <2>1, <2>4, <2>5, <2>6 DEF SeatInv, Staker
  <1>20. ASSUME NEW r \in Rooms, HandleDisconnect(r) PROVE SeatInv'
    <2> DEFINE u == UserOf[Head(disconnectQ[r])]
    <2>1. /\ disconnectQ' = [disconnectQ EXCEPT ![r] = Tail(disconnectQ[r])]
          /\ clients' = [clients EXCEPT ![r][u] = NoConn]
          /\ UNCHANGED <<second, verdict, userRoom, registerQ, room>>
      BY <1>20 DEF HandleDisconnect, hubVars, connVars, seatVars, gameVars, chanVars, moneyVars
    <2> HIDE DEF u
    <2>2. \A q \in Rooms, v \in Users : clients'[q][v] # NoConn => Staker(room, q, v)
      BY <2>1 DEF SeatInv, TypeOK
    <2>3. \A q \in Rooms : \A i \in 1 .. Len(disconnectQ'[q]) : Staker(room, q, UserOf[disconnectQ'[q][i]])
      BY <1>20, <2>1 DEF HandleDisconnect, SeatInv, TypeOK
    <2> QED
      BY <2>1, <2>2, <2>3 DEF SeatInv, Staker
  <1>21. ASSUME NEW k \in Keys, CleanupStaleWaiting(k) PROVE SeatInv'
    <2> DEFINE u == UserOf[waitingByKey[k]]
               r == userRoom[u]
    <2>1. /\ userRoom' = [userRoom EXCEPT ![u] = NoConn]
          /\ \/ clients' = [clients EXCEPT ![r][u] = NoConn]
             \/ clients' = clients
          /\ UNCHANGED <<second, verdict, registerQ, disconnectQ, room>>
      BY <1>21 DEF CleanupStaleWaiting, hubVars, connVars, seatVars, gameVars, chanVars, moneyVars
    <2> HIDE DEF u, r
    <2>2. \A q \in Rooms, v \in Users : clients'[q][v] # NoConn => Staker(room, q, v)
      <3>1. \A q \in Rooms, v \in Users : clients'[q][v] \in {clients[q][v], NoConn}
        <4>1. clients \in [Rooms -> [Users -> Conns \cup {NoConn}]]
          BY DEF TypeOK
        <4>2. \A q \in Rooms, v \in Users :
                [clients EXCEPT ![r][u] = NoConn][q][v] \in {clients[q][v], NoConn}
          BY ONLY <4>1, UpdateTableValue
        <4> QED
          BY <2>1, <4>2
      <3> QED
        BY <2>1, <3>1 DEF SeatInv
    <2>3. \A v \in Users : userRoom'[v] # NoConn => Staker(room, userRoom'[v], v)
      <3>1. \A v \in Users : userRoom'[v] \in {userRoom[v], NoConn}
        BY <2>1 DEF TypeOK
      <3> QED
        BY <3>1 DEF SeatInv
    <2> QED
      BY <2>1, <2>2, <2>3 DEF SeatInv, Staker
  <1>22. CASE UNCHANGED vars
    BY <1>1, <1>22 DEF vars, TypeOK, hubVars, connVars, seatVars, gameVars, chanVars, moneyVars
  <1> QED
    BY <1>3, <1>4, <1>5, <1>6, <1>7, <1>8, <1>9, <1>10, <1>11, <1>12, <1>13, <1>14, <1>15, <1>16, <1>17, <1>18, <1>19, <1>20, <1>21, <1>22 DEF Next, ConnStep, SetupStep, RunStep
-----------------------------------------------------------------------------
(* Settlements.                                                            *)

\* Neither a refund nor a payout hands out more than the pot.
LEMMA AwardsAreBounded ==
  ASSUME NEW r \in Rooms
  PROVE  /\ \A u : Escrow!Award(r, Refund(r, u))
         /\ \A result : Escrow!Award(r, Payout(r, result))
  <1>1. Bet(r) \in Nat
    BY BetType
  <1>2. [q \in Conns |-> Bet(q)][r] = Bet(r)
    BY DEF Rooms
  <1>3. ASSUME NEW u PROVE Escrow!Award(r, Refund(r, u))
    BY <1>1, <1>2 DEF Escrow!Award, Refund
  <1>4. ASSUME NEW result PROVE Escrow!Award(r, Payout(r, result))
    <2> DEFINE p == Payout(r, result)
    <2>1. \A v \in Users : p[v] \in {0, Bet(r), 2 * Bet(r)}
      BY <1>1 DEF Payout
    <2>2. p \in [Users -> 0 .. 2 * Bet(r)]
      BY <1>1, <2>1 DEF Payout
    <2>3. ASSUME NEW v \in Users, NEW w \in Users, v # w PROVE p[v] + p[w] <= 2 * Bet(r)
      <3>1. CASE result = Draw
          <4>1. (p[v] = Bet(r) /\ p[w] = Bet(r)) \/ (p[v] = 0 \/ p[w] = 0)
          BY <2>3, <3>1, <1>1 DEF Payout
        <4> QED
          BY <1>1, <2>1, <4>1
      <3>2. CASE result # Draw
        <4>1. p[v] = 0 \/ p[w] = 0
          BY <2>3, <3>2 DEF Payout
        <4> QED
          BY <1>1, <2>1, <4>1
      <3> QED
        BY <3>1, <3>2
    <2> QED
      BY <1>2, <2>2, <2>3 DEF Escrow!Award
  <1> QED
    BY <1>3, <1>4

\* A draw pays the two players, any other result whom it names.
LEMMA PayoutNames ==
  ASSUME NEW r \in Rooms, NEW result, NEW v \in Users, Payout(r, result)[v] > 0
  PROVE  IF result = Draw THEN v \in {First(r), second[r]} ELSE v = result
  BY BetType DEF Payout

\* No two users get more than n together.
AtMost(amount, n) ==
  \A u, v \in Users : amount[u] <= n /\ (u # v => amount[u] + amount[v] <= n)

\* Nobody but two users gets anything.
PaysTwo(amount) == \E a, b : \A u \in Users : amount[u] > 0 => u \in {a, b}

\* What the steps that can settle a room have in common.  Before an opponent
\* came or a result was announced there is only the first stake to give back.
Settlement(r, amount) ==
  /\ run[r] # "none"
  /\ second[r] = NoUser /\ announced[r] = Undecided => AtMost(amount, Bet(r))
  /\ Unsettled(r)
  /\ Settle(r, amount)
  /\ Escrow!Award(r, amount)
  /\ PaysTwo(amount)
  /\ \A u \in Users : amount[u] > 0 => Staker(room, r, u)

\* A payout to stakers is such a settlement.
LEMMA PayoutSettles ==
  ASSUME TypeOK, AssignInv, SeatInv, NEW r \in Rooms, NEW result,
         run[r] # "none", Unsettled(r), Settle(r, Payout(r, result)),
         second[r] # NoUser \/ announced[r] # Undecided,
         result \in Users => Staker(room, r, result)
  PROVE  Settlement(r, Payout(r, result))
  <1>1. Staker(room, r, First(r))
    BY DEF AssignInv, Staker, First, Rooms
  <1>2. ASSUME NEW u \in Users, Payout(r, result)[u] > 0 PROVE Staker(room, r, u)
    BY <1>1, <1>2, PayoutNames DEF SeatInv
  <1>3. PaysTwo(Payout(r, result))
    <2>1. CASE result = Draw
      BY <2>1, PayoutNames DEF PaysTwo
    <2>2. CASE result # Draw
      BY <2>2, PayoutNames DEF PaysTwo
    <2> QED
      BY <2>1, <2>2
  <1> QED
    BY <1>2, <1>3, AwardsAreBounded DEF Settlement

\* A refund to a staker is such a settlement as well.
LEMMA RefundSettles ==
  ASSUME NEW r \in Rooms, NEW u \in Users,
         run[r] # "none", Unsettled(r), Settle(r, Refund(r, u)), Staker(room, r, u)
  PROVE  Settlement(r, Refund(r, u))
  <1>1. \A v \in Users : Refund(r, u)[v] > 0 => v = u
    BY DEF Refund
  <1>2. AtMost(Refund(r, u), Bet(r))
    BY BetType DEF AtMost, Refund
  <1>3. PaysTwo(Refund(r, u))
    BY <1>1 DEF PaysTwo
  <1> QED
    BY <1>1, <1>2, <1>3, AwardsAreBounded DEF Settlement

\* Every step either leaves all accounts of all rooms alone or is a settlement.
LEMMA SettleStep ==
  ASSUME TypeOK, MoneyInv, AssignInv, SeatInv, [Next]_vars
  PROVE  \/ UNCHANGED <<betPaid, paid>>
         \/ \E r \in Rooms, amount \in [Users -> Nat] : Settlement(r, amount)
  <1> DEFINE Goal == \/ UNCHANGED <<betPaid, paid>>
                     \/ \E r \in Rooms, amount \in [Users -> Nat] : Settlement(r, amount)
  <1>1. ASSUME NEW r \in Rooms, CancelNoOpponent(r) PROVE Goal
    <2>1. CASE Unsettled(r)
      <3>1. run[r] # "none" /\ Settle(r, Refund(r, First(r)))
        BY <1>1, <2>1 DEF CancelNoOpponent, MoneyInv
      <3>2. Staker(room, r, First(r)) /\ First(r) \in Users
        BY <3>1, BetType DEF AssignInv, Staker, First, Rooms
      <3> QED
        BY <2>1, <3>1, <3>2, RefundSettles, AmountType
    <2>2. CASE ~Unsettled(r)
      BY <1>1, <2>2 DEF CancelNoOpponent, moneyVars
    <2> QED
      BY <2>1, <2>2
  <1>2. ASSUME NEW r \in Rooms, SaveResult(r) PROVE Goal
    <2>1. CASE verdict[r] # Undecided /\ Unsettled(r)
      <3>1. run[r] # "none" /\ Settle(r, Payout(r, verdict[r])) /\ announced[r] # Undecided
        BY <1>2, <2>1 DEF SaveResult
      <3> QED
        BY <2>1, <3>1, PayoutSettles, AmountType DEF SeatInv
    <2>2. CASE ~(verdict[r] # Undecided /\ Unsettled(r))
      BY <1>2, <2>2 DEF SaveResult, moneyVars
    <2> QED
      BY <2>1, <2>2
  <1>3. ASSUME NEW r \in Rooms, HandleDisconnect(r) PROVE Goal
    <2> DEFINE u == UserOf[Head(disconnectQ[r])]
               left == Present(clients[r]) \ {u}
    <2>1. run[r] # "none"
      BY <1>3 DEF HandleDisconnect
    <2>2. u \in Users /\ Staker(room, r, u)
      BY <1>3, HubAssumption DEF HandleDisconnect, TypeOK, SeatInv
    <2>3. \A v \in left : v \in Users /\ Staker(room, r, v)
      BY DEF Present, SeatInv
    <2>4. \/ /\ Unsettled(r) /\ second[r] # NoUser
             /\ \E stayed \in left : Settle(r, Payout(r, stayed))
          \/ Unsettled(r) /\ Settle(r, Refund(r, u))
          \/ UNCHANGED moneyVars
      BY <1>3 DEF HandleDisconnect
    <2> HIDE DEF u, left
    <2>5. CASE /\ Unsettled(r) /\ second[r] # NoUser
               /\ \E stayed \in left : Settle(r, Payout(r, stayed))
      <3>1. PICK stayed \in left : Settle(r, Payout(r, stayed))
        BY <2>5
      <3> QED
        BY <2>1, <2>3, <2>5, <3>1, PayoutSettles, AmountType
    <2>6. CASE Unsettled(r) /\ Settle(r, Refund(r, u))
      BY <2>1, <2>2, <2>6, RefundSettles, AmountType
    <2>7. CASE UNCHANGED moneyVars
      BY <2>7 DEF moneyVars
    <2> QED
      BY <2>4, <2>5, <2>6, <2>7
  <1>4. ASSUME NEW c \in Conns, Reserve(c) PROVE Goal
    BY <1>4 DEF Reserve, moneyVars
  <1>5. ASSUME NEW c \in Conns, UpgradeFails(c) PROVE Goal
    BY <1>5 DEF UpgradeFails, moneyVars
  <1>6. ASSUME NEW c \in Conns, JoinRoom(c) PROVE Goal
    BY <1>6 DEF JoinRoom, moneyVars
  <1>7. ASSUME NEW c \in Conns, CreateRoom(c) PROVE Goal
    BY <1>7 DEF CreateRoom, moneyVars
  <1>8. ASSUME NEW c \in Conns, SendRegister(c) PROVE Goal
    BY <1>8 DEF SendRegister, moneyVars
  <1>9. ASSUME NEW c \in Conns, VanishEarly(c) PROVE Goal
    BY <1>9 DEF VanishEarly, moneyVars
  <1>10. ASSUME NEW c \in Conns, Disconnect(c) PROVE Goal
    BY <1>10 DEF Disconnect, moneyVars
  <1>11. ASSUME NEW c \in Conns, CompleteSetup(c) PROVE Goal
    BY <1>11 DEF CompleteSetup, moneyVars
  <1>12. ASSUME NEW c \in Conns, OverwriteMove(c) PROVE Goal
    BY <1>12 DEF OverwriteMove, moneyVars
  <1>13. ASSUME NEW r \in Rooms, SetupTimeout(r) PROVE Goal
    BY <1>13 DEF SetupTimeout, moneyVars
  <1>14. ASSUME NEW r \in Rooms, CancelCleanup(r) PROVE Goal
    BY <1>14 DEF CancelCleanup, moneyVars
  <1>15. ASSUME NEW r \in Rooms, HandleRegister(r) PROVE Goal
    BY <1>15 DEF HandleRegister, moneyVars
  <1>16. ASSUME NEW r \in Rooms, RunCleanup(r) PROVE Goal
    BY <1>16 DEF RunCleanup, moneyVars
  <1>17. ASSUME NEW r \in Rooms, FinishGame(r) PROVE Goal
    BY <1>17 DEF FinishGame, moneyVars
  <1>18. ASSUME NEW r \in Rooms, CleanupStaleRoom(r) PROVE Goal
    BY <1>18 DEF CleanupStaleRoom, moneyVars
  <1>19. ASSUME NEW k \in Keys, CleanupStaleWaiting(k) PROVE Goal
    BY <1>19 DEF CleanupStaleWaiting, moneyVars
  <1>20. CASE UNCHANGED vars
    BY <1>20 DEF vars, moneyVars
  <1> QED
    BY <1>1, <1>2, <1>3, <1>4, <1>5, <1>6, <1>7, <1>8, <1>9, <1>10, <1>11, <1>12, <1>13, <1>14, <1>15, <1>16, <1>17, <1>18, <1>19, <1>20 DEF Next, ConnStep, SetupStep, RunStep

\* A room starts to run when it is created, alone and unpaid, and never unstarts.
LEMMA LifeStep ==
  ASSUME TypeOK, MoneyInv, [Next]_vars
  PROVE  /\ \/ \A r \in Rooms : run'[r] = "none" <=> run[r] = "none"
            \/ \E c \in Rooms : /\ run' = [run EXCEPT ![c] = "select"]
                               /\ UNCHANGED <<betPaid, paid>>
         /\ \A r \in Rooms : run'[r] = "none" => setupTimer'[r] = "none"
  <1> DEFINE Same == \A r \in Rooms : run'[r] = "none" <=> run[r] = "none"
             Made == \E c \in Rooms : /\ run' = [run EXCEPT ![c] = "select"]
                                     /\ UNCHANGED <<betPaid, paid>>
             Timers == \A r \in Rooms : run'[r] = "none" => setupTimer'[r] = "none"
  <1>1. ASSUME NEW c \in Conns, CreateRoom(c) PROVE Made /\ Timers
    <2>1. Made
      BY <1>1 DEF CreateRoom, moneyVars, Rooms
    <2>2. Timers
      BY <1>1 DEF CreateRoom, TypeOK, MoneyInv, Rooms
    <2> QED
      BY <2>1, <2>2
  <1>2. ASSUME NEW c \in Conns, Reserve(c) PROVE Same /\ Timers
    BY <1>2 DEF Reserve, TypeOK, MoneyInv
  <1>3. ASSUME NEW c \in Conns, UpgradeFails(c) PROVE Same /\ Timers
    BY <1>3 DEF UpgradeFails, TypeOK, MoneyInv
  <1>4. ASSUME NEW c \in Conns, JoinRoom(c) PROVE Same /\ Timers
    BY <1>4 DEF JoinRoom, TypeOK, MoneyInv
  <1>5. ASSUME NEW c \in Conns, SendRegister(c) PROVE Same /\ Timers
    BY <1>5 DEF SendRegister, TypeOK, MoneyInv
  <1>6. ASSUME NEW c \in Conns, VanishEarly(c) PROVE Same /\ Timers
    BY <1>6 DEF VanishEarly, TypeOK, MoneyInv
  <1>7. ASSUME NEW c \in Conns, Disconnect(c) PROVE Same /\ Timers
    BY <1>7 DEF Disconnect, TypeOK, MoneyInv
  <1>8. ASSUME NEW c \in Conns, CompleteSetup(c) PROVE Same /\ Timers
    BY <1>8 DEF CompleteSetup, StopSetup, TypeOK, MoneyInv
  <1>9. ASSUME NEW c \in Conns, OverwriteMove(c) PROVE Same /\ Timers
    BY <1>9 DEF OverwriteMove, TypeOK, MoneyInv
  <1>10. ASSUME NEW r \in Rooms, SetupTimeout(r) PROVE Same /\ Timers
    BY <1>10 DEF SetupTimeout, TypeOK, MoneyInv
  <1>11. ASSUME NEW r \in Rooms, CancelNoOpponent(r) PROVE Same /\ Timers
    BY <1>11 DEF CancelNoOpponent, TypeOK, MoneyInv
  <1>12. ASSUME NEW r \in Rooms, CancelCleanup(r) PROVE Same /\ Timers
    BY <1>12 DEF CancelCleanup, TypeOK, MoneyInv
  <1>13. ASSUME NEW r \in Rooms, HandleRegister(r) PROVE Same /\ Timers
    BY <1>13 DEF HandleRegister, StopSetup, LoopTop, TypeOK, MoneyInv
  <1>14. ASSUME NEW r \in Rooms, HandleDisconnect(r) PROVE Same /\ Timers
    BY <1>14 DEF HandleDisconnect, LoopTop, TypeOK, MoneyInv
  <1>15. ASSUME NEW r \in Rooms, SaveResult(r) PROVE Same /\ Timers
    BY <1>15 DEF SaveResult, TypeOK, MoneyInv
  <1>16. ASSUME NEW r \in Rooms, RunCleanup(r) PROVE Same /\ Timers
    BY <1>16 DEF RunCleanup, TypeOK, MoneyInv
  <1>17. ASSUME NEW r \in Rooms, FinishGame(r) PROVE Same /\ Timers
    BY <1>17 DEF FinishGame, TypeOK, MoneyInv
  <1>18. ASSUME NEW r \in Rooms, CleanupStaleRoom(r) PROVE Same /\ Timers
    BY <1>18 DEF CleanupStaleRoom, TypeOK, MoneyInv
  <1>19. ASSUME NEW k \in Keys, CleanupStaleWaiting(k) PROVE Same /\ Timers
    BY <1>19 DEF CleanupStaleWaiting, TypeOK, MoneyInv
  <1>20. CASE UNCHANGED vars
    BY <1>20 DEF vars, MoneyInv
  <1> QED
    BY <1>1, <1>2, <1>3, <1>4, <1>5, <1>6, <1>7, <1>8, <1>9, <1>10, <1>11, <1>12, <1>13, <1>14, <1>15, <1>16, <1>17, <1>18, <1>19, <1>20 DEF Next, ConnStep, SetupStep, RunStep

\* No step takes a stake out of a room.
LEMMA RoomStep ==
  ASSUME TypeOK, AssignInv, [Next]_vars
  PROVE  \A r \in Rooms, u \in Users : Staker(room, r, u) => Staker(room', r, u)
  <1> DEFINE Kept == \A r \in Rooms, u \in Users : Staker(room, r, u) => Staker(room', r, u)
  <1>1. ASSUME NEW c \in Conns, JoinRoom(c) PROVE Kept
    BY <1>1, StakersStay DEF JoinRoom
  <1>2. ASSUME NEW c \in Conns, CreateRoom(c) PROVE Kept
    BY <1>2, StakersStay DEF CreateRoom
  <1>3. ASSUME NEW c \in Conns, Reserve(c) PROVE Kept
    BY <1>3 DEF Reserve, connVars
  <1>4. ASSUME NEW c \in Conns, UpgradeFails(c) PROVE Kept
    BY <1>4 DEF UpgradeFails, connVars
  <1>5. ASSUME NEW c \in Conns, SendRegister(c) PROVE Kept
    BY <1>5 DEF SendRegister, connVars
  <1>6. ASSUME NEW c \in Conns, VanishEarly(c) PROVE Kept
    BY <1>6 DEF VanishEarly, connVars
  <1>7. ASSUME NEW c \in Conns, Disconnect(c) PROVE Kept
    BY <1>7 DEF Disconnect, connVars
  <1>8. ASSUME NEW c \in Conns, CompleteSetup(c) PROVE Kept
    BY <1>8 DEF CompleteSetup, connVars
  <1>9. ASSUME NEW c \in Conns, OverwriteMove(c) PROVE Kept
    BY <1>9 DEF OverwriteMove, connVars
  <1>10. ASSUME NEW r \in Rooms, SetupTimeout(r) PROVE Kept
    BY <1>10 DEF SetupTimeout, connVars
  <1>11. ASSUME NEW r \in Rooms, CancelNoOpponent(r) PROVE Kept
    BY <1>11 DEF CancelNoOpponent, connVars
  <1>12. ASSUME NEW r \in Rooms, CancelCleanup(r) PROVE Kept
    BY <1>12 DEF CancelCleanup, connVars
  <1>13. ASSUME NEW r \in Rooms, HandleRegister(r) PROVE Kept
    BY <1>13 DEF HandleRegister, connVars
  <1>14. ASSUME NEW r \in Rooms, HandleDisconnect(r) PROVE Kept
    BY <1>14 DEF HandleDisconnect, connVars
  <1>15. ASSUME NEW r \in Rooms, SaveResult(r) PROVE Kept
    BY <1>15 DEF SaveResult, connVars
  <1>16. ASSUME NEW r \in Rooms, RunCleanup(r) PROVE Kept
    BY <1>16 DEF RunCleanup, connVars
  <1>17. ASSUME NEW r \in Rooms, FinishGame(r) PROVE Kept
    BY <1>17 DEF FinishGame, connVars
  <1>18. ASSUME NEW r \in Rooms, CleanupStaleRoom(r) PROVE Kept
    BY <1>18 DEF CleanupStaleRoom, connVars
  <1>19. ASSUME NEW k \in Keys, CleanupStaleWaiting(k) PROVE Kept
    BY <1>19 DEF CleanupStaleWaiting, connVars
  <1>20. CASE UNCHANGED vars
    BY <1>20 DEF vars, connVars
  <1> QED
    BY <1>1, <1>2, <1>3, <1>4, <1>5, <1>6, <1>7, <1>8, <1>9, <1>10, <1>11, <1>12, <1>13, <1>14, <1>15, <1>16, <1>17, <1>18, <1>19, <1>20 DEF Next, ConnStep, SetupStep, RunStep
-----------------------------------------------------------------------------
(* The theorems.                                                           *)

\* A room that is not settled has paid nobody, before and after every step.
LEMMA MoneyStep ==
  ASSUME TypeOK, MoneyInv, AssignInv, SeatInv, [Next]_vars
  PROVE  MoneyInv'
  <1>1. \A r \in Rooms : run'[r] = "none" => run[r] = "none" /\ setupTimer'[r] = "none"
    BY LifeStep DEF TypeOK
  <1>2. CASE UNCHANGED <<betPaid, paid>>
    BY <1>1, <1>2 DEF MoneyInv
  <1>3. ASSUME NEW r \in Rooms, NEW amount \in [Users -> Nat], Settlement(r, amount)
        PROVE  MoneyInv'
    <2>1. PICK landed :
            /\ betPaid' = [betPaid EXCEPT ![r] = TRUE]
            /\ paid' = [paid EXCEPT ![r] =
                          [u \in Users |-> @[u] + (IF u \in landed THEN amount[u] ELSE 0)]]
      BY <1>3, SettleEffect DEF Settlement
    <2>2. \A q \in Rooms : q # r => betPaid'[q] = betPaid[q] /\ paid'[q] = paid[q]
      BY <2>1 DEF TypeOK
    <2>3. betPaid'[r] /\ run[r] # "none"
      BY <1>3, <2>1 DEF Settlement, TypeOK
    <2> QED
      BY <1>1, <2>2, <2>3 DEF MoneyInv
  <1> QED
    BY <1>2, <1>3, SettleStep

\* After every step, whoever has been credited is a staker.
LEMMA CreditStep ==
  ASSUME TypeOK, MoneyInv, AssignInv, SeatInv, CreditsGoToStakers, [Next]_vars
  PROVE  CreditsGoToStakers'
  <1>1. SUFFICES ASSUME NEW r \in Rooms, NEW u \in Users, paid'[r][u] > 0
                 PROVE  Staker(room, r, u)
    BY RoomStep DEF CreditsGoToStakers, Staker
  <1>2. CASE UNCHANGED <<betPaid, paid>>
    BY <1>1, <1>2 DEF CreditsGoToStakers, Staker
  <1>3. ASSUME NEW q \in Rooms, NEW amount \in [Users -> Nat], Settlement(q, amount)
        PROVE  Staker(room, r, u)
    <2>1. PICK landed :
            paid' = [paid EXCEPT ![q] =
                      [v \in Users |-> @[v] + (IF v \in landed THEN amount[v] ELSE 0)]]
      BY <1>3, SettleEffect DEF Settlement
    <2>2. CASE paid[r][u] > 0
      BY <2>2 DEF CreditsGoToStakers, Staker
    <2>3. CASE ~(paid[r][u] > 0)
      <3>1. paid[r][u] = 0
        BY <2>3 DEF TypeOK
      <3>2. r = q
        BY <1>1, <2>1, <3>1 DEF TypeOK
      <3>3. amount[u] > 0
        BY <1>1, <2>1, <3>1, <3>2 DEF TypeOK
      <3> QED
        BY <1>3, <3>2, <3>3 DEF Settlement
    <2> QED
      BY <2>2, <2>3
  <1> QED
    BY <1>2, <1>3, SettleStep

\* The inductive invariant of matchmaking and settlement.
THEOREM HubInvariant == Spec => []HubInv
<1>1. Init => HubInv
  <2> SUFFICES ASSUME Init PROVE HubInv
    OBVIOUS
  <2>1. TypeOK
    BY HubAssumption, BetType DEF Init, TypeOK, Nobody, Nothing, Rooms
  <2>2. MoneyInv /\ AssignInv /\ CreditsGoToStakers
    BY DEF Init, MoneyInv, AssignInv, CreditsGoToStakers, Nothing
  <2>3. SeatInv
    BY HubAssumption DEF Init, SeatInv, Nobody
  <2> QED
    BY <2>1, <2>2, <2>3 DEF HubInv
<1>2. TypeOK /\ HubInv /\ [Next]_vars /\ TypeOK' => HubInv'
  <2> SUFFICES ASSUME HubInv, [Next]_vars, TypeOK' PROVE HubInv'
    OBVIOUS
  <2> USE DEF HubInv
  <2> QED
    BY AssignStep, SeatStep, MoneyStep, CreditStep
<1> QED
  BY <1>1, <1>2, TypeCorrect, PTL DEF Spec

\* A room only ever credits users whose stake is in it, whatever stale entries
\* the hub still holds and however late a disconnection is handled.
THEOREM CreditsAreEarned == Spec => []CreditsGoToStakers
<1>1. HubInv => CreditsGoToStakers
  BY DEF HubInv
<1> QED
  BY <1>1, HubInvariant, PTL

\* Every room settles its stakes at most once and never hands out more than its
\* pot: the hub implements PvpEscrow.
THEOREM HubImplementsEscrow == Spec => EscrowSpec
<1>1. Init => Escrow!Init
  BY DEF Init, Escrow!Init, Escrow!NoCredit, Status, Nothing, Rooms
<1>2. HubInv /\ [Next]_vars => [Escrow!Next]_(Escrow!escrowVars)
  <2> SUFFICES ASSUME HubInv, [Next]_vars PROVE [Escrow!Next]_(Escrow!escrowVars)
    OBVIOUS
  <2> USE DEF HubInv
  <2>1. CASE UNCHANGED <<betPaid, paid>>
    <3>1. CASE \A r \in Rooms : run'[r] = "none" <=> run[r] = "none"
      <4>1. Status' = Status
        BY <2>1, <3>1 DEF Status
      <4> QED
        BY <2>1, <4>1 DEF Escrow!escrowVars
    <3>2. ASSUME NEW c \in Rooms, run' = [run EXCEPT ![c] = "select"]
          PROVE  [Escrow!Next]_(Escrow!escrowVars)
      <4>1. CASE run[c] = "none"
        <5>1. ~betPaid[c]
          BY <4>1 DEF MoneyInv
        <5>2. Status[c] = "none"
          BY <4>1 DEF Status
        <5>3. Status' = [Status EXCEPT ![c] = "open"]
          BY <2>1, <3>2, <5>1 DEF Status, TypeOK
        <5>4. Escrow!Open(c)
          BY <2>1, <5>2, <5>3 DEF Escrow!Open
        <5> QED
          BY <5>4 DEF Escrow!Next, Rooms
      <4>2. CASE run[c] # "none"
        <5>1. Status' = Status
          BY <2>1, <3>2, <4>2 DEF Status, TypeOK
        <5> QED
          BY <2>1, <5>1 DEF Escrow!escrowVars
      <4> QED
        BY <4>1, <4>2
    <3> QED
      BY <3>1, <3>2, LifeStep
  <2>2. ASSUME NEW r \in Rooms, NEW amount \in [Users -> Nat], Settlement(r, amount)
        PROVE  [Escrow!Next]_(Escrow!escrowVars)
    <3>1. PICK landed :
            /\ betPaid' = [betPaid EXCEPT ![r] = TRUE]
            /\ paid' = [paid EXCEPT ![r] =
                          [u \in Users |-> @[u] + (IF u \in landed THEN amount[u] ELSE 0)]]
      BY <2>2, SettleEffect DEF Settlement
    <3> DEFINE award == [u \in Users |-> IF u \in landed THEN amount[u] ELSE 0]
    <3>2. run[r] # "none" /\ ~betPaid[r] /\ Escrow!Award(r, amount)
      BY <2>2 DEF Settlement, Unsettled
    <3>3. paid[r] = Nothing
      BY <3>2 DEF MoneyInv
    <3>4. paid' = [paid EXCEPT ![r] = award]
      <4>1. [u \in Users |-> paid[r][u] + (IF u \in landed THEN amount[u] ELSE 0)] = award
        BY <3>3 DEF Nothing
      <4> QED
        BY <3>1, <4>1
    <3>5. Escrow!Award(r, award)
      BY <3>2, BetType DEF Escrow!Award, Rooms
    <3>6. betPaid'[r] # betPaid[r]
      BY <3>1, <3>2 DEF TypeOK
    <3>7. \A q \in Rooms : run'[q] = "none" <=> run[q] = "none"
      BY <3>6, LifeStep
    <3>8. Status[r] = "open"
      BY <3>2 DEF Status
    <3>9. Status' = [Status EXCEPT ![r] = "settled"]
      BY <3>1, <3>2, <3>7 DEF Status, TypeOK
    <3>10. Escrow!Settle(r)
      <4>1. award \in [Users -> 0 .. 2 * [q \in Conns |-> Bet(q)][r]]
        BY <3>5 DEF Escrow!Award
      <4> HIDE DEF award
      <4> QED
        BY <3>4, <3>5, <3>8, <3>9, <4>1 DEF Escrow!Settle
    <3> QED
      BY <3>10 DEF Escrow!Next, Rooms
  <2> QED
    BY <2>1, <2>2, SettleStep
<1> QED
  BY <1>1, <1>2, HubInvariant, PTL DEF Spec, EscrowSpec, Escrow!Spec
-----------------------------------------------------------------------------
(* When each user connects once, a user is a connection: whoever staked in  *)
(* a room is there through the connection that is assigned to it.           *)

Assigned == {"registering", "live", "dropped"}
Awaited == {"registering", "live"}
Playing == {"top", "select"}

\* Everybody in a room sits there and asked for its game and bet, and whoever
\* waits in a slot created a room for that key and is still alone in it.
AlikeInv ==
  /\ \A c \in Conns : pc[c] \in Assigned => room[c] # NoConn
  /\ \A c \in Conns : room[c] # NoConn =>
       /\ run[room[c]] # "none"
       /\ KeyOf[c] = KeyOf[room[c]]
       /\ c = room[c] \/ second[room[c]] = UserOf[c]
  /\ \A r \in Rooms : second[r] # First(r)
  /\ \A r \in Rooms, u \in Users : clients[r][u] # NoConn =>
       UserOf[clients[r][u]] = u /\ room[clients[r][u]] = r
  /\ \A k \in Keys : waitingByKey[k] # NoConn =>
       /\ room[waitingByKey[k]] = waitingByKey[k]
       /\ KeyOf[waitingByKey[k]] = k
       /\ second[waitingByKey[k]] = NoUser

\* A cell of a table after one of them is set.
LEMMA UpdateTableAt ==
  ASSUME NEW R, NEW S, NEW T, NEW f \in [R -> [S -> T]], NEW r \in R, NEW x, NEW y,
         NEW q \in R, NEW z \in S
  PROVE  [f EXCEPT ![r][x] = y][q][z] = IF q = r /\ z = x THEN y ELSE f[q][z]
  OBVIOUS

\* No step unstarts a room.
LEMMA RoomsRun ==
  ASSUME TypeOK, MoneyInv, [Next]_vars
  PROVE  \A r \in Rooms : run[r] # "none" => run'[r] # "none"
  BY LifeStep DEF TypeOK

LEMMA RoomOfStaker ==
  ASSUME OneConnection, TypeOK, NEW c \in Conns, NEW r, Staker(room, r, UserOf[c])
  PROVE  room[c] = r
  BY DEF OneConnection, Staker

\* A step that assigns nobody, seats nobody and fills no slot.
LEMMA AlikeStays ==
  ASSUME TypeOK, TypeOK', AlikeInv, UNCHANGED <<room, second>>,
         \A c \in Conns : pc'[c] \in Assigned => pc[c] \in Assigned,
         \A r \in Rooms : run[r] # "none" => run'[r] # "none",
         \A r \in Rooms, u \in Users : clients'[r][u] # NoConn =>
           UserOf[clients'[r][u]] = u /\ room[clients'[r][u]] = r,
         \A k \in Keys : waitingByKey'[k] \in {waitingByKey[k], NoConn}
  PROVE  AlikeInv'
  <1>1. /\ \A c \in Conns : pc'[c] \in Assigned => room'[c] # NoConn
        /\ \A r \in Rooms : second'[r] # First(r)
    BY DEF AlikeInv
  <1>2. \A c \in Conns : room'[c] # NoConn =>
          /\ run'[room'[c]] # "none"
          /\ KeyOf[c] = KeyOf[room'[c]]
          /\ c = room'[c] \/ second'[room'[c]] = UserOf[c]
    BY DEF AlikeInv, TypeOK
  <1>3. \A r \in Rooms, u \in Users : clients'[r][u] # NoConn =>
          UserOf[clients'[r][u]] = u /\ room'[clients'[r][u]] = r
    OBVIOUS
  <1>4. \A k \in Keys : waitingByKey'[k] # NoConn =>
          /\ room'[waitingByKey'[k]] = waitingByKey'[k]
          /\ KeyOf[waitingByKey'[k]] = k
          /\ second'[waitingByKey'[k]] = NoUser
    BY DEF AlikeInv
  <1> QED
    BY <1>1, <1>2, <1>3, <1>4 DEF AlikeInv, First

\* The slots a connection looks at are those that are there.
LEMMA SlotsSeen ==
  ASSUME NEW k \in Keys
  PROVE  /\ \A u : SlotsWithout(u)[k] \in {waitingByKey[k], NoConn}
         /\ \A c : SlotsSeenBy(c)[k] \in {waitingByKey[k], NoConn}
  <1>1. \A u : SlotsWithout(u)[k] \in {waitingByKey[k], NoConn}
    BY DEF SlotsWithout
  <1> QED
    BY <1>1 DEF SlotsSeenBy

\* The connection c sits down opposite the creator of r, who is alone there.
JoinsAt(c, r) ==
  /\ r \in rooms /\ KeyOf[r] = KeyOf[c] /\ room[r] = r /\ r # c
  /\ UserOf[c] # First(r) /\ second[r] = NoUser
  /\ second' = [second EXCEPT ![r] = UserOf[c]]
  /\ clients' = [clients EXCEPT ![r][UserOf[c]] = c]
  /\ userRoom' = [userRoom EXCEPT ![UserOf[c]] = r]
  /\ room' = [room EXCEPT ![c] = r]
  /\ pc' = [pc EXCEPT ![c] = "registering"]
  /\ \A k \in Keys : waitingByKey'[k] \in {waitingByKey[k], NoConn}
  /\ waitingByKey'[KeyOf[c]] = NoConn
  /\ clients[r][First(r)] # NoConn
  /\ \/ verdict' = verdict
     \/ KeyOf[r].game = "rps" /\ verdict' = [verdict EXCEPT ![r] = UserOf[c]]

\* Whoever is joined created the room he waits in.
LEMMA JoinEffect ==
  ASSUME OneConnection, TypeOK, AssignInv, SeatInv, AlikeInv, NEW c \in Conns, JoinRoom(c)
  PROVE  \E r \in Rooms : JoinsAt(c, r)
  <1> DEFINE w == SlotsSeenBy(c)[KeyOf[c]]
             r == userRoom[UserOf[w]]
  <1>1. KeyOf[c] \in Keys /\ UserOf[c] \in Users
    BY HubAssumption
  <1>2. w # NoConn /\ w = waitingByKey[KeyOf[c]] /\ w \in Conns
    BY <1>1, SlotsSeen DEF JoinRoom, Joinable, TypeOK
  <1>3. room[w] = w /\ KeyOf[w] = KeyOf[c] /\ second[w] = NoUser
    BY <1>1, <1>2 DEF AlikeInv
  <1>4. r \in rooms /\ r \in Rooms /\ UserOf[w] # UserOf[c] /\ UserOf[w] \in Users
    BY <1>2, HubAssumption DEF JoinRoom, Joinable, TypeOK
  <1>5. r = w
    <2>1. r # NoConn
      BY <1>4, HubAssumption DEF Rooms
    <2>2. Staker(room, r, UserOf[w])
      BY <1>4, <2>1 DEF SeatInv
    <2> QED
      BY <1>2, <1>3, <2>2, RoomOfStaker
  <1>6. /\ second' = [second EXCEPT ![r] = UserOf[c]]
        /\ clients' = [clients EXCEPT ![r][UserOf[c]] = c]
        /\ userRoom' = [userRoom EXCEPT ![UserOf[c]] = r]
        /\ room' = [room EXCEPT ![c] = r]
        /\ pc' = [pc EXCEPT ![c] = "registering"]
        /\ waitingByKey' = [SlotsSeenBy(c) EXCEPT ![KeyOf[c]] = NoConn]
    BY DEF JoinRoom, SetSecondPlayer
  <1>7. /\ \A k \in Keys : waitingByKey'[k] \in {waitingByKey[k], NoConn}
        /\ waitingByKey'[KeyOf[c]] = NoConn
    <2>1. SlotsSeenBy(c) \in [Keys -> Conns \cup {NoConn}]
      BY SlotsType
    <2> QED
      BY <1>1, <1>6, <2>1, SlotsSeen
  <1>8. clients[r][UserOf[w]] # NoConn
    BY DEF JoinRoom, Joinable
  <1>9. \/ verdict' = verdict
        \/ KeyOf[r].game = "rps" /\ verdict' = [verdict EXCEPT ![r] = UserOf[c]]
    BY DEF JoinRoom
  <1> HIDE DEF w, r
  <1>10. clients[r][First(r)] # NoConn
    BY <1>5, <1>8 DEF First
  <1> QED
    BY <1>3, <1>4, <1>5, <1>6, <1>7, <1>9, <1>10 DEF First, JoinsAt

LEMMA JoinAlike ==
  ASSUME OneConnection, TypeOK, TypeOK', AssignInv, SeatInv, AlikeInv, NEW c \in Conns, JoinRoom(c),
         \A q \in Rooms : run[q] # "none" => run'[q] # "none"
  PROVE  AlikeInv'
  <1> DEFINE u == UserOf[c]
  <1>0. PICK r \in Rooms : JoinsAt(c, r)
    BY JoinEffect
  <1>1. /\ r \in rooms /\ KeyOf[r] = KeyOf[c] /\ room[r] = r /\ r # c
        /\ u # First(r) /\ second[r] = NoUser
        /\ second' = [second EXCEPT ![r] = u]
        /\ clients' = [clients EXCEPT ![r][u] = c]
        /\ userRoom' = [userRoom EXCEPT ![u] = r]
        /\ room' = [room EXCEPT ![c] = r]
        /\ pc' = [pc EXCEPT ![c] = "registering"]
        /\ \A k \in Keys : waitingByKey'[k] \in {waitingByKey[k], NoConn}
        /\ waitingByKey'[KeyOf[c]] = NoConn
    BY <1>0 DEF JoinsAt
  <1>2. room[c] = NoConn /\ u \in Users
    BY HubAssumption DEF JoinRoom, AssignInv
  <1>3. /\ room'[c] = r /\ \A d \in Conns : d # c => room'[d] = room[d] /\ pc'[d] = pc[d]
        /\ second'[r] = u /\ \A q \in Rooms : q # r => second'[q] = second[q]
    BY <1>1 DEF TypeOK
  <1>4. \A q \in Rooms, v \in Users :
          clients'[q][v] = IF q = r /\ v = u THEN c ELSE clients[q][v]
    <2>1. clients \in [Rooms -> [Users -> Conns \cup {NoConn}]]
      BY DEF TypeOK
    <2>2. clients' = [clients EXCEPT ![r][u] = c]
      BY <1>1
    <2> HIDE DEF u
    <2> QED
      BY ONLY <2>1, <2>2, r \in Rooms, UpdateTableAt
  <1> HIDE DEF u
  <1>5. \A d \in Conns : pc'[d] \in Assigned => room'[d] # NoConn
    BY <1>3, HubAssumption DEF AlikeInv, Rooms
  <1>6. \A q \in Rooms : second'[q] # First(q)
    BY <1>1, <1>3 DEF AlikeInv
  <1>7. ASSUME NEW d \in Conns, room'[d] # NoConn
        PROVE  /\ run'[room'[d]] # "none"
               /\ KeyOf[d] = KeyOf[room'[d]]
               /\ d = room'[d] \/ second'[room'[d]] = UserOf[d]
    <2>1. CASE d = c
      <3>1. run[room[r]] # "none"
        BY <1>1, HubAssumption DEF AlikeInv, Rooms
      <3> QED
        BY <1>1, <1>3, <2>1, <3>1 DEF u
    <2>2. CASE d # c
      <3>1. room'[d] = room[d] /\ room[d] \in Rooms
        BY <1>3, <1>7, <2>2 DEF TypeOK
      <3>2. /\ run[room[d]] # "none" /\ KeyOf[d] = KeyOf[room[d]]
            /\ d = room[d] \/ second[room[d]] = UserOf[d]
        BY <1>7, <3>1 DEF AlikeInv
      <3>3. UserOf[d] # NoUser
        BY HubAssumption
      <3> QED
        BY <1>1, <1>3, <3>1, <3>2, <3>3
    <2> QED
      BY <2>1, <2>2
  <1>8. ASSUME NEW q \in Rooms, NEW v \in Users, clients'[q][v] # NoConn
        PROVE  UserOf[clients'[q][v]] = v /\ room'[clients'[q][v]] = q
    <2>1. CASE q = r /\ v = u
      BY <1>3, <1>4, <2>1 DEF u
    <2>2. CASE ~(q = r /\ v = u)
      <3> DEFINE d == clients[q][v]
      <3>1. clients'[q][v] = d
        BY <1>4, <2>2
      <3>2. d \in Conns /\ d # NoConn
        BY <1>8, <3>1 DEF TypeOK
      <3>3. UserOf[d] = v /\ room[d] = q
        BY <3>2 DEF AlikeInv
      <3>4. d # c
        BY <1>2, <3>3, HubAssumption DEF Rooms
      <3> HIDE DEF d
      <3> QED
        BY <1>3, <3>1, <3>2, <3>3, <3>4
    <2> QED
      BY <2>1, <2>2
  <1>9. ASSUME NEW k \in Keys, waitingByKey'[k] # NoConn
        PROVE  /\ room'[waitingByKey'[k]] = waitingByKey'[k]
               /\ KeyOf[waitingByKey'[k]] = k
               /\ second'[waitingByKey'[k]] = NoUser
    <2> DEFINE d == waitingByKey[k]
    <2>1. waitingByKey'[k] = d /\ d # NoConn /\ d \in Conns /\ k # KeyOf[c]
      BY <1>1, <1>9 DEF TypeOK
    <2>2. room[d] = d /\ KeyOf[d] = k /\ second[d] = NoUser
      BY <2>1 DEF AlikeInv
    <2>3. d # c /\ d # r
      BY <1>1, <1>2, <2>1, <2>2
    <2> HIDE DEF d
    <2> QED
      BY <1>3, <2>1, <2>2, <2>3 DEF Rooms
  <1> QED
    BY <1>5, <1>6, <1>7, <1>8, <1>9 DEF AlikeInv, First

LEMMA CreateAlike ==
  ASSUME TypeOK, TypeOK', AssignInv, SeatInv, AlikeInv, NEW c \in Conns, CreateRoom(c),
         \A q \in Rooms : run[q] # "none" => run'[q] # "none"
  PROVE  AlikeInv'
  <1> DEFINE u == UserOf[c]
  <1>1. /\ c \in Rooms /\ u \in Users /\ KeyOf[c] \in Keys /\ room[c] = NoConn
        /\ clients' = [clients EXCEPT ![c][u] = c]
        /\ waitingByKey' = [SlotsSeenBy(c) EXCEPT ![KeyOf[c]] = c]
        /\ room' = [room EXCEPT ![c] = c]
        /\ pc' = [pc EXCEPT ![c] = "registering"]
        /\ run' = [run EXCEPT ![c] = "select"]
        /\ second' = second
    BY HubAssumption DEF CreateRoom, AssignInv, Rooms
  <1>2. /\ room'[c] = c /\ run'[c] = "select"
        /\ \A d \in Conns : d # c => room'[d] = room[d] /\ pc'[d] = pc[d]
    BY <1>1 DEF TypeOK
  <1>3. \A q \in Rooms, v \in Users :
          clients'[q][v] = IF q = c /\ v = u THEN c ELSE clients[q][v]
    <2>1. clients \in [Rooms -> [Users -> Conns \cup {NoConn}]] /\ c \in Rooms
      BY <1>1 DEF TypeOK
    <2>2. clients' = [clients EXCEPT ![c][u] = c]
      BY <1>1
    <2>3. \A q \in Rooms, v \in Users :
            [clients EXCEPT ![c][u] = c][q][v] = IF q = c /\ v = u THEN c ELSE clients[q][v]
      BY ONLY <2>1, UpdateTableAt
    <2> QED
      BY <2>2, <2>3, Zenon
  <1>4. /\ waitingByKey'[KeyOf[c]] = c
        /\ \A k \in Keys : k # KeyOf[c] => waitingByKey'[k] \in {waitingByKey[k], NoConn}
    <2>1. SlotsSeenBy(c) \in [Keys -> Conns \cup {NoConn}]
      BY SlotsType
    <2> QED
      BY <1>1, <2>1, SlotsSeen
  \* Nobody sits in a room that does not run yet.
  <1>5. second[c] = NoUser
    <2> SUFFICES ASSUME second[c] # NoUser
                 PROVE  FALSE
      OBVIOUS
    <2>1. Staker(room, c, second[c])
      BY <1>1 DEF SeatInv, TypeOK
    <2>2. PICK d \in Conns : room[d] = c
      BY <2>1 DEF Staker
    <2>3. run[c] # "none"
      BY <1>1, <2>2, HubAssumption DEF AlikeInv, Rooms
    <2>4. room[c] = c
      BY <1>1, <2>3 DEF AssignInv
    <2> QED
      BY <1>1, <2>4, HubAssumption DEF Rooms
  <1> HIDE DEF u
  <1>6. \A d \in Conns : pc'[d] \in Assigned => room'[d] # NoConn
    BY <1>2, HubAssumption DEF AlikeInv
  <1>7. ASSUME NEW d \in Conns, room'[d] # NoConn
        PROVE  /\ run'[room'[d]] # "none"
               /\ KeyOf[d] = KeyOf[room'[d]]
               /\ d = room'[d] \/ second'[room'[d]] = UserOf[d]
    <2>1. CASE d = c
      BY <1>2, <2>1
    <2>2. CASE d # c
      <3>1. room'[d] = room[d] /\ room[d] \in Rooms
        BY <1>2, <1>7, <2>2 DEF TypeOK
      <3>2. /\ run[room[d]] # "none" /\ KeyOf[d] = KeyOf[room[d]]
            /\ d = room[d] \/ second[room[d]] = UserOf[d]
        BY <1>7, <3>1 DEF AlikeInv
      <3> QED
        BY <1>1, <3>1, <3>2
    <2> QED
      BY <2>1, <2>2
  <1>8. ASSUME NEW q \in Rooms, NEW v \in Users, clients'[q][v] # NoConn
        PROVE  UserOf[clients'[q][v]] = v /\ room'[clients'[q][v]] = q
    <2>1. CASE q = c /\ v = u
      BY <1>2, <1>3, <2>1 DEF u
    <2>2. CASE ~(q = c /\ v = u)
      <3> DEFINE d == clients[q][v]
      <3>1. clients'[q][v] = d
        BY <1>3, <2>2
      <3>2. d \in Conns /\ d # NoConn
        BY <1>8, <3>1 DEF TypeOK
      <3>3. UserOf[d] = v /\ room[d] = q
        BY <3>2 DEF AlikeInv
      <3>4. d # c
        BY <1>1, <3>3, HubAssumption DEF Rooms
      <3> HIDE DEF d
      <3> QED
        BY <1>2, <3>1, <3>2, <3>3, <3>4
    <2> QED
      BY <2>1, <2>2
  <1>9. ASSUME NEW k \in Keys, waitingByKey'[k] # NoConn
        PROVE  /\ room'[waitingByKey'[k]] = waitingByKey'[k]
               /\ KeyOf[waitingByKey'[k]] = k
               /\ second'[waitingByKey'[k]] = NoUser
    <2>1. CASE k = KeyOf[c]
      BY <1>1, <1>2, <1>4, <1>5, <2>1
    <2>2. CASE k # KeyOf[c]
      <3> DEFINE d == waitingByKey[k]
      <3>1. waitingByKey'[k] = d /\ d # NoConn /\ d \in Conns
        BY <1>4, <1>9, <2>2 DEF TypeOK
      <3>2. room[d] = d /\ KeyOf[d] = k /\ second[d] = NoUser
        BY <3>1 DEF AlikeInv
      <3>3. d # c
        BY <2>2, <3>2
      <3> HIDE DEF d
      <3> QED
        BY <1>1, <1>2, <3>1, <3>2, <3>3
    <2> QED
      BY <2>1, <2>2
  <1>10. \A q \in Rooms : second'[q] # First(q)
    BY <1>1 DEF AlikeInv
  <1> QED
    BY <1>6, <1>7, <1>8, <1>9, <1>10 DEF AlikeInv, First

LEMMA AlikeStep ==
  ASSUME OneConnection, TypeOK, TypeOK', MoneyInv, AssignInv, SeatInv, AlikeInv, [Next]_vars
  PROVE  AlikeInv'
  <1>1. \A r \in Rooms : run[r] # "none" => run'[r] # "none"
    BY RoomsRun
  <1>2. ASSUME UNCHANGED <<room, second, waitingByKey>>,
               \A c \in Conns : pc'[c] \in Assigned => pc[c] \in Assigned,
               \A r \in Rooms, u \in Users : clients'[r][u] \in {clients[r][u], NoConn}
        PROVE  AlikeInv'
    <2>1. \A r \in Rooms, u \in Users : clients'[r][u] # NoConn =>
            UserOf[clients'[r][u]] = u /\ room[clients'[r][u]] = r
      BY <1>2 DEF AlikeInv
    <2>2. \A k \in Keys : waitingByKey'[k] \in {waitingByKey[k], NoConn}
      BY <1>2
    <2> QED
      BY <1>1, <1>2, <2>1, <2>2, AlikeStays
  <1>3. ASSUME NEW c \in Conns, Reserve(c) PROVE AlikeInv'
    BY <1>2, <1>3 DEF Reserve, TypeOK, Assigned, hubVars, seatVars
  <1>4. ASSUME NEW c \in Conns, UpgradeFails(c) PROVE AlikeInv'
    BY <1>2, <1>4 DEF UpgradeFails, TypeOK, Assigned, hubVars, seatVars
  <1>5. ASSUME NEW c \in Conns, SendRegister(c) PROVE AlikeInv'
    BY <1>2, <1>5 DEF SendRegister, TypeOK, Assigned, hubVars, seatVars
  <1>6. ASSUME NEW c \in Conns, VanishEarly(c) PROVE AlikeInv'
    BY <1>2, <1>6 DEF VanishEarly, hubVars, seatVars
  <1>7. ASSUME NEW c \in Conns, CompleteSetup(c) PROVE AlikeInv'
    BY <1>2, <1>7 DEF CompleteSetup, hubVars, connVars, seatVars
  <1>8. ASSUME NEW c \in Conns, OverwriteMove(c) PROVE AlikeInv'
    BY <1>2, <1>8 DEF OverwriteMove, hubVars, connVars, seatVars
  <1>9. ASSUME NEW r \in Rooms, SetupTimeout(r) PROVE AlikeInv'
    BY <1>2, <1>9 DEF SetupTimeout, hubVars, connVars, seatVars
  <1>10. ASSUME NEW r \in Rooms, CancelNoOpponent(r) PROVE AlikeInv'
    BY <1>2, <1>10 DEF CancelNoOpponent, hubVars, connVars, seatVars
  <1>11. ASSUME NEW r \in Rooms, SaveResult(r) PROVE AlikeInv'
    BY <1>2, <1>11 DEF SaveResult, hubVars, connVars, seatVars
  <1>12. ASSUME NEW r \in Rooms, FinishGame(r) PROVE AlikeInv'
    BY <1>2, <1>12 DEF FinishGame, hubVars, connVars, seatVars
  <1>13. ASSUME NEW r \in Rooms, CancelCleanup(r) PROVE AlikeInv'
    BY <1>2, <1>13 DEF CancelCleanup, CollectClients, Cleanup, hubVars, connVars
  <1>14. ASSUME NEW r \in Rooms, RunCleanup(r) PROVE AlikeInv'
    BY <1>2, <1>14 DEF RunCleanup, CollectClients, Cleanup, hubVars, connVars
  <1>15. ASSUME NEW r \in Rooms, CleanupStaleRoom(r) PROVE AlikeInv'
    BY <1>2, <1>15 DEF CleanupStaleRoom, connVars, seatVars
  <1>16. CASE UNCHANGED vars
    BY <1>2, <1>16 DEF vars, hubVars, connVars, seatVars
  <1>17. ASSUME NEW c \in Conns, JoinRoom(c) PROVE AlikeInv'
    BY <1>1, <1>17, JoinAlike
  <1>18. ASSUME NEW c \in Conns, CreateRoom(c) PROVE AlikeInv'
    BY <1>1, <1>18, CreateAlike
  <1>19. ASSUME NEW c \in Conns, Disconnect(c) PROVE AlikeInv'
    <2>1. /\ UNCHANGED <<room, second, clients, pc>>
          /\ waitingByKey' = SlotsWithout(UserOf[c])
      BY <1>19 DEF Disconnect, seatVars
    <2>2. \A k \in Keys : waitingByKey'[k] \in {waitingByKey[k], NoConn}
      BY <2>1, SlotsSeen
    <2>3. \A r \in Rooms, u \in Users : clients'[r][u] # NoConn =>
            UserOf[clients'[r][u]] = u /\ room[clients'[r][u]] = r
      BY <2>1 DEF AlikeInv
    <2> QED
      BY <1>1, <2>1, <2>2, <2>3, AlikeStays
  <1>20. ASSUME NEW r \in Rooms, HandleRegister(r) PROVE AlikeInv'
    <2> DEFINE c == Head(registerQ[r])
    <2>1. /\ clients' = [clients EXCEPT ![r] = [clients[r] EXCEPT ![UserOf[c]] = c]]
          /\ UNCHANGED <<room, second, pc, waitingByKey>>
      BY <1>20 DEF HandleRegister, hubVars, connVars
    <2>2. c \in Conns /\ room[c] = r
      BY <1>20 DEF HandleRegister, SeatInv, TypeOK
    <2> HIDE DEF c
    <2>3. \A q \in Rooms, u \in Users :
            clients'[q][u] = IF q = r /\ u = UserOf[c] THEN c ELSE clients[q][u]
      <3>1. clients \in [Rooms -> [Users -> Conns \cup {NoConn}]]
        BY DEF TypeOK
      <3> QED
        BY ONLY <2>1, <3>1, r \in Rooms
    <2>4. \A q \in Rooms, u \in Users : clients'[q][u] # NoConn =>
            UserOf[clients'[q][u]] = u /\ room[clients'[q][u]] = q
      BY <2>2, <2>3 DEF AlikeInv
    <2>5. \A k \in Keys : waitingByKey'[k] \in {waitingByKey[k], NoConn}
      BY <2>1
    <2> QED
      BY <1>1, <2>1, <2>4, <2>5, AlikeStays
  <1>21. ASSUME NEW r \in Rooms, HandleDisconnect(r) PROVE AlikeInv'
    <2> DEFINE u == UserOf[Head(disconnectQ[r])]
    <2>1. /\ clients' = [clients EXCEPT ![r][u] = NoConn]
          /\ UNCHANGED <<room, second, pc, waitingByKey>>
      BY <1>21 DEF HandleDisconnect, hubVars, connVars
    <2> HIDE DEF u
    <2>2. \A q \in Rooms, v \in Users : clients'[q][v] \in {clients[q][v], NoConn}
      BY <2>1 DEF TypeOK
    <2> QED
      BY <1>2, <2>1, <2>2
  <1>22. ASSUME NEW k \in Keys, CleanupStaleWaiting(k) PROVE AlikeInv'
    <2> DEFINE u == UserOf[waitingByKey[k]]
               r == userRoom[u]
    <2>1. /\ waitingByKey' = [waitingByKey EXCEPT ![k] = NoConn]
          /\ \/ clients' = [clients EXCEPT ![r][u] = NoConn]
             \/ clients' = clients
          /\ UNCHANGED <<room, second, pc>>
      BY <1>22 DEF CleanupStaleWaiting, connVars
    <2> HIDE DEF u, r
    <2>2. \A q \in Rooms, v \in Users : clients'[q][v] \in {clients[q][v], NoConn}
      <3>1. clients \in [Rooms -> [Users -> Conns \cup {NoConn}]]
        BY DEF TypeOK
      <3>2. \A q \in Rooms, v \in Users :
              [clients EXCEPT ![r][u] = NoConn][q][v] \in {clients[q][v], NoConn}
        BY ONLY <3>1, UpdateTableValue
      <3> QED
        BY <2>1, <3>2
    <2>3. \A q \in Rooms, v \in Users : clients'[q][v] # NoConn =>
            UserOf[clients'[q][v]] = v /\ room[clients'[q][v]] = q
      BY <2>2 DEF AlikeInv
    <2>4. \A j \in Keys : waitingByKey'[j] \in {waitingByKey[j], NoConn}
      BY <2>1 DEF TypeOK
    <2> QED
      BY <1>1, <2>1, <2>3, <2>4, AlikeStays
  <1> QED
    BY <1>3, <1>4, <1>5, <1>6, <1>7, <1>8, <1>9, <1>10, <1>11, <1>12, <1>13, <1>14, <1>15, <1>16,
       <1>17, <1>18, <1>19, <1>20, <1>21, <1>22 DEF Next, ConnStep, SetupStep, RunStep

-----------------------------------------------------------------------------
(* Who can still forfeit.                                                  *)

Waits(c) == pc[c] \in Awaited /\ ~gone[c]

\* His room is run, and its stakes are not settled.
Open(c) == Unsettled(room[c]) /\ run[room[c]] \in Playing

\* A player who is still there is a client of his room, and while its stakes
\* are open the hub knows his room: only one who is gone is disconnected, or
\* dropped from the waiting slots, and only a settled game is cancelled.
ReachInv ==
  /\ \A r \in Rooms : \A i \in 1 .. Len(disconnectQ[r]) : gone[disconnectQ[r][i]]
  /\ \A r \in Rooms : setupTimer[r] \in {"cleaning", "forgetting"} => ~Unsettled(r)
  /\ \A c \in Conns : Waits(c) => clients[room[c]][UserOf[c]] = c
  /\ \A c \in Conns : Waits(c) /\ Open(c) =>
       userRoom[UserOf[c]] = room[c] /\ room[c] \in rooms

\* A settlement is for good.
LEMMA SettledStays ==
  ASSUME TypeOK, MoneyInv, AssignInv, SeatInv, [Next]_vars
  PROVE  \A r \in Rooms : Unsettled(r)' => Unsettled(r)
  <1>1. CASE UNCHANGED <<betPaid, paid>>
    BY <1>1 DEF Unsettled, Bet
  <1>2. ASSUME NEW r \in Rooms, NEW amount \in [Users -> Nat], Settlement(r, amount)
        PROVE  \A q \in Rooms : Unsettled(q)' => Unsettled(q)
    <2>1. betPaid' = [betPaid EXCEPT ![r] = TRUE]
      BY <1>2, SettleEffect DEF Settlement
    <2> QED
      BY <2>1 DEF Unsettled, Bet, TypeOK
  <1> QED
    BY <1>1, <1>2, SettleStep

\* A connection that waits is in a room, and so was it before the step.
LEMMA WaitsInRoom ==
  ASSUME TypeOK, AlikeInv, NEW c \in Conns, Waits(c)
  PROVE  room[c] \in Rooms
  BY DEF TypeOK, AlikeInv, Waits, Awaited, Assigned

\* A step that takes nobody who is there away from his room or from the hub.
LEMMA ReachStays ==
  ASSUME TypeOK, AlikeInv, ReachInv,
         UNCHANGED room,
         \A c \in Conns : Waits(c)' => Waits(c),
         \A r \in Rooms : Unsettled(r)' => Unsettled(r),
         \A r \in Rooms : run'[r] \in Playing => run[r] \in Playing,
         \A r \in Rooms : setupTimer'[r] \in {"cleaning", "forgetting"} => setupTimer[r] \in {"cleaning", "forgetting"} \/ ~Unsettled(r)',
         \A r \in Rooms : \A i \in 1 .. Len(disconnectQ'[r]) : gone'[disconnectQ'[r][i]],
         \A c \in Conns : Waits(c)' => clients'[room[c]][UserOf[c]] \in {clients[room[c]][UserOf[c]], c},
         \A c \in Conns : Waits(c)' /\ Open(c) /\ userRoom[UserOf[c]] = room[c] /\ room[c] \in rooms =>
                          userRoom'[UserOf[c]] = room[c] /\ room[c] \in rooms'
  PROVE  ReachInv'
  <1>1. \A r \in Rooms : setupTimer'[r] \in {"cleaning", "forgetting"} => ~Unsettled(r)'
    BY DEF ReachInv
  <1>2. \A c \in Conns : Waits(c)' => clients'[room'[c]][UserOf[c]] = c
    BY DEF ReachInv
  <1>3. ASSUME NEW c \in Conns, Waits(c)', Open(c)'
        PROVE  userRoom'[UserOf[c]] = room'[c] /\ room'[c] \in rooms'
    <2>1. Waits(c) /\ room'[c] = room[c]
      BY <1>3
    <2>2. PICK r \in Rooms : r = room[c]
      BY <2>1, WaitsInRoom
    <2>3. Unsettled(r)' /\ run'[r] \in Playing
      BY <1>3, <2>1, <2>2 DEF Open, Unsettled, Bet
    <2>4. Unsettled(r) /\ run[r] \in Playing
      BY <2>3
    <2>5. Open(c)
      BY <2>2, <2>4 DEF Open
    <2> QED
      BY <1>3, <2>1, <2>5 DEF ReachInv
  <1> QED
    BY <1>1, <1>2, <1>3 DEF ReachInv

\* What nearly every step leaves as it is: the queue of the disconnected, and
\* who waits.
LEMMA ReachKept ==
  ASSUME TypeOK, AlikeInv, ReachInv,
         UNCHANGED <<room, disconnectQ, clients, userRoom, rooms>>,
         \A r \in Rooms : Unsettled(r)' => Unsettled(r),
         \A c \in Conns : pc'[c] \in Awaited => pc[c] \in Awaited,
         \A c \in Conns : gone[c] => gone'[c],
         \A r \in Rooms : run'[r] \in Playing => run[r] \in Playing,
         \A r \in Rooms : setupTimer'[r] \in {"cleaning", "forgetting"} => setupTimer[r] \in {"cleaning", "forgetting"} \/ ~Unsettled(r)'
  PROVE  ReachInv'
  <1>1. \A c \in Conns : Waits(c)' => Waits(c)
    BY DEF Waits
  <1>2. \A r \in Rooms : \A i \in 1 .. Len(disconnectQ'[r]) : gone'[disconnectQ'[r][i]]
    BY DEF ReachInv, TypeOK
  <1>3. \A c \in Conns : Waits(c)' =>
          clients'[room[c]][UserOf[c]] \in {clients[room[c]][UserOf[c]], c}
    OBVIOUS
  <1> QED
    BY <1>1, <1>2, <1>3, ReachStays

\* Everybody a cleanup has noted staked in its room.
LeavingInv ==
  \A r \in Rooms, g \in Cleaners : \A u \in leaving[r][g] : Staker(room, r, u)

\* Who is in a room that runs staked in it.
LEMMA HereStaked ==
  ASSUME AssignInv, SeatInv, NEW r \in Rooms, run[r] # "none", NEW u \in Users,
         u = First(r) \/ u = second[r] \/ clients[r][u] # NoConn
  PROVE  Staker(room, r, u)
  <1>1. Staker(room, r, First(r))
    BY DEF AssignInv, Staker, First, Rooms
  <1> QED
    BY <1>1 DEF SeatInv

\* A cleanup notes only users who staked in its room.
LEMMA Collected ==
  ASSUME TypeOK, AssignInv, SeatInv, NEW r \in Rooms, NEW g \in Cleaners, run[r] # "none",
         CollectClients(r, g)
  PROVE  \A q \in Rooms, h \in Cleaners : \A u \in leaving'[q][h] :
           u \in leaving[q][h] \/ Staker(room, q, u)
  <1> DEFINE here == {u \in Users : u = First(r) \/ u = second[r] \/ clients[r][u] # NoConn}
  <1>1. \A u \in here : Staker(room, r, u)
    BY HereStaked
  <1>2. leaving' = [leaving EXCEPT ![r][g] = here]
    BY DEF CollectClients
  <1>3. leaving \in [Rooms -> [Cleaners -> SUBSET Users]]
    BY DEF TypeOK
  <1> HIDE DEF here
  <1>4. \A q \in Rooms, h \in Cleaners :
          leaving'[q][h] = IF q = r /\ h = g THEN here ELSE leaving[q][h]
    BY ONLY <1>2, <1>3, r \in Rooms, UpdateTableAt
  <1> QED
    BY <1>1, <1>4

\* A finished cleanup forgets whom it noted.
LEMMA Forgotten ==
  ASSUME TypeOK, NEW r \in Rooms, NEW g \in Cleaners, Cleanup(r, g)
  PROVE  \A q \in Rooms, h \in Cleaners : leaving'[q][h] \subseteq leaving[q][h]
  <1>1. leaving \in [Rooms -> [Cleaners -> SUBSET Users]] /\ leaving' = [leaving EXCEPT ![r][g] = {}]
    BY DEF TypeOK, Cleanup
  <1>2. \A q \in Rooms, h \in Cleaners :
          leaving'[q][h] = IF q = r /\ h = g THEN {} ELSE leaving[q][h]
    BY ONLY <1>1, r \in Rooms, UpdateTableAt
  <1> QED
    BY <1>2

LEMMA LeavingStep ==
  ASSUME TypeOK, TypeOK', MoneyInv, AssignInv, SeatInv, LeavingInv, [Next]_vars
  PROVE  LeavingInv'
  <1> DEFINE Noted == \A q \in Rooms, h \in Cleaners : \A u \in leaving'[q][h] :
                        u \in leaving[q][h] \/ Staker(room, q, u)
  <1>1. ASSUME NEW c \in Conns, Reserve(c) PROVE Noted
    BY <1>1 DEF Reserve, seatVars
  <1>2. ASSUME NEW c \in Conns, UpgradeFails(c) PROVE Noted
    BY <1>2 DEF UpgradeFails, seatVars
  <1>3. ASSUME NEW c \in Conns, JoinRoom(c) PROVE Noted
    BY <1>3 DEF JoinRoom, seatVars
  <1>4. ASSUME NEW c \in Conns, CreateRoom(c) PROVE Noted
    BY <1>4 DEF CreateRoom, seatVars
  <1>5. ASSUME NEW c \in Conns, SendRegister(c) PROVE Noted
    BY <1>5 DEF SendRegister, seatVars
  <1>6. ASSUME NEW c \in Conns, VanishEarly(c) PROVE Noted
    BY <1>6 DEF VanishEarly, seatVars
  <1>7. ASSUME NEW c \in Conns, Disconnect(c) PROVE Noted
    BY <1>7 DEF Disconnect, seatVars
  <1>8. ASSUME NEW c \in Conns, CompleteSetup(c) PROVE Noted
    BY <1>8 DEF CompleteSetup, seatVars
  <1>9. ASSUME NEW c \in Conns, OverwriteMove(c) PROVE Noted
    BY <1>9 DEF OverwriteMove, seatVars
  <1>10. ASSUME NEW r \in Rooms, SetupTimeout(r) PROVE Noted
    BY <1>10 DEF SetupTimeout, seatVars
  <1>11. ASSUME NEW r \in Rooms, CancelNoOpponent(r) PROVE Noted
    BY <1>11 DEF CancelNoOpponent, seatVars
  <1>12. ASSUME NEW r \in Rooms, HandleRegister(r) PROVE Noted
    BY <1>12 DEF HandleRegister, seatVars
  <1>13. ASSUME NEW r \in Rooms, HandleDisconnect(r) PROVE Noted
    BY <1>13 DEF HandleDisconnect, seatVars
  <1>14. ASSUME NEW r \in Rooms, SaveResult(r) PROVE Noted
    BY <1>14 DEF SaveResult, seatVars
  <1>15. ASSUME NEW r \in Rooms, FinishGame(r) PROVE Noted
    BY <1>15 DEF FinishGame, seatVars
  <1>16. ASSUME NEW r \in Rooms, CleanupStaleRoom(r) PROVE Noted
    BY <1>16 DEF CleanupStaleRoom, seatVars
  <1>17. ASSUME NEW r \in Rooms, CancelCleanup(r) PROVE Noted
    <2>1. run[r] # "none" /\ "setup" \in Cleaners
      BY <1>17 DEF CancelCleanup, MoneyInv, Cleaners
    <2>2. CASE CollectClients(r, "setup")
      BY <2>1, <2>2, Collected
    <2>3. CASE Cleanup(r, "setup")
      BY <2>1, <2>3, Forgotten
    <2> QED
      BY <1>17, <2>2, <2>3 DEF CancelCleanup
  <1>18. ASSUME NEW r \in Rooms, RunCleanup(r) PROVE Noted
    <2>1. run[r] # "none" /\ "run" \in Cleaners
      BY <1>18 DEF RunCleanup, MoneyInv, Cleaners
    <2>2. CASE CollectClients(r, "run")
      BY <2>1, <2>2, Collected
    <2>3. CASE Cleanup(r, "run")
      BY <2>1, <2>3, Forgotten
    <2> QED
      BY <1>18, <2>2, <2>3 DEF RunCleanup
  <1>19. ASSUME NEW k \in Keys, CleanupStaleWaiting(k) PROVE Noted
    BY <1>19 DEF CleanupStaleWaiting
  <1>20. ASSUME UNCHANGED vars PROVE Noted
    <2>1. leaving' = leaving
      BY <1>20 DEF vars, seatVars
    <2> QED
      BY <2>1
  <1> HIDE DEF Noted
  <1>21. Noted
    BY <1>1, <1>2, <1>3, <1>4, <1>5, <1>6, <1>7, <1>8, <1>9, <1>10, <1>11, <1>12, <1>13, <1>14, <1>15, <1>16, <1>17, <1>18, <1>19, <1>20 DEF Next, ConnStep, SetupStep, RunStep
  <1>22. \A q \in Rooms, h \in Cleaners : leaving'[q][h] \subseteq Users
    BY DEF TypeOK
  <1>23. \A q \in Rooms, u \in Users : Staker(room, q, u) => Staker(room', q, u)
    BY RoomStep
  <1> QED
    BY <1>21, <1>22, <1>23 DEF Noted, LeavingInv

\* The cleanup of a room that is settled, or no longer run.
LEMMA CleanupReach ==
  ASSUME OneConnection, TypeOK, AlikeInv, ReachInv, LeavingInv, NEW r \in Rooms,
         NEW g \in Cleaners, Cleanup(r, g), ~Unsettled(r) \/ run[r] \notin Playing,
         UNCHANGED <<room, disconnectQ, clients, pc, gone>>,
         \A q \in Rooms : Unsettled(q)' => Unsettled(q),
         \A q \in Rooms : run'[q] \in Playing => run[q] \in Playing,
         \A q \in Rooms : setupTimer'[q] \in {"cleaning", "forgetting"} => setupTimer[q] \in {"cleaning", "forgetting"}
  PROVE  ReachInv'
  <1>1. ASSUME NEW c \in Conns, Waits(c), Open(c), userRoom[UserOf[c]] = room[c], room[c] \in rooms
        PROVE  userRoom'[UserOf[c]] = room[c] /\ room[c] \in rooms'
    <2>1. room[c] # r
      BY <1>1 DEF Open
    <2>2. UserOf[c] \in leaving[r][g] => room[c] = r
      BY RoomOfStaker DEF LeavingInv
    <2>3. UserOf[c] \in Users
      BY HubAssumption
    <2> QED
      BY <1>1, <2>1, <2>2, <2>3 DEF Cleanup
  <1>2. \A c \in Conns : Waits(c)' => Waits(c)
    BY DEF Waits
  <1>3. \A q \in Rooms : \A i \in 1 .. Len(disconnectQ'[q]) : gone'[disconnectQ'[q][i]]
    BY DEF ReachInv
  <1>4. \A c \in Conns : Waits(c)' =>
          clients'[room[c]][UserOf[c]] \in {clients[room[c]][UserOf[c]], c}
    OBVIOUS
  <1> QED
    BY <1>1, <1>2, <1>3, <1>4, ReachStays

LEMMA JoinReach ==
  ASSUME OneConnection, TypeOK, TypeOK', AssignInv, SeatInv, AlikeInv, ReachInv,
         NEW c \in Conns, JoinRoom(c)
  PROVE  ReachInv'
  <1> DEFINE u == UserOf[c]
  <1>0. PICK r \in Rooms : JoinsAt(c, r)
    BY JoinEffect
  <1>1. /\ r \in rooms /\ room[r] = r /\ u # First(r)
        /\ clients' = [clients EXCEPT ![r][u] = c]
        /\ userRoom' = [userRoom EXCEPT ![u] = r]
        /\ room' = [room EXCEPT ![c] = r]
        /\ pc' = [pc EXCEPT ![c] = "registering"]
    BY <1>0 DEF JoinsAt
  <1>2. /\ u \in Users
        /\ UNCHANGED <<rooms, gone, disconnectQ, setupTimer, run, betPaid>>
    BY HubAssumption DEF JoinRoom, chanVars, moneyVars
  <1>3. /\ room'[c] = r
        /\ \A d \in Conns : d # c => room'[d] = room[d] /\ (Waits(d)' <=> Waits(d))
    BY <1>1, <1>2 DEF TypeOK, Waits
  <1>4. \A q \in Rooms, v \in Users :
          clients'[q][v] = IF q = r /\ v = u THEN c ELSE clients[q][v]
    <2>1. clients \in [Rooms -> [Users -> Conns \cup {NoConn}]]
      BY DEF TypeOK
    <2>2. clients' = [clients EXCEPT ![r][u] = c]
      BY <1>1
    <2> HIDE DEF u
    <2> QED
      BY ONLY <2>1, <2>2, r \in Rooms, UpdateTableAt
  <1>5. /\ userRoom'[u] = r /\ \A v \in Users : v # u => userRoom'[v] = userRoom[v]
        /\ \A d \in Conns : d # c => UserOf[d] \in Users /\ UserOf[d] # u
    <2>1. userRoom \in [Users -> Rooms \cup {NoConn}]
      BY DEF TypeOK
    <2>2. \A d \in Conns : UserOf[d] \in Users /\ (UserOf[d] = u => d = c)
      BY HubAssumption DEF OneConnection
    <2> QED
      BY <1>1, <1>2, <2>1, <2>2
  <1>6. \A q \in Rooms : Unsettled(q)' <=> Unsettled(q)
    BY <1>2 DEF Unsettled, Bet
  <1> HIDE DEF u
  <1>7. ASSUME NEW d \in Conns, Waits(d)'
        PROVE  /\ clients'[room'[d]][UserOf[d]] = d
               /\ Open(d)' => userRoom'[UserOf[d]] = room'[d] /\ room'[d] \in rooms'
    <2>1. CASE d = c
      BY <1>1, <1>2, <1>3, <1>4, <1>5, <2>1 DEF u
    <2>2. CASE d # c
      <3>1. room'[d] = room[d] /\ Waits(d) /\ room[d] \in Rooms
        BY <1>3, <1>7, <2>2, WaitsInRoom
      <3>2. /\ clients[room[d]][UserOf[d]] = d
            /\ Open(d) => userRoom[UserOf[d]] = room[d] /\ room[d] \in rooms
        BY <3>1 DEF ReachInv
      <3>3. Open(d)' => Open(d)
        BY <1>2, <3>1 DEF Open, Unsettled, Bet
      <3> QED
        BY <1>2, <1>4, <1>5, <2>2, <3>1, <3>2, <3>3
    <2> QED
      BY <2>1, <2>2
  <1> QED
    BY <1>2, <1>6, <1>7 DEF ReachInv

LEMMA CreateReach ==
  ASSUME OneConnection, TypeOK, TypeOK', AssignInv, SeatInv, AlikeInv, ReachInv,
         NEW c \in Conns, CreateRoom(c)
  PROVE  ReachInv'
  <1> DEFINE u == UserOf[c]
  <1>1. /\ c \in Rooms /\ u \in Users /\ room[c] = NoConn
        /\ clients' = [clients EXCEPT ![c][u] = c]
        /\ userRoom' = [userRoom EXCEPT ![u] = c]
        /\ room' = [room EXCEPT ![c] = c]
        /\ pc' = [pc EXCEPT ![c] = "registering"]
        /\ run' = [run EXCEPT ![c] = "select"]
        /\ setupTimer' = [setupTimer EXCEPT ![c] = "armed"]
        /\ rooms' = rooms \cup {c}
        /\ UNCHANGED <<gone, disconnectQ, betPaid>>
    BY HubAssumption DEF CreateRoom, AssignInv, Rooms, chanVars, moneyVars
  <1>2. /\ room'[c] = c
        /\ \A d \in Conns : d # c => room'[d] = room[d] /\ (Waits(d)' <=> Waits(d))
        /\ \A q \in Rooms : q # c => run'[q] = run[q] /\ setupTimer'[q] = setupTimer[q]
        /\ setupTimer'[c] = "armed"
    BY <1>1 DEF TypeOK, Waits
  <1>3. \A q \in Rooms, v \in Users :
          clients'[q][v] = IF q = c /\ v = u THEN c ELSE clients[q][v]
    BY <1>1 DEF TypeOK
  <1>4. /\ userRoom'[u] = c /\ \A v \in Users : v # u => userRoom'[v] = userRoom[v]
        /\ \A d \in Conns : d # c => UserOf[d] \in Users /\ UserOf[d] # u
    <2>1. userRoom \in [Users -> Rooms \cup {NoConn}]
      BY DEF TypeOK
    <2>2. \A d \in Conns : UserOf[d] \in Users /\ (UserOf[d] = u => d = c)
      BY HubAssumption DEF OneConnection
    <2> QED
      BY <1>1, <2>1, <2>2
  <1>5. \A q \in Rooms : Unsettled(q)' <=> Unsettled(q)
    BY <1>1 DEF Unsettled, Bet
  <1> HIDE DEF u
  <1>6. ASSUME NEW d \in Conns, Waits(d)'
        PROVE  /\ clients'[room'[d]][UserOf[d]] = d
               /\ Open(d)' => userRoom'[UserOf[d]] = room'[d] /\ room'[d] \in rooms'
    <2>1. CASE d = c
      BY <1>1, <1>2, <1>3, <1>4, <2>1 DEF u
    <2>2. CASE d # c
      <3>1. room'[d] = room[d] /\ Waits(d) /\ room[d] \in Rooms
        BY <1>2, <1>6, <2>2, WaitsInRoom
      <3>2. /\ clients[room[d]][UserOf[d]] = d
            /\ Open(d) => userRoom[UserOf[d]] = room[d] /\ room[d] \in rooms
        BY <3>1 DEF ReachInv
      \* A room that does not run yet is nobody's.
      <3>3. room[d] # c
        <4>1. run[room[d]] # "none"
          BY <3>1, HubAssumption DEF AlikeInv, Rooms
        <4>2. room[room[d]] = room[d]
          BY <3>1, <4>1 DEF AssignInv
        <4> QED
          BY <1>1, <4>2, HubAssumption DEF Rooms
      <3>4. Open(d)' => Open(d)
        BY <1>1, <1>2, <3>1, <3>3 DEF Open, Unsettled, Bet
      <3> QED
        BY <1>1, <1>2, <1>3, <1>4, <2>2, <3>1, <3>2, <3>3, <3>4
    <2> QED
      BY <2>1, <2>2
  <1> QED
    BY <1>1, <1>2, <1>5, <1>6 DEF ReachInv

LEMMA ReachStep ==
  ASSUME OneConnection, TypeOK, TypeOK', MoneyInv, AssignInv, SeatInv, AlikeInv, ReachInv,
         LeavingInv, [Next]_vars
  PROVE  ReachInv'
  <1>1. \A r \in Rooms : Unsettled(r)' => Unsettled(r)
    BY SettledStays
  \* Most steps: nobody comes or leaves, and a room may only stop.
  <1>2. ASSUME UNCHANGED <<room, disconnectQ, clients, userRoom, rooms>>,
               \A c \in Conns : pc'[c] \in Awaited => pc[c] \in Awaited,
               \A c \in Conns : gone[c] => gone'[c],
               \A r \in Rooms : run'[r] \in Playing => run[r] \in Playing,
               \A r \in Rooms : setupTimer'[r] \in {"cleaning", "forgetting"} =>
                                  setupTimer[r] \in {"cleaning", "forgetting"} \/ ~Unsettled(r)'
        PROVE  ReachInv'
    BY <1>1, <1>2, ReachKept
  <1>3. ASSUME NEW c \in Conns, Reserve(c) PROVE ReachInv'
    BY <1>2, <1>3 DEF Reserve, TypeOK, Awaited, hubVars, seatVars, chanVars
  <1>4. ASSUME NEW c \in Conns, UpgradeFails(c) PROVE ReachInv'
    BY <1>2, <1>4 DEF UpgradeFails, TypeOK, Awaited, hubVars, seatVars, chanVars
  <1>5. ASSUME NEW c \in Conns, SendRegister(c) PROVE ReachInv'
    BY <1>2, <1>5 DEF SendRegister, TypeOK, Awaited, hubVars, seatVars
  <1>6. ASSUME NEW c \in Conns, VanishEarly(c) PROVE ReachInv'
    BY <1>2, <1>6 DEF VanishEarly, TypeOK, hubVars, seatVars, chanVars
  <1>7. ASSUME NEW c \in Conns, CompleteSetup(c) PROVE ReachInv'
    <2>1. \A r \in Rooms : setupTimer'[r] \in {"cleaning", "forgetting"} => setupTimer[r] \in {"cleaning", "forgetting"}
      BY <1>7 DEF CompleteSetup, StopSetup, TypeOK
    <2> QED
      BY <1>2, <1>7, <2>1 DEF CompleteSetup, hubVars, connVars, seatVars, chanVars
  <1>8. ASSUME NEW c \in Conns, OverwriteMove(c) PROVE ReachInv'
    BY <1>2, <1>8 DEF OverwriteMove, hubVars, connVars, seatVars, chanVars
  <1>9. ASSUME NEW r \in Rooms, SetupTimeout(r) PROVE ReachInv'
    <2>1. \A q \in Rooms : setupTimer'[q] \in {"cleaning", "forgetting"} => setupTimer[q] \in {"cleaning", "forgetting"}
      BY <1>9 DEF SetupTimeout, TypeOK
    <2> QED
      BY <1>2, <1>9, <2>1 DEF SetupTimeout, hubVars, connVars, seatVars, chanVars
  <1>10. ASSUME NEW r \in Rooms, FinishGame(r) PROVE ReachInv'
    BY <1>2, <1>10 DEF FinishGame, hubVars, connVars, seatVars, chanVars
  <1>11. ASSUME NEW r \in Rooms, SaveResult(r) PROVE ReachInv'
    <2>1. \A q \in Rooms : run'[q] \in Playing => run[q] \in Playing
      BY <1>11 DEF SaveResult, TypeOK, Playing
    <2> QED
      BY <1>2, <1>11, <2>1 DEF SaveResult, hubVars, connVars, seatVars, chanVars
  <1>12. ASSUME NEW r \in Rooms, CancelNoOpponent(r) PROVE ReachInv'
    <2>1. /\ setupTimer' = [setupTimer EXCEPT ![r] = "cleaning"]
          /\ \/ Settle(r, Refund(r, First(r)))
             \/ ~Unsettled(r) /\ UNCHANGED betPaid
      BY <1>12 DEF CancelNoOpponent, moneyVars
    <2>2. betPaid' = [betPaid EXCEPT ![r] = TRUE] \/ (~Unsettled(r) /\ UNCHANGED betPaid)
      BY <2>1 DEF Settle
    <2>3. ~Unsettled(r)'
      BY <2>2 DEF Unsettled, Bet, TypeOK
    <2>4. \A q \in Rooms : setupTimer'[q] \in {"cleaning", "forgetting"} => setupTimer[q] \in {"cleaning", "forgetting"} \/ ~Unsettled(q)'
      BY <2>1, <2>3 DEF TypeOK
    <2> QED
      BY <1>2, <1>12, <2>4 DEF CancelNoOpponent, hubVars, connVars, seatVars, chanVars
  <1>13. CASE UNCHANGED vars
    BY <1>2, <1>13 DEF vars, hubVars, connVars, seatVars, chanVars
  <1>14. ASSUME NEW r \in Rooms, CancelCleanup(r) PROVE ReachInv'
    <2>1. /\ UNCHANGED <<room, disconnectQ, clients, pc, gone, run>>
          /\ "setup" \in Cleaners
      BY <1>14 DEF CancelCleanup, CollectClients, Cleanup, Cleaners, connVars, chanVars
    <2>2. \A q \in Rooms : setupTimer'[q] \in {"cleaning", "forgetting"} => setupTimer[q] \in {"cleaning", "forgetting"}
      BY <1>14 DEF CancelCleanup, TypeOK
    <2>3. CASE CollectClients(r, "setup")
      BY <1>2, <2>1, <2>2, <2>3 DEF CollectClients, hubVars
    <2>4. CASE Cleanup(r, "setup")
      <3>1. ~Unsettled(r)
        BY <1>14 DEF CancelCleanup, ReachInv
      <3> QED
        BY <1>1, <2>1, <2>2, <2>4, <3>1, CleanupReach
    <2> QED
      BY <1>14, <2>3, <2>4 DEF CancelCleanup
  <1>15. ASSUME NEW r \in Rooms, RunCleanup(r) PROVE ReachInv'
    <2>1. /\ UNCHANGED <<room, disconnectQ, clients, pc, gone, setupTimer>>
          /\ run[r] \notin Playing /\ "run" \in Cleaners
      BY <1>15 DEF RunCleanup, CollectClients, Cleanup, Cleaners, Playing, connVars, chanVars
    <2>2. \A q \in Rooms : run'[q] \in Playing => run[q] \in Playing
      BY <1>15 DEF RunCleanup, TypeOK, Playing
    <2>3. CASE CollectClients(r, "run")
      BY <1>2, <2>1, <2>2, <2>3 DEF CollectClients, hubVars
    <2>4. CASE Cleanup(r, "run")
      BY <1>1, <2>1, <2>2, <2>4, CleanupReach
    <2> QED
      BY <1>15, <2>3, <2>4 DEF RunCleanup
  <1>16. ASSUME NEW r \in Rooms, CleanupStaleRoom(r) PROVE ReachInv'
    <2>1. /\ UNCHANGED <<room, pc, gone, disconnectQ, clients, run, setupTimer>>
          /\ clients[r] = Nobody /\ rooms' = rooms \ {r}
          /\ userRoom' = [u \in Users |-> IF userRoom[u] = r THEN NoConn ELSE userRoom[u]]
      BY <1>16 DEF CleanupStaleRoom, connVars, seatVars, chanVars
    <2>2. ASSUME NEW c \in Conns, Waits(c)', userRoom[UserOf[c]] = room[c], room[c] \in rooms
          PROVE  userRoom'[UserOf[c]] = room[c] /\ room[c] \in rooms'
      <3>1. Waits(c) /\ UserOf[c] \in Users
        BY <2>1, <2>2, HubAssumption DEF Waits
      <3>2. clients[room[c]][UserOf[c]] = c
        BY <3>1 DEF ReachInv
      <3>3. room[c] # r
        BY <2>1, <3>1, <3>2, HubAssumption DEF Nobody
      <3> QED
        BY <2>1, <2>2, <3>1, <3>3
    <2>3. \A c \in Conns : Waits(c)' => Waits(c)
      BY <2>1 DEF Waits
    <2>4. \A q \in Rooms : \A i \in 1 .. Len(disconnectQ'[q]) : gone'[disconnectQ'[q][i]]
      BY <2>1 DEF ReachInv
    <2> QED
      BY <1>1, <2>1, <2>2, <2>3, <2>4, ReachStays
  <1>17. ASSUME NEW c \in Conns, JoinRoom(c) PROVE ReachInv'
    BY <1>17, JoinReach
  <1>18. ASSUME NEW c \in Conns, CreateRoom(c) PROVE ReachInv'
    BY <1>18, CreateReach
  <1>19. ASSUME NEW c \in Conns, Disconnect(c) PROVE ReachInv'
    <2> DEFINE q == userRoom[UserOf[c]]
    <2>1. /\ UNCHANGED <<room, pc, clients, userRoom, rooms, run, setupTimer>>
          /\ gone' = [gone EXCEPT ![c] = TRUE]
          /\ \/ q \in Rooms /\ disconnectQ' = [disconnectQ EXCEPT ![q] = Append(disconnectQ[q], c)]
             \/ disconnectQ' = disconnectQ
      BY <1>19 DEF Disconnect, seatVars, TypeOK
    <2> HIDE DEF q
    <2>2. /\ gone'[c] /\ \A d \in Conns : gone[d] => gone'[d]
          /\ \A d \in Conns : Waits(d)' => Waits(d)
      BY <2>1 DEF TypeOK, Waits
    <2>3. ASSUME NEW r \in Rooms, NEW i \in 1 .. Len(disconnectQ'[r])
          PROVE  gone'[disconnectQ'[r][i]]
      <3>1. disconnectQ[r] \in Seq(Conns)
        BY DEF TypeOK
      <3>2. CASE disconnectQ'[r] = disconnectQ[r]
        <4>1. gone[disconnectQ[r][i]] /\ disconnectQ[r][i] \in Conns
          BY <2>3, <3>1, <3>2 DEF ReachInv
        <4> QED
          BY <2>2, <3>2, <4>1
      <3>3. CASE disconnectQ'[r] # disconnectQ[r]
        <4>1. disconnectQ'[r] = Append(disconnectQ[r], c)
          BY <2>1, <3>3 DEF TypeOK
        <4>2. \A j \in 1 .. Len(disconnectQ[r]) : gone[disconnectQ[r][j]] /\ disconnectQ[r][j] \in Conns
          BY <3>1 DEF ReachInv
        <4> QED
          BY <2>2, <2>3, <3>1, <4>1, <4>2
      <3> QED
        BY <3>2, <3>3
    <2>4. \A d \in Conns : Waits(d)' =>
            clients'[room[d]][UserOf[d]] \in {clients[room[d]][UserOf[d]], d}
      BY <2>1
    <2> QED
      BY <1>1, <2>1, <2>2, <2>3, <2>4, ReachStays
  <1>20. ASSUME NEW r \in Rooms, HandleRegister(r) PROVE ReachInv'
    <2> DEFINE c == Head(registerQ[r])
    <2>1. /\ clients' = [clients EXCEPT ![r] = [clients[r] EXCEPT ![UserOf[c]] = c]]
          /\ UNCHANGED <<room, pc, gone, disconnectQ, userRoom, rooms>>
          /\ run[r] = "select" /\ run' = [run EXCEPT ![r] = LoopTop(r)]
      BY <1>20 DEF HandleRegister, hubVars, connVars
    <2>2. c \in Conns /\ room[c] = r
      BY <1>20 DEF HandleRegister, SeatInv, TypeOK
    <2>3. \A q \in Rooms : setupTimer'[q] \in {"cleaning", "forgetting"} => setupTimer[q] \in {"cleaning", "forgetting"}
      BY <1>20 DEF HandleRegister, StopSetup, TypeOK
    <2> HIDE DEF c
    <2>4. \A q \in Rooms : run'[q] \in Playing => run[q] \in Playing
      BY <2>1 DEF TypeOK, Playing
    <2>5. \A q \in Rooms, u \in Users :
            clients'[q][u] = IF q = r /\ u = UserOf[c] THEN c ELSE clients[q][u]
      <3>1. clients \in [Rooms -> [Users -> Conns \cup {NoConn}]]
        BY DEF TypeOK
      <3> QED
        BY ONLY <2>1, <3>1, r \in Rooms
    <2>6. ASSUME NEW d \in Conns, Waits(d)'
          PROVE  clients'[room[d]][UserOf[d]] \in {clients[room[d]][UserOf[d]], d}
      <3>1. room[d] \in Rooms /\ UserOf[d] \in Users
        BY <2>1, <2>6, WaitsInRoom, HubAssumption DEF Waits
      <3>2. UserOf[d] = UserOf[c] => d = c
        BY <2>2 DEF OneConnection
      <3> QED
        BY <2>5, <3>1, <3>2
    <2>7. \A d \in Conns : Waits(d)' => Waits(d)
      BY <2>1 DEF Waits
    <2>8. \A q \in Rooms : \A i \in 1 .. Len(disconnectQ'[q]) : gone'[disconnectQ'[q][i]]
      BY <2>1 DEF ReachInv
    <2> QED
      BY <1>1, <2>1, <2>3, <2>4, <2>6, <2>7, <2>8, ReachStays
  <1>21. ASSUME NEW r \in Rooms, HandleDisconnect(r) PROVE ReachInv'
    <2> DEFINE c == Head(disconnectQ[r])
    <2>1. /\ disconnectQ[r] # <<>> /\ disconnectQ' = [disconnectQ EXCEPT ![r] = Tail(disconnectQ[r])]
          /\ clients' = [clients EXCEPT ![r][UserOf[c]] = NoConn]
          /\ UNCHANGED <<room, pc, gone, userRoom, rooms, setupTimer>>
          /\ run[r] = "select"
      BY <1>21 DEF HandleDisconnect, hubVars, connVars
    <2>2. \A q \in Rooms : run'[q] \in Playing => run[q] \in Playing
      BY <1>21 DEF HandleDisconnect, TypeOK, Playing
    <2>3. gone[c] /\ c \in Conns
      BY <2>1 DEF ReachInv, TypeOK
    <2> HIDE DEF c
    <2>4. \A q \in Rooms, u \in Users :
            clients'[q][u] = IF q = r /\ u = UserOf[c] THEN NoConn ELSE clients[q][u]
      <3>1. clients \in [Rooms -> [Users -> Conns \cup {NoConn}]]
        BY DEF TypeOK
      <3>2. clients' = [clients EXCEPT ![r][UserOf[c]] = NoConn]
        BY <2>1
      <3> QED
        BY ONLY <3>1, <3>2, r \in Rooms, UpdateTableAt
    <2>5. \A d \in Conns : Waits(d)' => Waits(d) /\ d # c
      BY <2>1, <2>3 DEF Waits
    <2>6. ASSUME NEW d \in Conns, Waits(d)'
          PROVE  clients'[room[d]][UserOf[d]] \in {clients[room[d]][UserOf[d]], d}
      <3>1. room[d] \in Rooms /\ UserOf[d] \in Users
        BY <2>5, <2>6, WaitsInRoom, HubAssumption
      <3>2. UserOf[d] # UserOf[c]
        BY <2>3, <2>5, <2>6 DEF OneConnection
      <3> QED
        BY <2>4, <3>1, <3>2
    <2>7. \A q \in Rooms : \A i \in 1 .. Len(disconnectQ'[q]) : gone'[disconnectQ'[q][i]]
      <3> TAKE q \in Rooms
      <3>1. disconnectQ[q] \in Seq(Conns)
        BY DEF TypeOK
      <3>2. \A i \in 1 .. Len(disconnectQ[q]) : gone[disconnectQ[q][i]]
        BY DEF ReachInv
      <3>3. disconnectQ'[q] = IF q = r THEN Tail(disconnectQ[q]) ELSE disconnectQ[q]
        BY <2>1 DEF TypeOK
      <3> QED
        BY <2>1, <3>1, <3>2, <3>3
    <2> QED
      BY <1>1, <2>1, <2>2, <2>5, <2>6, <2>7, ReachStays
  <1>22. ASSUME NEW k \in Keys, CleanupStaleWaiting(k) PROVE ReachInv'
    <2> DEFINE w == waitingByKey[k]
               u == UserOf[w]
               r == userRoom[u]
    <2>1. /\ w # NoConn /\ Undrained(w)
          /\ userRoom' = [userRoom EXCEPT ![u] = NoConn]
          /\ \/ /\ r \in rooms
                /\ clients' = [clients EXCEPT ![r][u] = NoConn]
                /\ rooms' = IF Present(clients[r]) \subseteq {u} THEN rooms \ {r} ELSE rooms
             \/ UNCHANGED <<clients, rooms>>
          /\ UNCHANGED <<room, pc, gone, disconnectQ, run, setupTimer>>
      BY <1>22 DEF CleanupStaleWaiting, connVars, chanVars
    <2>2. w \in Conns /\ u \in Users /\ room[w] = w /\ second[w] = NoUser
      BY <2>1, HubAssumption DEF AlikeInv, TypeOK
    <2>3. r \in rooms => r = w /\ r \in Rooms
      <3>1. r \in rooms => r \in Rooms /\ r # NoConn
        BY HubAssumption DEF TypeOK, Rooms
      <3>2. r # NoConn => Staker(room, r, u)
        BY <2>2 DEF SeatInv
      <3>3. r \in rooms => room[w] = r
        BY <2>2, <3>1, <3>2, RoomOfStaker
      <3> QED
        BY <2>2, <3>1, <3>3
    <2>4. \A d \in Conns : Waits(d)' => Waits(d) /\ d # w
      <3>1. pc[w] = "dropped" => pc[w] \notin Awaited
        BY DEF Awaited
      <3> QED
        BY <2>1, <3>1 DEF Waits, Undrained
    <2> HIDE DEF w, u, r
    <2>5. ASSUME NEW d \in Conns, Waits(d)'
          PROVE  /\ UserOf[d] \in Users /\ UserOf[d] # u /\ room[d] \in Rooms /\ room[d] # w
                 /\ clients[room[d]][UserOf[d]] = d
      <3>1. Waits(d) /\ d # w
        BY <2>4, <2>5
      <3>2. UserOf[d] \in Users /\ UserOf[d] # u /\ room[d] \in Rooms
        BY <2>2, <3>1, WaitsInRoom, HubAssumption DEF OneConnection, u
      <3>3. d = room[d] \/ second[room[d]] = UserOf[d]
        BY <3>2, HubAssumption DEF AlikeInv, Rooms
      <3>4. UserOf[d] # NoUser
        BY <3>2, HubAssumption
      <3> QED
        BY <2>2, <3>1, <3>2, <3>3, <3>4 DEF ReachInv
    <2>6. ASSUME NEW d \in Conns, Waits(d)'
          PROVE  clients'[room[d]][UserOf[d]] \in {clients[room[d]][UserOf[d]], d}
      <3>1. CASE UNCHANGED clients
        BY <3>1
      <3>2. CASE r \in rooms /\ clients' = [clients EXCEPT ![r][u] = NoConn]
        <4>1. clients \in [Rooms -> [Users -> Conns \cup {NoConn}]]
          BY DEF TypeOK
        <4>2. r \in Rooms /\ UserOf[d] \in Users /\ UserOf[d] # u /\ room[d] \in Rooms
          BY <2>3, <2>5, <2>6, <3>2
        <4>3. clients'[room[d]][UserOf[d]] = clients[room[d]][UserOf[d]]
          BY ONLY <3>2, <4>1, <4>2, UpdateTableAt
        <4> QED
          BY <4>3
      <3> QED
        BY <2>1, <3>1, <3>2
    <2>7. ASSUME NEW d \in Conns, Waits(d)', userRoom[UserOf[d]] = room[d], room[d] \in rooms
          PROVE  userRoom'[UserOf[d]] = room[d] /\ room[d] \in rooms'
      <3>1. userRoom'[UserOf[d]] = userRoom[UserOf[d]]
        BY <2>1, <2>5, <2>7 DEF TypeOK
      <3> QED
        BY <2>1, <2>3, <2>5, <2>7, <3>1
    <2>8. \A q \in Rooms : \A i \in 1 .. Len(disconnectQ'[q]) : gone'[disconnectQ'[q][i]]
      BY <2>1 DEF ReachInv
    <2> QED
      BY <1>1, <2>1, <2>4, <2>6, <2>7, <2>8, ReachStays
  <1> QED
    BY <1>3, <1>4, <1>5, <1>6, <1>7, <1>8, <1>9, <1>10, <1>11, <1>12, <1>13, <1>14, <1>15, <1>16,
       <1>17, <1>18, <1>19, <1>20, <1>21, <1>22 DEF Next, ConnStep, SetupStep, RunStep

-----------------------------------------------------------------------------
(* Who is left to settle.                                                  *)

\* A result comes after the setup, and only with an opponent can it change; a
\* Mines game needs two players.  While a room with open stakes is played, either its
\* setup goroutine or its rounds will end it, and both players are clients of
\* it, so that the first who leaves is seen; it is cleaned up with open stakes
\* only after a result that was undone.
SettlerOK(r) ==
  /\ announced[r] # Undecided =>
       setupCompleted[r] /\ (verdict[r] # announced[r] => second[r] # NoUser)
  /\ KeyOf[r].game = "mines" /\ setupCompleted[r] => second[r] # NoUser
  /\ run[r] \in Playing /\ Unsettled(r) =>
       setupTimer[r] \in {"armed", "cancelling"} \/ setupCompleted[r]
  /\ run[r] \in Playing /\ Unsettled(r) /\ second[r] # NoUser =>
       clients[r][First(r)] # NoConn /\ clients[r][second[r]] # NoConn
  /\ run[r] \in {"cleaning", "forgetting", "exited"} /\ Unsettled(r) =>
       announced[r] # Undecided /\ verdict[r] = Undecided

SettlerInv == \A r \in Rooms : SettlerOK(r)

\* A step leaves room q alone, but for new clients.
RoomSame(q) ==
  /\ announced'[q] = announced[q] /\ verdict'[q] = verdict[q]
  /\ setupCompleted'[q] = setupCompleted[q] /\ setupTimer'[q] = setupTimer[q]
  /\ second'[q] = second[q] /\ run'[q] = run[q]
  /\ Unsettled(q)' => Unsettled(q)
  /\ \A u \in Users : clients[q][u] # NoConn => clients'[q][u] # NoConn

LEMMA RoomSameKeeps ==
  ASSUME TypeOK, NEW q \in Rooms, SettlerOK(q), RoomSame(q)
  PROVE  SettlerOK(q)'
  <1>1. First(q) \in Users /\ First(q)' = First(q)
    BY BetType DEF First
  <1>2. second[q] # NoUser => second[q] \in Users
    BY DEF TypeOK
  <1> QED
    BY <1>1, <1>2 DEF SettlerOK, RoomSame

LEMMA OneRoomSettler ==
  ASSUME TypeOK, SettlerInv, NEW r \in Rooms, SettlerOK(r)',
         \A q \in Rooms : q # r => RoomSame(q)
  PROVE  SettlerInv'
  BY RoomSameKeeps DEF SettlerInv

LEMMA AllSameSettler ==
  ASSUME TypeOK, SettlerInv, \A q \in Rooms : RoomSame(q)
  PROVE  SettlerInv'
  BY RoomSameKeeps DEF SettlerInv

\* The clients of a room are its two players.
LEMMA ClientsAreSeated ==
  ASSUME TypeOK, AlikeInv, NEW r \in Rooms, NEW u \in Users, clients[r][u] # NoConn
  PROVE  KeyOf[clients[r][u]] = KeyOf[r] /\ u \in {First(r), second[r]}
  <1>1. clients[r][u] \in Conns
    BY DEF TypeOK
  <1>2. UserOf[clients[r][u]] = u /\ room[clients[r][u]] = r /\ r # NoConn
    BY HubAssumption DEF AlikeInv, Rooms
  <1> QED
    BY <1>1, <1>2 DEF AlikeInv, First

LEMMA JoinSettler ==
  ASSUME OneConnection, TypeOK, AssignInv, SeatInv, AlikeInv, SettlerInv,
         NEW c \in Conns, JoinRoom(c)
  PROVE  SettlerInv'
  <1>1. PICK u \in Users : u = UserOf[c]
    BY HubAssumption
  <1>0. PICK r \in Rooms : JoinsAt(c, r)
    BY JoinEffect
  <1>2. /\ u # First(r) /\ second[r] = NoUser
        /\ second' = [second EXCEPT ![r] = u]
        /\ clients' = [clients EXCEPT ![r][u] = c]
        /\ clients[r][First(r)] # NoConn
        /\ \/ verdict' = verdict
           \/ KeyOf[r].game = "rps" /\ verdict' = [verdict EXCEPT ![r] = u]
    BY <1>1, <1>0 DEF JoinsAt
  <1>3. UNCHANGED <<announced, setupCompleted, setupTimer, run, betPaid>>
    BY DEF JoinRoom, moneyVars
  <1>4. u # NoUser /\ u # Undecided /\ c # NoConn
    BY HubAssumption
  <1>5. \A q \in Rooms, v \in Users :
          clients'[q][v] = IF q = r /\ v = u THEN c ELSE clients[q][v]
    <2>1. clients \in [Rooms -> [Users -> Conns \cup {NoConn}]]
      BY DEF TypeOK
    <2>2. clients' = [clients EXCEPT ![r][u] = c]
      BY <1>2
    <2>3. \A q \in Rooms, v \in Users :
            [clients EXCEPT ![r][u] = c][q][v] = IF q = r /\ v = u THEN c ELSE clients[q][v]
      BY ONLY <2>1, r \in Rooms, UpdateTableAt
    <2> QED
      BY <2>2, <2>3, Zenon
  <1>6. /\ second'[r] = u /\ \A q \in Rooms : q # r => second'[q] = second[q]
        /\ \A q \in Rooms : q # r => verdict'[q] = verdict[q]
        /\ verdict'[r] = verdict[r] \/ (KeyOf[r].game = "rps" /\ verdict'[r] = u)
    <2>1. /\ second'[r] = u /\ \A q \in Rooms : q # r => second'[q] = second[q]
      BY <1>2 DEF TypeOK
    <2>2. CASE verdict' = verdict
      BY <2>1, <2>2
    <2>3. CASE KeyOf[r].game = "rps" /\ verdict' = [verdict EXCEPT ![r] = u]
      BY <2>1, <2>3 DEF TypeOK
    <2> QED
      BY <1>2, <2>2, <2>3
  <1>7. \A q \in Rooms : Unsettled(q)' = Unsettled(q)
    BY <1>3 DEF Unsettled, Bet
  <1>8. \A q \in Rooms : q # r => RoomSame(q)
    BY <1>3, <1>5, <1>6, <1>7 DEF RoomSame
  <1>9. SettlerOK(r)'
    <2>1. First(r) \in Users /\ First(r)' = First(r)
      BY BetType DEF First
    <2>2. clients'[r][First(r)] # NoConn /\ clients'[r][second'[r]] # NoConn
      BY <1>2, <1>4, <1>5, <1>6, <2>1
    <2>3. SettlerOK(r)
      BY DEF SettlerInv
    \* The stakes of a room without an opponent are settled before it is cleaned up.
    <2>4. run[r] \in {"cleaning", "forgetting", "exited"} => ~Unsettled(r)
      BY <1>2, <2>3 DEF SettlerOK
    <2>5. announced'[r] # Undecided => setupCompleted'[r] /\ second'[r] # NoUser
      BY <1>3, <1>4, <1>6, <2>3 DEF SettlerOK
    <2>6. run'[r] \in Playing /\ Unsettled(r)' =>
            setupTimer'[r] \in {"armed", "cancelling"} \/ setupCompleted'[r]
      BY <1>3, <1>7, <2>3 DEF SettlerOK
    <2>7. run'[r] \in {"cleaning", "forgetting", "exited"} => ~Unsettled(r)'
      BY <1>3, <1>7, <2>4
    <2> QED
      BY <1>4, <1>6, <2>1, <2>2, <2>5, <2>6, <2>7 DEF SettlerOK
  <1> QED
    BY <1>8, <1>9, OneRoomSettler

LEMMA CreateSettler ==
  ASSUME TypeOK, AssignInv, SeatInv, AlikeInv, SettlerInv, NEW c \in Conns, CreateRoom(c)
  PROVE  SettlerInv'
  <1>1. /\ c \in Rooms /\ UserOf[c] \in Users /\ room[c] = NoConn /\ c # NoConn
        /\ clients' = [clients EXCEPT ![c][UserOf[c]] = c]
        /\ setupTimer' = [setupTimer EXCEPT ![c] = "armed"]
        /\ run' = [run EXCEPT ![c] = "select"]
        /\ UNCHANGED <<second, setupCompleted, announced, verdict, betPaid>>
    BY HubAssumption DEF CreateRoom, AssignInv, Rooms, gameVars, moneyVars
  <1>2. run[c] = "none"
    BY <1>1 DEF AssignInv
  <1>3. second[c] = NoUser
    <2>1. ASSUME second[c] \in Users
          PROVE  FALSE
      <3>1. PICK d \in Conns : room[d] = c
        BY <1>1, <2>1 DEF SeatInv, Staker
      <3> QED
        BY <1>1, <1>2, <3>1 DEF AlikeInv
    <2> QED
      BY <1>1, <2>1 DEF TypeOK
  <1>4. \A q \in Rooms : Unsettled(q)' = Unsettled(q)
    BY <1>1 DEF Unsettled, Bet
  <1>5. \A q \in Rooms : q # c => clients'[q] = clients[q] /\ setupTimer'[q] = setupTimer[q] /\ run'[q] = run[q]
    BY <1>1 DEF TypeOK
  <1>6. \A q \in Rooms : q # c => RoomSame(q)
    BY <1>1, <1>4, <1>5 DEF RoomSame
  <1>7. setupTimer'[c] = "armed" /\ run'[c] = "select"
    BY <1>1 DEF TypeOK
  <1>8. SettlerOK(c)
    BY <1>1 DEF SettlerInv
  <1>9. SettlerOK(c)'
    BY <1>1, <1>3, <1>7, <1>8 DEF SettlerOK
  <1> QED
    BY <1>1, <1>6, <1>9, OneRoomSettler

\* The step of a room that leaves seats, clients and money alone.
GameStep(r) ==
  /\ UNCHANGED <<second, clients, betPaid>>
  /\ \A q \in Rooms : q # r => /\ announced'[q] = announced[q] /\ verdict'[q] = verdict[q]
                               /\ setupCompleted'[q] = setupCompleted[q]
                               /\ setupTimer'[q] = setupTimer[q] /\ run'[q] = run[q]

LEMMA GameSettler ==
  ASSUME TypeOK, SettlerInv, NEW r \in Rooms, GameStep(r),
         announced'[r] # Undecided =>
           setupCompleted'[r] /\ (verdict'[r] # announced'[r] => second[r] # NoUser),
         KeyOf[r].game = "mines" /\ setupCompleted'[r] => second[r] # NoUser,
         run'[r] \in Playing => run[r] \in Playing,
         run'[r] \in Playing /\ Unsettled(r) =>
           setupTimer'[r] \in {"armed", "cancelling"} \/ setupCompleted'[r],
         run'[r] \in {"cleaning", "forgetting", "exited"} /\ Unsettled(r) =>
           announced'[r] # Undecided /\ verdict'[r] = Undecided
  PROVE  SettlerInv'
  <1>1. \A q \in Rooms : Unsettled(q)' = Unsettled(q) /\ First(q)' = First(q)
    BY DEF GameStep, Unsettled, Bet, First
  <1>2. \A q \in Rooms : q # r => RoomSame(q)
    BY <1>1 DEF RoomSame, GameStep
  <1>3. SettlerOK(r)
    BY DEF SettlerInv
  <1>4. SettlerOK(r)'
    BY <1>1, <1>3 DEF SettlerOK, GameStep
  <1> QED
    BY <1>2, <1>4, OneRoomSettler

LEMMA SetupSettler ==
  ASSUME TypeOK, AlikeInv, SettlerInv, NEW c \in Conns, CompleteSetup(c)
  PROVE  SettlerInv'
  <1>1. PICK r \in Rooms : r = room[c]
    BY DEF CompleteSetup, AlikeInv, Assigned, TypeOK
  <1>2. /\ setupCompleted' = [setupCompleted EXCEPT ![r] = TRUE]
        /\ setupTimer' = [setupTimer EXCEPT ![r] = IF @ = "armed" THEN "done" ELSE @]
        /\ KeyOf[r].game = "rps" \/ second[r] # NoUser
        /\ UNCHANGED <<second, clients, betPaid, announced, verdict, run>>
    BY <1>1 DEF CompleteSetup, StopSetup, CanCompleteSetup, seatVars, moneyVars
  <1>3. setupCompleted'[r] = TRUE /\ GameStep(r)
    BY <1>2 DEF TypeOK, GameStep
  <1>4. SettlerOK(r)
    BY DEF SettlerInv
  <1>5. announced'[r] # Undecided => (verdict'[r] # announced'[r] => second[r] # NoUser)
    BY <1>2, <1>4 DEF SettlerOK
  <1>6. run'[r] \in {"cleaning", "forgetting", "exited"} /\ Unsettled(r) =>
          announced'[r] # Undecided /\ verdict'[r] = Undecided
    BY <1>2, <1>4 DEF SettlerOK
  <1> QED
    BY <1>2, <1>3, <1>5, <1>6, GameSettler

\* A game is decided again only once there is an opponent.
LEMMA OnlyOpposed ==
  ASSUME NEW r \in Rooms, SettlerOK(r), NEW c, Rejudged(r, c) # {}
  PROVE  announced[r] # Undecided /\ second[r] # NoUser
  BY DEF SettlerOK, Rejudged

LEMMA OverwriteSettler ==
  ASSUME TypeOK, AlikeInv, SettlerInv, NEW c \in Conns, OverwriteMove(c)
  PROVE  SettlerInv'
  <1>1. PICK r \in Rooms : r = room[c]
    BY DEF OverwriteMove, AlikeInv, Assigned, TypeOK
  <1>2. /\ \E result \in Rejudged(r, c) : verdict' = [verdict EXCEPT ![r] = result]
        /\ run[r] \in Playing
        /\ UNCHANGED <<second, clients, betPaid, announced, setupCompleted, setupTimer, run>>
    BY <1>1 DEF OverwriteMove, seatVars, moneyVars, Playing
  <1>3. GameStep(r)
    BY <1>2 DEF TypeOK, GameStep
  <1>4. SettlerOK(r)
    BY DEF SettlerInv
  <1>5. /\ announced'[r] # Undecided => setupCompleted'[r] /\ second[r] # NoUser
        /\ KeyOf[r].game = "mines" /\ setupCompleted'[r] => second[r] # NoUser
        /\ Unsettled(r) => setupTimer'[r] \in {"armed", "cancelling"} \/ setupCompleted'[r]
        /\ run'[r] \notin {"cleaning", "forgetting", "exited"}
    BY <1>2, <1>4, OnlyOpposed DEF SettlerOK, Playing
  <1> QED
    BY <1>2, <1>3, <1>5, GameSettler

LEMMA TimeoutSettler ==
  ASSUME TypeOK, SettlerInv, NEW r \in Rooms, SetupTimeout(r)
  PROVE  SettlerInv'
  <1>1. UNCHANGED <<second, clients, betPaid, announced, verdict, run>>
    BY DEF SetupTimeout, seatVars, moneyVars
  <1>2. SettlerOK(r)
    BY DEF SettlerInv
  <1>3. GameStep(r)
    BY <1>1 DEF SetupTimeout, TypeOK, GameStep
  <1>4. \/ second[r] = NoUser /\ setupTimer'[r] = "cancelling" /\ setupCompleted'[r] = setupCompleted[r]
        \/ second[r] # NoUser /\ setupCompleted'[r] = TRUE
    BY DEF SetupTimeout, TypeOK
  <1>5. /\ announced'[r] # Undecided =>
             setupCompleted'[r] /\ (verdict'[r] # announced'[r] => second[r] # NoUser)
        /\ KeyOf[r].game = "mines" /\ setupCompleted'[r] => second[r] # NoUser
        /\ run'[r] \in {"cleaning", "forgetting", "exited"} /\ Unsettled(r) =>
             announced'[r] # Undecided /\ verdict'[r] = Undecided
    BY <1>1, <1>2, <1>4 DEF SettlerOK
  <1>6. setupTimer'[r] \in {"armed", "cancelling"} \/ setupCompleted'[r]
    BY <1>4
  <1> QED
    BY <1>1, <1>3, <1>5, <1>6, GameSettler

LEMMA FinishSettler ==
  ASSUME TypeOK, SettlerInv, NEW r \in Rooms, FinishGame(r)
  PROVE  SettlerInv'
  <1>1. PICK result : /\ announced' = [announced EXCEPT ![r] = result]
                      /\ verdict' = [verdict EXCEPT ![r] = result]
    BY DEF FinishGame
  <1>2. /\ UNCHANGED <<second, clients, betPaid, setupCompleted, setupTimer, run>>
        /\ setupCompleted[r] /\ run[r] \in Playing
    BY DEF FinishGame, seatVars, moneyVars, Playing
  <1>3. GameStep(r) /\ announced'[r] = result /\ verdict'[r] = result
    BY <1>1, <1>2 DEF TypeOK, GameStep
  <1>4. SettlerOK(r)
    BY DEF SettlerInv
  <1>5. KeyOf[r].game = "mines" /\ setupCompleted'[r] => second[r] # NoUser
    BY <1>2, <1>4 DEF SettlerOK
  <1>6. run'[r] \notin {"cleaning", "forgetting", "exited"}
    BY <1>2 DEF Playing
  <1> QED
    BY <1>2, <1>3, <1>5, <1>6, GameSettler

\* The cleanups, of the setup goroutine and of the loop.
LEMMA CleanupSettler ==
  ASSUME TypeOK, SettlerInv, NEW r \in Rooms, CancelCleanup(r) \/ RunCleanup(r)
  PROVE  SettlerInv'
  <1>1. UNCHANGED <<second, clients, betPaid, announced, verdict, setupCompleted>>
    BY DEF CancelCleanup, RunCleanup, CollectClients, Cleanup, gameVars, moneyVars
  <1>2. SettlerOK(r)
    BY DEF SettlerInv
  <1>3. CASE CancelCleanup(r)
    <2>1. GameStep(r) /\ run' = run /\ setupTimer[r] \in {"cleaning", "forgetting"}
      BY <1>1, <1>3 DEF CancelCleanup, TypeOK, GameStep
    <2>2. run[r] \in Playing /\ Unsettled(r) => setupCompleted[r]
      BY <1>2, <2>1 DEF SettlerOK
    <2>3. /\ announced'[r] # Undecided =>
               setupCompleted'[r] /\ (verdict'[r] # announced'[r] => second[r] # NoUser)
          /\ KeyOf[r].game = "mines" /\ setupCompleted'[r] => second[r] # NoUser
          /\ run'[r] \in {"cleaning", "forgetting", "exited"} /\ Unsettled(r) =>
               announced'[r] # Undecided /\ verdict'[r] = Undecided
      BY <1>1, <1>2, <2>1 DEF SettlerOK
    <2> QED
      BY <1>1, <2>1, <2>2, <2>3, GameSettler
  <1>4. CASE RunCleanup(r)
    <2>1. /\ GameStep(r) /\ setupTimer' = setupTimer
          /\ run[r] \in {"cleaning", "forgetting"} /\ run'[r] \in {"forgetting", "exited"}
      BY <1>1, <1>4 DEF RunCleanup, TypeOK, GameStep
    <2>2. /\ announced'[r] # Undecided =>
               setupCompleted'[r] /\ (verdict'[r] # announced'[r] => second[r] # NoUser)
          /\ KeyOf[r].game = "mines" /\ setupCompleted'[r] => second[r] # NoUser
          /\ Unsettled(r) => announced'[r] # Undecided /\ verdict'[r] = Undecided
      BY <1>1, <1>2, <2>1 DEF SettlerOK
    <2>3. run'[r] \notin Playing
      BY <2>1 DEF Playing
    <2> QED
      BY <2>1, <2>2, <2>3, GameSettler
  <1> QED
    BY <1>3, <1>4

\* A step that closes the stakes of r, or finds them closed.
LEMMA ClosedSettler ==
  ASSUME TypeOK, SettlerInv, NEW r \in Rooms, ~Unsettled(r)',
         UNCHANGED <<second, announced, verdict, setupCompleted>>,
         \A q \in Rooms : q # r => RoomSame(q)
  PROVE  SettlerInv'
  <1>1. SettlerOK(r)
    BY DEF SettlerInv
  <1>2. SettlerOK(r)'
    BY <1>1 DEF SettlerOK
  <1> QED
    BY <1>2, OneRoomSettler

LEMMA SettleCloses ==
  ASSUME TypeOK, NEW r \in Rooms, NEW amount, Settle(r, amount)
  PROVE  ~Unsettled(r)'
  <1>1. betPaid' = [betPaid EXCEPT ![r] = TRUE]
    BY SettleEffect
  <1> QED
    BY <1>1 DEF Unsettled, TypeOK

LEMMA CancelSettler ==
  ASSUME TypeOK, SettlerInv, NEW r \in Rooms, CancelNoOpponent(r),
         \A q \in Rooms : Unsettled(q)' => Unsettled(q)
  PROVE  SettlerInv'
  <1>1. /\ UNCHANGED <<second, clients, announced, verdict, setupCompleted, run>>
        /\ \A q \in Rooms : q # r => setupTimer'[q] = setupTimer[q]
    BY DEF CancelNoOpponent, seatVars, gameVars, TypeOK
  <1>2. ~Unsettled(r)'
    BY SettleCloses DEF CancelNoOpponent
  <1>3. \A q \in Rooms : q # r => RoomSame(q)
    BY <1>1 DEF RoomSame
  <1> QED
    BY <1>1, <1>2, <1>3, ClosedSettler

LEMMA SaveSettler ==
  ASSUME TypeOK, SettlerInv, NEW r \in Rooms, SaveResult(r),
         \A q \in Rooms : Unsettled(q)' => Unsettled(q)
  PROVE  SettlerInv'
  <1>1. /\ UNCHANGED <<second, clients, announced, verdict, setupCompleted, setupTimer>>
        /\ run'[r] = "cleaning" /\ announced[r] # Undecided
        /\ \A q \in Rooms : q # r => run'[q] = run[q]
    BY DEF SaveResult, seatVars, gameVars, TypeOK
  <1>2. \A q \in Rooms : q # r => RoomSame(q)
    BY <1>1 DEF RoomSame
  <1>3. CASE ~Unsettled(r)'
    BY <1>1, <1>2, <1>3, ClosedSettler
  <1>4. CASE Unsettled(r)'
    <2>1. Unsettled(r)
      BY <1>4
    <2>2. verdict[r] = Undecided
      BY <1>4, <2>1, SettleCloses DEF SaveResult
    <2>3. SettlerOK(r)
      BY DEF SettlerInv
    <2>4. SettlerOK(r)'
      BY <1>1, <2>2, <2>3 DEF SettlerOK, Playing
    <2> QED
      BY <1>2, <2>4, OneRoomSettler
  <1> QED
    BY <1>3, <1>4

LEMMA RegisterSettler ==
  ASSUME TypeOK, SettlerInv, NEW r \in Rooms, HandleRegister(r),
         \A q \in Rooms : Unsettled(q)' => Unsettled(q)
  PROVE  SettlerInv'
  <1>1. PICK c : c = Head(registerQ[r])
    OBVIOUS
  <1>2. c \in Conns /\ c # NoConn
    BY <1>1, HubAssumption DEF HandleRegister, TypeOK
  <1>3. /\ run[r] = "select" /\ UNCHANGED <<second, announced>>
        /\ clients' = [clients EXCEPT ![r] = [clients[r] EXCEPT ![UserOf[c]] = c]]
        /\ \E result \in {verdict[r]} \cup Rejudged(r, c) : verdict' = [verdict EXCEPT ![r] = result]
    BY <1>1 DEF HandleRegister
  <1>4. PICK replayed \in BOOLEAN, ready \in BOOLEAN :
           /\ replayed => CanCompleteSetup(r)
           /\ ready => KeyOf[r].game = "rps"
           /\ setupCompleted' = [setupCompleted EXCEPT ![r] = @ \/ replayed \/ ready]
           /\ IF replayed THEN StopSetup(r) ELSE UNCHANGED setupTimer
    <2>1. PICK replayed \in BOOLEAN :
           /\ replayed => CanCompleteSetup(r) /\ ~setupCompleted[r]
           /\ setupCompleted' =
                [setupCompleted EXCEPT ![r] = \/ @
                                              \/ replayed
                                              \/ /\ KeyOf[r].game = "rps"
                                                 /\ Cardinality(Present([clients[r] EXCEPT ![UserOf[c]] = c])) = 2]
           /\ IF replayed THEN StopSetup(r) ELSE UNCHANGED setupTimer
      BY <1>1 DEF HandleRegister
    <2>2. PICK ready \in BOOLEAN :
            ready <=> /\ KeyOf[r].game = "rps"
                      /\ Cardinality(Present([clients[r] EXCEPT ![UserOf[c]] = c])) = 2
      OBVIOUS
    <2> QED
      BY <2>1, <2>2
  <1>5. \A q \in Rooms, v \in Users :
          clients'[q][v] = IF q = r /\ v = UserOf[c] THEN c ELSE clients[q][v]
    <2>1. clients \in [Rooms -> [Users -> Conns \cup {NoConn}]]
      BY DEF TypeOK
    <2> QED
      BY ONLY <1>3, <2>1, r \in Rooms
  <1>6. \A q \in Rooms, v \in Users : clients[q][v] # NoConn => clients'[q][v] # NoConn
    BY <1>2, <1>5
  <1>7. /\ run'[r] \in Playing
        /\ \A q \in Rooms : q # r => run'[q] = run[q]
    BY DEF HandleRegister, LoopTop, TypeOK, Playing
  <1>8. /\ setupCompleted'[r] = (setupCompleted[r] \/ replayed \/ ready)
        /\ \A q \in Rooms : q # r => setupCompleted'[q] = setupCompleted[q]
    BY <1>4 DEF TypeOK
  <1>9. /\ replayed \/ setupTimer'[r] = setupTimer[r]
        /\ \A q \in Rooms : q # r => setupTimer'[q] = setupTimer[q]
    BY <1>4 DEF TypeOK, StopSetup
  <1>10. \A q \in Rooms : q # r => RoomSame(q)
    <2>1. \A q \in Rooms : q # r => verdict'[q] = verdict[q]
      BY <1>3 DEF TypeOK
    <2> QED
      BY <1>3, <1>6, <1>7, <1>8, <1>9, <2>1 DEF RoomSame
  <1>11. SettlerOK(r)'
    <2>1. SettlerOK(r) /\ run[r] \in Playing
      BY <1>3 DEF SettlerInv, Playing
    <2>2. KeyOf[r].game = "mines" /\ setupCompleted'[r] => second[r] # NoUser
      BY <1>4, <1>8, <2>1 DEF SettlerOK, CanCompleteSetup
    <2>3. /\ First(r) \in Users /\ First(r)' = First(r)
          /\ second[r] # NoUser => second[r] \in Users
      BY BetType DEF First, TypeOK
    <2>4. run'[r] \notin {"cleaning", "forgetting", "exited"}
      BY <1>7 DEF Playing
    <2>5. Unsettled(r)' => setupTimer'[r] \in {"armed", "cancelling"} \/ setupCompleted'[r]
      BY <1>8, <1>9, <2>1 DEF SettlerOK
    <2>6. Unsettled(r)' /\ second[r] # NoUser =>
            clients'[r][First(r)] # NoConn /\ clients'[r][second[r]] # NoConn
      BY <1>6, <2>1, <2>3 DEF SettlerOK
    <2>7. announced'[r] # Undecided =>
            setupCompleted'[r] /\ (verdict'[r] # announced'[r] => second[r] # NoUser)
      <3>1. verdict'[r] = verdict[r] \/ Rejudged(r, c) # {}
        BY <1>3 DEF TypeOK
      <3> QED
        BY <1>3, <1>8, <2>1, <3>1, OnlyOpposed DEF SettlerOK
    <2> QED
      BY <1>3, <2>2, <2>3, <2>4, <2>5, <2>6, <2>7 DEF SettlerOK
  <1> QED
    BY <1>10, <1>11, OneRoomSettler

LEMMA DisconnectSettler ==
  ASSUME TypeOK, AlikeInv, SettlerInv, NEW r \in Rooms, HandleDisconnect(r),
         \A q \in Rooms : Unsettled(q)' => Unsettled(q)
  PROVE  SettlerInv'
  <1>1. PICK u : u = UserOf[Head(disconnectQ[r])]
    OBVIOUS
  <1>2. PICK left : left = Present(clients[r]) \ {u}
    OBVIOUS
  <1>3. /\ run[r] = "select" /\ clients' = [clients EXCEPT ![r][u] = NoConn]
        /\ UNCHANGED <<second, announced, verdict, setupCompleted, setupTimer>>
        /\ run' = [run EXCEPT ![r] = IF Cardinality(left) <= 1 THEN "cleaning" ELSE LoopTop(r)]
    BY <1>1, <1>2 DEF HandleDisconnect, gameVars
  <1>4. \A q \in Rooms : q # r => clients'[q] = clients[q] /\ run'[q] = run[q]
    BY <1>3 DEF TypeOK
  <1>5. \A q \in Rooms : q # r => RoomSame(q)
    BY <1>3, <1>4 DEF RoomSame
  <1>6. CASE ~Unsettled(r)'
    BY <1>3, <1>5, <1>6, ClosedSettler
  <1>7. CASE Unsettled(r)'
    <2>1. Unsettled(r) /\ SettlerOK(r) /\ run[r] \in Playing
      BY <1>3, <1>7 DEF SettlerInv, Playing
    \* Neither a forfeit nor a refund: a third player left, if that could be.
    <2>2. second[r] # NoUser /\ Cardinality(left) # 1
      BY <1>1, <1>2, <1>7, <2>1, SettleCloses DEF HandleDisconnect
    <2>3. /\ clients[r][First(r)] # NoConn /\ clients[r][second[r]] # NoConn
          /\ First(r) \in Users /\ second[r] \in Users /\ second[r] # First(r)
      BY <2>1, <2>2, BetType DEF SettlerOK, AlikeInv, TypeOK
    <2>4. Present(clients[r]) = {First(r), second[r]}
      BY <2>3, ClientsAreSeated DEF Present
    <2>5. u # First(r) /\ u # second[r]
      <3>1. ASSUME NEW v, left = {v} PROVE FALSE
        BY <2>2, <3>1, FS_Singleton
      <3> QED
        BY <1>2, <2>3, <2>4, <3>1
    <2>6. left = {First(r)} \cup {second[r]}
      BY <1>2, <2>4, <2>5
    <2>7. Cardinality(left) = 2
      <3>1. PICK a \in Users, b \in Users : a = First(r) /\ b = second[r] /\ b \notin {a}
        BY <2>3
      <3>2. IsFiniteSet({a}) /\ Cardinality({a}) = 1
        BY FS_Singleton
      <3>3. Cardinality({a} \cup {b}) = 1 + 1
        BY <3>1, <3>2, FS_AddElement
      <3>4. left = {a} \cup {b}
        BY <2>6, <3>1
      <3> QED
        BY <3>3, <3>4
    <2>8. run'[r] \in Playing
      BY <1>3, <2>7 DEF LoopTop, TypeOK, Playing
    <2>9. clients'[r][First(r)] # NoConn /\ clients'[r][second[r]] # NoConn
      BY <1>3, <2>3, <2>5 DEF TypeOK
    <2>10. First(r)' = First(r)
      BY DEF First
    <2>11. run'[r] \notin {"cleaning", "forgetting", "exited"}
      BY <2>8 DEF Playing
    <2>12. SettlerOK(r)'
      BY <1>3, <2>1, <2>9, <2>10, <2>11 DEF SettlerOK
    <2> QED
      BY <1>5, <2>12, OneRoomSettler
  <1> QED
    BY <1>6, <1>7

\* The janitor takes away a client who is alone in his room.
LEMMA JanitorSettler ==
  ASSUME OneConnection, TypeOK, SeatInv, AlikeInv, SettlerInv, NEW k \in Keys, CleanupStaleWaiting(k)
  PROVE  SettlerInv'
  <1>1. PICK w \in Conns : w = waitingByKey[k]
    BY DEF CleanupStaleWaiting, TypeOK
  <1>2. /\ w # NoConn
        /\ UNCHANGED <<second, announced, verdict, setupCompleted, setupTimer, run, betPaid>>
    BY <1>1 DEF CleanupStaleWaiting, gameVars, moneyVars
  <1>3. PICK u \in Users, r \in Rooms \cup {NoConn} : u = UserOf[w] /\ r = userRoom[u]
    BY HubAssumption DEF TypeOK
  <1>4. (r \in rooms /\ clients' = [clients EXCEPT ![r][u] = NoConn]) \/ clients' = clients
    BY <1>1, <1>3 DEF CleanupStaleWaiting
  <1>5. room[w] = w /\ second[w] = NoUser /\ w \in Rooms
    BY <1>1, <1>2 DEF AlikeInv, Rooms
  <1>6. r \in rooms => r = w
    <2>1. ASSUME r \in rooms
          PROVE  r = w
      <3>1. r # NoConn
        BY <2>1, HubAssumption DEF TypeOK, Rooms
      <3>2. Staker(room, r, UserOf[w])
        BY <1>3, <3>1 DEF SeatInv
      <3> QED
        BY <1>5, <3>2, RoomOfStaker
    <2> QED
      BY <2>1
  <1>7. \A q \in Rooms : q # w => clients'[q] = clients[q]
    BY <1>4, <1>6 DEF TypeOK
  <1>8. \A q \in Rooms : Unsettled(q)' = Unsettled(q)
    BY <1>2 DEF Unsettled, Bet
  <1>9. \A q \in Rooms : q # w => RoomSame(q)
    BY <1>2, <1>7, <1>8 DEF RoomSame
  <1>10. SettlerOK(w)
    BY <1>5 DEF SettlerInv
  <1>11. SettlerOK(w)'
    BY <1>2, <1>5, <1>8, <1>10 DEF SettlerOK
  <1> QED
    BY <1>5, <1>9, <1>11, OneRoomSettler

LEMMA SettlerStep ==
  ASSUME OneConnection, TypeOK, MoneyInv, AssignInv, SeatInv, AlikeInv, SettlerInv, [Next]_vars
  PROVE  SettlerInv'
  <1>1. \A q \in Rooms : Unsettled(q)' => Unsettled(q)
    BY SettledStays
  <1>2. CASE UNCHANGED <<second, clients, announced, verdict, setupCompleted, setupTimer, run>>
    BY <1>1, <1>2, AllSameSettler DEF RoomSame
  <1>3. ASSUME NEW c \in Conns, Reserve(c) \/ UpgradeFails(c) \/ SendRegister(c) \/ VanishEarly(c) \/ Disconnect(c)
        PROVE  SettlerInv'
    BY <1>2, <1>3 DEF Reserve, UpgradeFails, SendRegister, VanishEarly, Disconnect, seatVars, gameVars
  <1>4. ASSUME NEW c \in Conns, JoinRoom(c) \/ CreateRoom(c) PROVE SettlerInv'
    BY <1>4, JoinSettler, CreateSettler
  <1>5. ASSUME NEW c \in Conns, CompleteSetup(c) \/ OverwriteMove(c) PROVE SettlerInv'
    BY <1>5, SetupSettler, OverwriteSettler
  <1>6. ASSUME NEW r \in Rooms, SetupStep(r) PROVE SettlerInv'
    BY <1>1, <1>6, TimeoutSettler, CancelSettler, CleanupSettler DEF SetupStep
  <1>7. ASSUME NEW r \in Rooms, RunStep(r) PROVE SettlerInv'
    BY <1>1, <1>7, RegisterSettler, DisconnectSettler, SaveSettler, CleanupSettler DEF RunStep
  <1>8. ASSUME NEW r \in Rooms, FinishGame(r) PROVE SettlerInv'
    BY <1>8, FinishSettler
  <1>9. ASSUME NEW r \in Rooms, CleanupStaleRoom(r) PROVE SettlerInv'
    BY <1>2, <1>9 DEF CleanupStaleRoom, seatVars, gameVars
  <1>10. ASSUME NEW k \in Keys, CleanupStaleWaiting(k) PROVE SettlerInv'
    BY <1>10, JanitorSettler
  <1>11. CASE UNCHANGED vars
    BY <1>2, <1>11 DEF vars, seatVars, gameVars
  <1> QED
    BY <1>3, <1>4, <1>5, <1>6, <1>7, <1>8, <1>9, <1>10, <1>11 DEF Next, ConnStep

-----------------------------------------------------------------------------
(* Sums over finite sets.  No element is special: whichever is taken first, *)
(* the rest of the sum is the sum of the rest.                              *)

\* A non-empty set of numbers has a least one.
LEMMA Least ==
  ASSUME NEW S \in SUBSET Nat, S # {}
  PROVE  \E m \in S : \A n \in S : m <= n
  <1> DEFINE R == {ss \in Nat \X Nat : ss[1] < ss[2]}
  <1>1. OpToRel(<, Nat) = R
    BY Zenon DEF OpToRel
  <1>2. IsWellFoundedOn(R, Nat)
    BY NatLessThanWellFounded, <1>1, Zenon
  <1>3. \A n, k \in Nat : n < k => <<n, k>> \in R
    OBVIOUS
  <1> HIDE DEF R
  <1>4. PICK m \in S : \A n \in S : ~ (<<n, m>> \in R)
    BY <1>2, WFMin
  <1>5. \A n \in S : ~(n < m)
    BY <1>3, <1>4
  <1> QED
    BY <1>5

\* A non-empty set of subsets of a finite set has a smallest one.
LEMMA Smallest ==
  ASSUME NEW S, IsFiniteSet(S), NEW B \in SUBSET SUBSET S, B # {}
  PROVE  \E T \in B : \A U \in SUBSET T : U # T => U \notin B
  <1>1. IsWellFoundedOn(StrictSubsetOrdering(S), SUBSET S)
    BY FS_StrictSubsetOrderingWellFounded, FS_FiniteSubsetsOfFinite
  <1>2. PICK T \in B : \A U \in B : ~(<<U, T>> \in StrictSubsetOrdering(S))
    BY <1>1, WFMin
  <1> QED
    BY <1>2 DEF StrictSubsetOrdering

Pick(T) == CHOOSE x \in T : TRUE
Rest(T) == T \ {Pick(T)}

\* g sums up f over every subset of S, in the order of Pick.
SumsUp(g, f, S) ==
  g = [T \in SUBSET S |-> IF T = {} THEN 0 ELSE f[Pick(T)] + g[Rest(T)]]

Totals(g, f, S) == g \in [SUBSET S -> Int] /\ SumsUp(g, f, S)

LEMMA PickType ==
  ASSUME NEW T, T # {}
  PROVE  Pick(T) \in T
  BY DEF Pick

\* Such a function exists: one that is right up to n elements gives one that is
\* right up to n + 1.
LEMMA SumExists ==
  ASSUME NEW S, IsFiniteSet(S), NEW f, \A x \in S : f[x] \in Int
  PROVE  \E g \in [SUBSET S -> Int] : SumsUp(g, f, S)
  <1> DEFINE Sub(n) == {T \in SUBSET S : Cardinality(T) <= n}
             More(g) == [T \in SUBSET S |-> IF T = {} THEN 0 ELSE f[Pick(T)] + g[Rest(T)]]
             Upto(n) == \E g \in [SUBSET S -> Int] : \A T \in Sub(n) : g[T] = More(g)[T]
             Bad == {n \in Nat : ~Upto(n)}
  <1>1. \A T \in SUBSET S : /\ IsFiniteSet(T) /\ Cardinality(T) \in Nat
                            /\ Cardinality(T) <= Cardinality(S)
    BY FS_Subset, FS_CardinalityType
  <1>2. \A T \in SUBSET S : T # {} => /\ Pick(T) \in S /\ Rest(T) \in SUBSET S
                                      /\ Cardinality(Rest(T)) = Cardinality(T) - 1
    BY <1>1, PickType, FS_RemoveElement DEF Rest
  <1>3. \A g \in [SUBSET S -> Int] : More(g) \in [SUBSET S -> Int]
    BY <1>2
  <1>4. Upto(0)
    <2> DEFINE z == [T \in SUBSET S |-> 0]
    <2>1. \A T \in Sub(0) : T = {}
      BY <1>1, FS_EmptySet
    <2>2. z \in [SUBSET S -> Int] /\ \A T \in Sub(0) : z[T] = More(z)[T]
      BY <2>1
    <2> QED
      BY <2>2
  <1>5. ASSUME NEW n \in Nat, Upto(n)
        PROVE  Upto(n + 1)
    <2>1. PICK g \in [SUBSET S -> Int] : \A T \in Sub(n) : g[T] = More(g)[T]
      BY <1>5
    <2>2. ASSUME NEW T \in Sub(n + 1)
          PROVE  More(g)[T] = More(More(g))[T]
      <3>1. CASE T = {}
        BY <3>1
      <3>2. CASE T # {}
        <4>1. Rest(T) \in Sub(n)
          BY <1>1, <1>2, <3>2
        <4>2. g[Rest(T)] = More(g)[Rest(T)]
          BY <2>1, <4>1
        <4> QED
          BY <3>2, <4>2
      <3> QED
        BY <3>1, <3>2
    <2> HIDE DEF More, Sub
    <2> QED
      BY <1>3, <2>2
  <1> HIDE DEF Upto
  <1>6. Bad = {}
    <2> SUFFICES ASSUME Bad # {}
                 PROVE  FALSE
      OBVIOUS
    <2>1. PICK m \in Bad : \A n \in Bad : m <= n
      BY Least
    <2>2. m - 1 \in Nat /\ m - 1 \notin Bad
      BY <1>4, <2>1
    <2>3. Upto((m - 1) + 1)
      BY <1>5, <2>2
    <2> QED
      BY <2>1, <2>3
  <1>7. Upto(Cardinality(S))
    BY <1>1, <1>6
  <1>8. PICK g \in [SUBSET S -> Int] : \A T \in Sub(Cardinality(S)) : g[T] = More(g)[T]
    BY <1>7 DEF Upto
  <1>9. \A T \in SUBSET S : g[T] = More(g)[T]
    BY <1>1, <1>8
  <1>10. g = More(g)
    BY <1>9
  <1> QED
    BY <1>10 DEF SumsUp

\* Any element may be taken first.
LEMMA SumsUpAny ==
  ASSUME NEW S, IsFiniteSet(S), NEW f, \A x \in S : f[x] \in Int,
         NEW g, Totals(g, f, S), NEW y \in S
  PROVE  g[S] = f[y] + g[S \ {y}]
  <1> DEFINE Bad == {T \in SUBSET S : \E x \in T : g[T] # f[x] + g[T \ {x}]}
  <1> USE DEF Totals
  <1>0. \A T \in SUBSET S : T # {} => g[T] = f[Pick(T)] + g[T \ {Pick(T)}]
    BY DEF SumsUp, Rest
  <1> SUFFICES ASSUME Bad # {}
               PROVE  FALSE
    OBVIOUS
  <1>1. PICK T \in Bad : \A U \in SUBSET T : U # T => U \notin Bad
    <2>1. Bad \in SUBSET SUBSET S
      OBVIOUS
    <2> HIDE DEF Bad
    <2> QED
      BY <2>1, Smallest
  <1>2. PICK x \in T : g[T] # f[x] + g[T \ {x}]
    BY <1>1
  <1> DEFINE p == Pick(T)
  <1>3. p \in T /\ p # x /\ T \in SUBSET S /\ g[T] = f[p] + g[T \ {p}]
    BY <1>0, <1>2, PickType
  <1> HIDE DEF p
  <1>4. g[T \ {p}] = f[x] + g[(T \ {p}) \ {x}]
    <2>1. T \ {p} \notin Bad /\ T \ {p} \in SUBSET S /\ x \in T \ {p}
      BY <1>1, <1>3
    <2> QED
      BY <2>1
  <1>5. g[T \ {x}] = f[p] + g[(T \ {x}) \ {p}]
    <2>1. T \ {x} \notin Bad /\ T \ {x} \in SUBSET S /\ p \in T \ {x}
      BY <1>1, <1>2, <1>3
    <2> QED
      BY <2>1
  <1> DEFINE V == (T \ {x}) \ {p}
  <1>6. (T \ {p}) \ {x} = V /\ V \in SUBSET S
    BY <1>3
  <1>7. g[V] \in Int /\ f[x] \in Int /\ f[p] \in Int
    BY <1>3, <1>6
  <1>8. g[T \ {p}] = f[x] + g[V] /\ g[T \ {x}] = f[p] + g[V]
    BY <1>4, <1>5, <1>6
  <1> HIDE DEF V
  <1>9. g[T] = f[x] + g[T \ {x}]
    BY <1>3, <1>7, <1>8
  <1> QED
    BY <1>2, <1>9

\* What a set sums up to depends on its elements only.
LEMMA SumsUpSame ==
  ASSUME NEW S, IsFiniteSet(S), NEW f, NEW g, SumsUp(g, f, S),
         NEW U, NEW h, NEW k, SumsUp(k, h, U), S \subseteq U, \A x \in S : f[x] = h[x]
  PROVE  g[S] = k[S]
  <1> DEFINE Bad == {T \in SUBSET S : g[T] # k[T]}
  <1>0. \A T \in SUBSET S : g[T] = (IF T = {} THEN 0 ELSE f[Pick(T)] + g[Rest(T)])
    BY DEF SumsUp
  <1>1. \A T \in SUBSET S : k[T] = (IF T = {} THEN 0 ELSE h[Pick(T)] + k[Rest(T)])
    BY DEF SumsUp
  <1> SUFFICES ASSUME Bad # {}
               PROVE  FALSE
    OBVIOUS
  <1>2. PICK T \in Bad : \A V \in SUBSET T : V # T => V \notin Bad
    <2>1. Bad \in SUBSET SUBSET S
      OBVIOUS
    <2> HIDE DEF Bad
    <2> QED
      BY <2>1, Smallest
  <1>3. T \in SUBSET S /\ T # {} /\ Pick(T) \in T
    BY <1>0, <1>1, <1>2, PickType
  <1>4. g[Rest(T)] = k[Rest(T)] /\ f[Pick(T)] = h[Pick(T)]
    BY <1>2, <1>3 DEF Rest
  <1> QED
    BY <1>0, <1>1, <1>2, <1>3, <1>4


\* What SumFunctionOnSet stands for.
LEMMA SumIs ==
  ASSUME NEW S, IsFiniteSet(S), NEW f, \A x \in S : f[x] \in Int
  PROVE  \E g \in [SUBSET S -> Int] : SumsUp(g, f, S) /\ SumFunctionOnSet(f, S) = g[S]
  <1> DEFINE g == CHOOSE g : SumsUp(g, f, S)
  <1>1. PICK h \in [SUBSET S -> Int] : SumsUp(h, f, S)
    BY SumExists
  <1>2. SumsUp(g, f, S)
    BY <1>1
  <1>3. SumFunctionOnSet(f, S) = g[S]
    BY DEF SumFunctionOnSet, FoldFunctionOnSet, MapThenFoldSet, SumsUp, Pick, Rest
  <1> HIDE DEF g
  <1>4. g[S] = h[S]
    BY <1>1, <1>2, SumsUpSame
  <1> QED
    BY <1>1, <1>3, <1>4

\* The facts about sums that are used below.
LEMMA SumType ==
  ASSUME NEW S, IsFiniteSet(S), NEW f, \A x \in S : f[x] \in Int
  PROVE  SumFunctionOnSet(f, S) \in Int
  <1>1. PICK g \in [SUBSET S -> Int] : SumFunctionOnSet(f, S) = g[S]
    BY SumIs
  <1> QED
    BY <1>1

LEMMA SumNone ==
  ASSUME NEW f
  PROVE  SumFunctionOnSet(f, {}) = 0
  <1>1. IsFiniteSet({}) /\ \A x \in {} : f[x] \in Int
    BY FS_EmptySet
  <1>2. PICK g \in [SUBSET {} -> Int] : SumsUp(g, f, {}) /\ SumFunctionOnSet(f, {}) = g[{}]
    BY <1>1, SumIs
  <1> QED
    BY <1>2 DEF SumsUp

LEMMA SumTake ==
  ASSUME NEW S, IsFiniteSet(S), NEW f, \A x \in S : f[x] \in Int, NEW x \in S
  PROVE  SumFunctionOnSet(f, S) = f[x] + SumFunctionOnSet(f, S \ {x})
  <1> DEFINE R == S \ {x}
  <1>1. PICK g \in [SUBSET S -> Int] : SumsUp(g, f, S) /\ SumFunctionOnSet(f, S) = g[S]
    BY SumIs
  <1>2. g[S] = f[x] + g[R]
    <2>1. Totals(g, f, S)
      BY <1>1 DEF Totals
    <2>2. g[S] = f[x] + g[S \ {x}]
      BY <2>1, SumsUpAny
    <2> QED
      BY <2>2
  <1>3. IsFiniteSet(R) /\ R \subseteq S /\ \A y \in R : f[y] \in Int
    BY FS_Subset
  <1> HIDE DEF R
  <1>4. PICK k \in [SUBSET R -> Int] : SumsUp(k, f, R) /\ SumFunctionOnSet(f, R) = k[R]
    BY <1>3, SumIs
  <1>5. k[R] = g[R]
    BY <1>1, <1>3, <1>4, SumsUpSame
  <1> QED
    BY <1>1, <1>2, <1>4, <1>5 DEF R

\* Two terms are the whole sum.
LEMMA SumOfTwo ==
  ASSUME NEW f, NEW a, NEW b, NEW S \in SUBSET {a, b}, \A x \in S : f[x] \in Nat,
         NEW n \in Nat, \A x \in S : f[x] <= n,
         \A x, y \in S : x # y => f[x] + f[y] <= n
  PROVE  SumFunctionOnSet(f, S) \in Nat /\ SumFunctionOnSet(f, S) <= n
  <1>1. \A x : IsFiniteSet({x}) /\ SumFunctionOnSet(f, {x} \ {x}) = 0
    BY FS_Singleton, SumNone
  <1>2. CASE S = {}
    BY <1>2, SumNone
  <1>3. ASSUME NEW x, S = {x}
        PROVE  SumFunctionOnSet(f, S) \in Nat /\ SumFunctionOnSet(f, S) <= n
    <2>1. f[x] \in Nat /\ f[x] <= n /\ x \in S /\ \A y \in S : f[y] \in Int
      BY <1>3
    <2>2. IsFiniteSet(S) /\ SumFunctionOnSet(f, S \ {x}) = 0
      BY <1>1, <1>3
    <2>3. SumFunctionOnSet(f, S) = f[x] + SumFunctionOnSet(f, S \ {x})
      BY <2>1, <2>2, SumTake
    <2> QED
      BY <2>1, <2>2, <2>3
  <1>4. CASE S = {a, b} /\ a # b
    <2>1. f[a] \in Nat /\ f[b] \in Nat /\ f[a] + f[b] <= n
      BY <1>4
    <2>2. IsFiniteSet(S)
      <3>1. IsFiniteSet({a} \cup {b})
        BY FS_Singleton, FS_AddElement
      <3>2. S = {a} \cup {b}
        BY <1>4
      <3> QED
        BY <3>1, <3>2
    <2>3. S \ {a} = {b}
      BY <1>4
    <2>4. SumFunctionOnSet(f, S) = f[a] + SumFunctionOnSet(f, {b})
      <3>1. a \in S /\ \A y \in S : f[y] \in Int
        BY <1>4
      <3>2. SumFunctionOnSet(f, S) = f[a] + SumFunctionOnSet(f, S \ {a})
        BY <2>2, <3>1, SumTake
      <3> QED
        BY <2>3, <3>2
    <2>5. SumFunctionOnSet(f, {b}) = f[b] + SumFunctionOnSet(f, {b} \ {b})
      <3>1. PICK B : B = {b}
        OBVIOUS
      <3>2. IsFiniteSet(B)
        BY <1>1, <3>1
      <3>3. b \in B /\ \A y \in B : f[y] \in Int
        BY <2>1, <3>1
      <3>4. SumFunctionOnSet(f, B) = f[b] + SumFunctionOnSet(f, B \ {b})
        BY ONLY <3>2, <3>3, SumTake
      <3> QED
        BY <3>1, <3>4
    <2> QED
      BY <1>1, <2>1, <2>4, <2>5
  <1>5. S = {} \/ S = {a} \/ S = {b} \/ (S = {a, b} /\ a # b)
    OBVIOUS
  <1> QED
    BY <1>2, <1>3, <1>4, <1>5
-----------------------------------------------------------------------------
(* What a room hands out.                                                  *)

\* A room pays the pot at most, to two users, and one stake as long as nobody
\* came and no result was announced.
StakeInv ==
  \A r \in Rooms :
    /\ PaysTwo(paid[r])
    /\ AtMost(paid[r], 2 * Bet(r))
    /\ second[r] = NoUser /\ announced[r] = Undecided => AtMost(paid[r], Bet(r))

\* An opponent who came and a result that was announced stay.
LEMMA MatchStays ==
  ASSUME TypeOK, TypeOK', [Next]_vars
  PROVE  \A r \in Rooms : /\ second'[r] = NoUser => second[r] = NoUser
                          /\ announced'[r] = Undecided => announced[r] = Undecided
  <1> DEFINE Stay == \A r \in Rooms : /\ second'[r] = NoUser => second[r] = NoUser
                                      /\ announced'[r] = Undecided => announced[r] = Undecided
  <1>1. ASSUME NEW c \in Conns, JoinRoom(c) PROVE Stay
    <2>1. UserOf[c] # NoUser
      BY HubAssumption
    <2>2. PICK q : second' = [second EXCEPT ![q] = UserOf[c]]
      BY <1>1 DEF JoinRoom, SetSecondPlayer
    <2>3. \A r \in Rooms : second'[r] = second[r] \/ second'[r] = UserOf[c]
      BY <2>2 DEF TypeOK
    <2> QED
      BY <1>1, <2>1, <2>3 DEF JoinRoom
  <1>2. ASSUME NEW r \in Rooms, FinishGame(r) PROVE Stay
    BY <1>2 DEF FinishGame, seatVars, TypeOK
  <1>3. CASE UNCHANGED <<second, announced>>
    BY <1>3
  <1>4. \/ UNCHANGED <<second, announced>>
        \/ \E c \in Conns : JoinRoom(c)
        \/ \E r \in Rooms : FinishGame(r)
    BY DEF Next, ConnStep, SetupStep, RunStep, vars, seatVars, gameVars, Reserve, UpgradeFails,
           CreateRoom, SendRegister, VanishEarly, Disconnect, CompleteSetup, OverwriteMove,
           SetupTimeout, CancelNoOpponent, CancelCleanup, HandleRegister, HandleDisconnect,
           SaveResult, RunCleanup, CollectClients, Cleanup, CleanupStaleRoom,
           CleanupStaleWaiting
  <1> QED
    BY <1>1, <1>2, <1>3, <1>4

LEMMA StakeStep ==
  ASSUME TypeOK, TypeOK', MoneyInv, AssignInv, SeatInv, StakeInv, [Next]_vars
  PROVE  StakeInv'
  <1>1. \A r \in Rooms : /\ second'[r] = NoUser => second[r] = NoUser
                         /\ announced'[r] = Undecided => announced[r] = Undecided
    BY MatchStays
  <1>2. ASSUME NEW r \in Rooms, paid'[r] = paid[r]
        PROVE  /\ PaysTwo(paid'[r])
               /\ AtMost(paid'[r], 2 * Bet(r))
               /\ second'[r] = NoUser /\ announced'[r] = Undecided => AtMost(paid'[r], Bet(r))
    BY <1>1, <1>2 DEF StakeInv
  <1>3. ASSUME NEW q \in Rooms, NEW amount \in [Users -> Nat], Settlement(q, amount)
        PROVE  \A r \in Rooms :
                 /\ PaysTwo(paid'[r])
                 /\ AtMost(paid'[r], 2 * Bet(r))
                 /\ second'[r] = NoUser /\ announced'[r] = Undecided => AtMost(paid'[r], Bet(r))
    <2>1. PICK landed :
            paid' = [paid EXCEPT ![q] =
                      [v \in Users |-> @[v] + (IF v \in landed THEN amount[v] ELSE 0)]]
      BY <1>3, SettleEffect DEF Settlement
    <2>2. \A r \in Rooms : r # q => paid'[r] = paid[r]
      BY <2>1 DEF TypeOK
    <2>3. paid[q] = Nothing
      BY <1>3 DEF Settlement, Unsettled, MoneyInv
    <2>4. \A v \in Users : paid'[q][v] \in {0, amount[v]}
      BY <2>1, <2>3 DEF TypeOK, Nothing
    <2>5. Bet(q) \in Nat
      BY BetType
    <2>6. AtMost(amount, 2 * Bet(q))
      <3>1. [c \in Conns |-> Bet(c)][q] = Bet(q)
        BY DEF Rooms
      <3> HIDE DEF Bet
      <3>2. /\ amount \in [Users -> 0 .. 2 * Bet(q)]
            /\ \A u, v \in Users : u # v => amount[u] + amount[v] <= 2 * Bet(q)
        BY <1>3, <3>1 DEF Settlement, Escrow!Award
      <3> QED
        BY <2>5, <3>2 DEF AtMost
    <2>7. ASSUME NEW n \in Nat, AtMost(amount, n)
          PROVE  AtMost(paid'[q], n)
      BY <2>4, <2>7 DEF AtMost
    <2>8. AtMost(paid'[q], 2 * Bet(q))
      BY <2>5, <2>6, <2>7
    <2>9. second'[q] = NoUser /\ announced'[q] = Undecided => AtMost(paid'[q], Bet(q))
      BY <1>1, <1>3, <2>5, <2>7 DEF Settlement
    <2>10. PaysTwo(paid'[q])
      BY <1>3, <2>4 DEF Settlement, PaysTwo
    <2> QED
      BY <1>2, <2>2, <2>8, <2>9, <2>10
  <1>4. CASE UNCHANGED <<betPaid, paid>>
    BY <1>2, <1>4 DEF StakeInv, Bet
  <1> QED
    BY <1>3, <1>4, SettleStep DEF StakeInv, Bet

\* The connections that were assigned, finitely many, are in running rooms,
\* and an opponent is a connection other than the one that opened the room.
StakersInv ==
  /\ IsFiniteSet({c \in Conns : room[c] # NoConn})
  /\ \A c \in Conns : room[c] # NoConn => run[room[c]] # "none"
  /\ \A r \in Rooms : second[r] # NoUser => \E c \in Conns \ {r} : room[c] = r

LEMMA StakersStep ==
  ASSUME TypeOK, MoneyInv, AssignInv, SeatInv, StakersInv, [Next]_vars
  PROVE  StakersInv'
  <1>1. \A r \in Rooms : run[r] # "none" => run'[r] # "none"
    BY LifeStep DEF TypeOK
  <1>2. ASSUME NEW c \in Conns, NEW r \in Rooms, room' = [room EXCEPT ![c] = r],
               room[c] = NoConn, run'[r] # "none",
               \A q \in Rooms : second'[q] # second[q] => q = r /\ c # r
        PROVE  StakersInv'
    <2> DEFINE Seated == {d \in Conns : room[d] # NoConn}
    <2>1. {d \in Conns : room'[d] # NoConn} = Seated \cup {c}
      <3>1. r # NoConn /\ room \in [Conns -> Rooms \cup {NoConn}]
        BY HubAssumption DEF TypeOK, Rooms
      <3>2. \A d \in Conns : room'[d] = IF d = c THEN r ELSE room[d]
        BY <1>2, <3>1
      <3>3. \A d \in Conns : room'[d] # NoConn <=> d = c \/ room[d] # NoConn
        BY <3>1, <3>2
      <3> QED
        BY <3>3
    <2>2. IsFiniteSet(Seated \cup {c})
      BY FS_AddElement DEF StakersInv
    <2>3. \A d \in Conns : room'[d] # NoConn => run'[room'[d]] # "none"
      BY <1>1, <1>2 DEF StakersInv, TypeOK, Rooms
    <2>4. \A q \in Rooms : second'[q] # NoUser => \E d \in Conns \ {q} : room'[d] = q
      <3> SUFFICES ASSUME NEW q \in Rooms, second'[q] # NoUser
                   PROVE  \E d \in Conns \ {q} : room'[d] = q
        OBVIOUS
      <3>1. CASE second'[q] = second[q]
        <4>1. PICK d \in Conns \ {q} : room[d] = q
          BY <3>1 DEF StakersInv
        <4>2. d # c
          BY <1>2, <4>1, HubAssumption DEF Rooms
        <4> QED
          BY <1>2, <4>1, <4>2 DEF TypeOK
      <3>2. CASE second'[q] # second[q]
        BY <1>2, <3>2 DEF TypeOK
      <3> QED
        BY <3>1, <3>2
    <2> QED
      BY <2>1, <2>2, <2>3, <2>4 DEF StakersInv
  <1>3. ASSUME NEW c \in Conns, JoinRoom(c) PROVE StakersInv'
    <2> DEFINE w == SlotsSeenBy(c)[KeyOf[c]]
               r == userRoom[UserOf[w]]
    <2>1. /\ pc[c] = "reserved" /\ Joinable(c, w)
          /\ second' = [second EXCEPT ![r] = UserOf[c]]
          /\ room' = [room EXCEPT ![c] = r]
      BY <1>3 DEF JoinRoom, SetSecondPlayer
    <2>2. w \in Conns
      BY <2>1, HubAssumption, SlotsType DEF Joinable
    <2> HIDE DEF w
    <2>3. r \in rooms /\ r \in Rooms /\ r # NoConn
      BY <2>1, HubAssumption DEF Joinable, TypeOK, Rooms
    <2>4. room[c] = NoConn
      BY <2>1 DEF AssignInv
    <2>5. PICK d \in Conns : room[d] = r
      BY <2>2, <2>3, HubAssumption DEF SeatInv, Staker
    <2>6. run[r] # "none" /\ room[r] = r
      BY <2>3, <2>5 DEF StakersInv, AssignInv
    <2>7. c # r /\ run'[r] # "none"
      BY <1>1, <2>3, <2>4, <2>6
    <2>8. \A q \in Rooms : second'[q] # second[q] => q = r
      BY <2>1 DEF TypeOK
    <2> HIDE DEF r
    <2> QED
      BY <1>2, <2>1, <2>3, <2>4, <2>7, <2>8
  <1>4. ASSUME NEW c \in Conns, CreateRoom(c) PROVE StakersInv'
    <2>1. /\ pc[c] = "reserved" /\ second' = second
          /\ room' = [room EXCEPT ![c] = c] /\ run' = [run EXCEPT ![c] = "select"]
      BY <1>4 DEF CreateRoom
    <2>2. room[c] = NoConn /\ run'[c] # "none" /\ c \in Rooms
      BY <2>1 DEF AssignInv, TypeOK, Rooms
    <2> QED
      BY <1>2, <2>1, <2>2
  <1>5. CASE UNCHANGED <<room, second>>
    <2>1. room' = room /\ second' = second
      BY <1>5
    <2>2. \A c \in Conns : room[c] # NoConn => room[c] \in Rooms
      BY DEF TypeOK
    <2> QED
      BY <1>1, <2>1, <2>2 DEF StakersInv
  <1>6. \/ UNCHANGED <<room, second>>
        \/ \E c \in Conns : JoinRoom(c) \/ CreateRoom(c)
    BY DEF Next, ConnStep, SetupStep, RunStep, vars, seatVars, connVars, Reserve, UpgradeFails,
           SendRegister, VanishEarly, Disconnect, CompleteSetup, OverwriteMove, FinishGame,
           SetupTimeout, CancelNoOpponent, CancelCleanup, HandleRegister, HandleDisconnect,
           SaveResult, RunCleanup, CollectClients, Cleanup, CleanupStaleRoom,
           CleanupStaleWaiting
  <1> QED
    BY <1>3, <1>4, <1>5, <1>6

\* A room that runs has a stake of its first player, and of its second.
LEMMA PlayersCounted ==
  ASSUME HubInv, StakersInv, NEW r \in Rooms, run[r] # "none"
  PROVE  LET here == {c \in Conns : room[c] = r}
         IN  /\ Cardinality(here) \in Nat /\ Cardinality(here) >= 1
             /\ second[r] # NoUser => Cardinality(here) >= 2
  <1> DEFINE here == {c \in Conns : room[c] = r}
             Seated == {c \in Conns : room[c] # NoConn}
  <1>1. r \in here
    BY DEF HubInv, AssignInv, Rooms
  <1>2. here \subseteq Seated /\ IsFiniteSet(Seated)
    BY HubAssumption DEF StakersInv, Rooms
  <1>3. second[r] # NoUser => \E d \in here : d # r
    BY DEF StakersInv
  <1> HIDE DEF here, Seated
  <1>4. IsFiniteSet(here) /\ Cardinality(here) \in Nat
    BY <1>2, FS_Subset, FS_CardinalityType
  <1>5. IsFiniteSet({r}) /\ Cardinality({r}) = 1 /\ {r} \subseteq here
    BY <1>1, FS_Singleton
  <1>6. Cardinality(here) >= 1
    BY <1>4, <1>5, FS_Subset
  <1>7. ASSUME NEW d \in here, d # r PROVE Cardinality(here) >= 2
    <2>1. Cardinality({r} \cup {d}) = Cardinality({r}) + 1
      BY <1>5, <1>7, FS_AddElement
    <2>2. {r} \cup {d} \subseteq here
      BY <1>1
    <2>3. Cardinality({r} \cup {d}) <= Cardinality(here)
      BY <1>4, <2>2, FS_Subset
    <2> QED
      BY <1>4, <1>5, <2>1, <2>3
  <1> QED
    BY <1>3, <1>4, <1>6, <1>7 DEF here

\* What a room has credited is within the bound of any two of its credits.
LEMMA TotalIsAtMost ==
  ASSUME TypeOK, NEW r \in Rooms, NEW n \in Nat, AtMost(paid[r], n), PaysTwo(paid[r])
  PROVE  TotalPaid(r) \in Nat /\ TotalPaid(r) <= n
  <1> DEFINE f == paid[r]
             S == {u \in Users : f[u] > 0}
  <1>1. PICK a, b : \A u \in Users : f[u] > 0 => u \in {a, b}
    BY DEF PaysTwo
  <1>2. f \in [Users -> Nat] /\ S \subseteq Users /\ S \in SUBSET {a, b}
    BY <1>1 DEF TypeOK
  <1>3. AtMost(f, n) /\ TotalPaid(r) = SumFunctionOnSet(f, S)
    BY DEF TotalPaid
  <1> HIDE DEF f, S
  <1>4. /\ \A x \in S : f[x] \in Nat /\ f[x] <= n
        /\ \A x, y \in S : x # y => f[x] + f[y] <= n
    BY <1>2, <1>3 DEF AtMost
  <1>5. SumFunctionOnSet(f, S) \in Nat /\ SumFunctionOnSet(f, S) <= n
    BY <1>2, <1>4, SumOfTwo
  <1> QED
    BY <1>3, <1>5

\* A bet times the players is a bet or two.
LEMMA BetTimes ==
  ASSUME NEW b \in Nat, NEW n \in Nat
  PROVE  (n >= 1 => b <= b * n) /\ (n >= 2 => 2 * b <= b * n)
  <1>1. CASE n = 0
    BY <1>1
  <1>2. CASE n = 1
    BY <1>2
  <1>3. CASE n >= 2
    <2>1. n = 2 + (n - 2) /\ n - 2 \in Nat
      BY <1>3
    <2>2. b * n = 2 * b + b * (n - 2) /\ b * (n - 2) \in Nat
      BY <2>1
    <2> QED
      BY <1>3, <2>2
  <1> QED
    BY <1>1, <1>2, <1>3

LEMMA StakesPaid ==
  ASSUME HubInv, StakersInv, StakeInv
  PROVE  PaidFromStakes
  <1> SUFFICES ASSUME NEW r \in Rooms, second[r] # NoUser \/ announced[r] = Undecided
               PROVE  ~(TotalPaid(r) > Bet(r) * Cardinality({c \in Conns : room[c] = r}))
    BY DEF PaidFromStakes
  <1> DEFINE n == Cardinality({c \in Conns : room[c] = r})
             t == TotalPaid(r)
             b == Bet(r)
  <1>1. b \in Nat
    BY BetType
  <1>2. CASE run[r] = "none"
    \* Nobody is in the room, and nobody was paid.
    <2>1. \A c \in Conns : room[c] # r
      BY <1>2, HubAssumption DEF StakersInv, Rooms
    <2>2. {c \in Conns : room[c] = r} = {}
      BY <2>1
    <2>3. n = 0
      BY <2>2, FS_EmptySet
    <2>4. paid[r] = Nothing
      BY <1>2 DEF HubInv, MoneyInv
    <2>5. AtMost(paid[r], 0)
      BY <2>4 DEF AtMost, Nothing
    <2>6. t \in Nat /\ t <= 0
      BY <2>5, TotalIsAtMost DEF HubInv, StakeInv
    <2> HIDE DEF n, t, b
    <2>7. ~(t > b * n)
      BY <1>1, <2>3, <2>6
    <2> QED
      BY <2>7 DEF n, t, b
  <1>3. CASE run[r] # "none"
    <2>1. n \in Nat /\ n >= 1 /\ (second[r] # NoUser => n >= 2)
      BY <1>3, PlayersCounted
    <2>2. /\ AtMost(paid[r], 2 * b)
          /\ second[r] = NoUser /\ announced[r] = Undecided => AtMost(paid[r], b)
          /\ TypeOK /\ PaysTwo(paid[r])
      BY DEF HubInv, StakeInv
    <2>3. /\ t \in Nat /\ t <= 2 * b
          /\ second[r] = NoUser /\ announced[r] = Undecided => t <= b
      BY <1>1, <2>2, TotalIsAtMost
    <2> HIDE DEF n, t, b
    <2>4. b * n \in Nat /\ b <= b * n /\ (n >= 2 => 2 * b <= b * n)
      BY <1>1, <2>1, BetTimes
    <2>5. ~(t > b * n)
      BY <1>1, <2>1, <2>3, <2>4
    <2> QED
      BY <2>5 DEF n, t, b
  <1> QED
    BY <1>2, <1>3
\* A room credits no more than the stakes put into it, unless its rounds were
\* played against the empty seat, however often users connect.
THEOREM PaidFromStakesHolds == Spec => []PaidFromStakes
  <1>1. Init => StakersInv /\ StakeInv
    <2> SUFFICES ASSUME Init
                 PROVE  StakersInv /\ StakeInv
      OBVIOUS
    <2>1. {c \in Conns : room[c] # NoConn} = {} /\ \A r \in Rooms : second[r] = NoUser
      BY DEF Init
    <2>2. \A r \in Rooms : Bet(r) \in Nat /\ 2 * Bet(r) \in Nat
      BY BetType
    <2>3. StakeInv
      BY <2>2 DEF Init, StakeInv, AtMost, PaysTwo, Nothing
    <2> QED
      BY <2>1, <2>3, FS_EmptySet DEF StakersInv
  <1>2. HubInv /\ HubInv' /\ StakersInv /\ StakeInv /\ [Next]_vars => StakersInv' /\ StakeInv'
    BY StakersStep, StakeStep DEF HubInv
  <1>3. HubInv /\ StakersInv /\ StakeInv => PaidFromStakes
    BY StakesPaid
  <1> QED
    BY <1>1, <1>2, <1>3, HubInvariant, PTL DEF Spec
-----------------------------------------------------------------------------
(* The theorems for users who connect once each.                           *)

LEMMA SoloInit == Init => AlikeInv /\ ReachInv /\ LeavingInv /\ SettlerInv
  <1> SUFFICES ASSUME Init
               PROVE  AlikeInv /\ ReachInv /\ LeavingInv /\ SettlerInv
    OBVIOUS
  <1>1. AlikeInv
    BY HubAssumption DEF Init, AlikeInv, Assigned, First, Rooms, Nobody
  <1>2. ReachInv
    BY DEF Init, ReachInv, Waits, Awaited
  <1>3. SettlerInv
    BY DEF Init, SettlerInv, SettlerOK, Playing
  <1>4. LeavingInv
    BY DEF Init, LeavingInv
  <1> QED
    BY <1>1, <1>2, <1>3, <1>4

SoloInv == AlikeInv /\ ReachInv /\ LeavingInv /\ SettlerInv

LEMMA SoloHolds ==
  ASSUME OneConnection
  PROVE  Spec => [](HubInv /\ SoloInv)
  <1>1. HubInv /\ HubInv' /\ SoloInv /\ [Next]_vars => SoloInv'
    BY AlikeStep, ReachStep, LeavingStep, SettlerStep DEF HubInv, SoloInv
  <1>2. Init => SoloInv
    BY SoloInit DEF SoloInv
  <1> QED
    BY <1>1, <1>2, HubInvariant, PTL DEF Spec

\* While each user connects once, whoever is in a room asked for its game and
\* its bet and has one of its two seats, whatever stale slot, dead buffer or
\* late registration the hub comes across.
THEOREM MatchedAlikeHolds ==
  ASSUME OneConnection
  PROVE  Spec => []MatchedAlike
  <1>1. HubInv /\ SoloInv => MatchedAlike
    BY ClientsAreSeated DEF HubInv, SoloInv, MatchedAlike
  <1> QED
    BY <1>1, SoloHolds, PTL

\* While each user connects once, a player who is still there can forfeit:
\* as long as the stakes of his room are open the hub finds it by his user id,
\* whatever the janitor and the cleanup of other rooms remove.
THEOREM LeaverIsSeenHolds ==
  ASSUME OneConnection
  PROVE  Spec => []LeaverIsSeen
  <1>1. HubInv /\ SoloInv => LeaverIsSeen
    BY DEF SoloInv, ReachInv, LeaverIsSeen, Waits, Awaited, Open, Playing
  <1> QED
    BY <1>1, SoloHolds, PTL

\* While each user connects once, somebody is left to settle the open stakes
\* of a room, whoever leaves and when: its setup goroutine, or its loop once
\* the rounds are on; unless a move undid the result before it was saved.
THEOREM SettlerRemainsHolds ==
  ASSUME OneConnection
  PROVE  Spec => []SettlerRemains
  <1>1. HubInv /\ SoloInv => SettlerRemains
    BY DEF HubInv, TypeOK, SoloInv, SettlerInv, SettlerOK, SettlerRemains, Playing
  <1> QED
    BY <1>1, SoloHolds, PTL
=============================================================================
