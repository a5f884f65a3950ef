------------------------------ MODULE PvpEscrow ------------------------------
(***************************************************************************)
(* What a PvP room promises about money, whatever happens to its players,  *)
(* its timers and its connections: the stakes of a room are open until one *)
(* settlement closes them, and a settlement never hands out more than the  *)
(* two stakes of the room (internal/ws/room.go: betPaid, payoutWinner,     *)
(* refundBet, winnerPayoutMultiplier).                                     *)
(***************************************************************************)
EXTENDS Integers

CONSTANTS Rooms,   \* every room that may ever be created
          Users,   \* the users that can be credited
          BetOf    \* the stake each player of a room puts in, a number per room

VARIABLES status,  \* status[r]: "none", "open" or "settled"
          credit   \* credit[r][u]: what the settlement of r gave to u

escrowVars == <<status, credit>>

NoCredit == [u \in Users |-> 0]

\* What one settlement may hand out: no two users together more than the pot.
Award(r, award) ==
  /\ award \in [Users -> 0 .. 2 * BetOf[r]]
  /\ \A u, v \in Users : u # v => award[u] + award[v] <= 2 * BetOf[r]

Init ==
  /\ status = [r \in Rooms |-> "none"]
  /\ credit = [r \in Rooms |-> NoCredit]

Open(r) ==
  /\ status[r] = "none"
  /\ status' = [status EXCEPT ![r] = "open"]
  /\ UNCHANGED credit

Settle(r) ==
  /\ status[r] = "open"
  /\ status' = [status EXCEPT ![r] = "settled"]
  /\ \E award \in [Users -> 0 .. 2 * BetOf[r]] :
        /\ Award(r, award)
        /\ credit' = [credit EXCEPT ![r] = award]

Next == \E r \in Rooms : Open(r) \/ Settle(r)

Spec == Init /\ [][Next]_escrowVars
=============================================================================
