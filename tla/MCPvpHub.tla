------------------------------ MODULE MCPvpHub ------------------------------
(* Instances of PvpHub for TLC: who connects, and for which game and bet.  *)
EXTENDS PvpHub, TLC

CONSTANTS u1, u2, u3, c1, c2, c3

Rps1 == [game |-> "rps", bet |-> 1]
Rps2 == [game |-> "rps", bet |-> 2]
Mines1 == [game |-> "mines", bet |-> 1]
Mines2 == [game |-> "mines", bet |-> 2]

\* Three users may connect, once each: two for one bet, the third for another.
OnceUserOf == c1 :> u1 @@ c2 :> u2 @@ c3 :> u3
RpsKeys == {Rps1, Rps2}
RpsKeyOf == c1 :> Rps1 @@ c2 :> Rps1 @@ c3 :> Rps2
MinesKeys == {Mines1, Mines2}
MinesKeyOf == c1 :> Mines1 @@ c2 :> Mines1 @@ c3 :> Mines2

\* At the RPS tables u1 with c1 and u2 with c2 may change places (safety only).
RpsSymmetry == {p \in Permutations({u1, u2, c1, c2}) :
                  \A c \in {c1, c2} : p[c] \in {c1, c2} /\ OnceUserOf[p[c]] = p[OnceUserOf[c]]}

\* u1 connects twice, for two different bets; u2 asks for the first of them.
AgainKeys == {Mines1, Mines2}
AgainUserOf == c1 :> u1 @@ c2 :> u1 @@ c3 :> u2
AgainKeyOf == c1 :> Mines1 @@ c2 :> Mines2 @@ c3 :> Mines1
=============================================================================
