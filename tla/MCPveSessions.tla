---------------------------- MODULE MCPveSessions ----------------------------
(* Instances of PveSessions for TLC: CoinFlip Pro with its first rounds. *)
EXTENDS PveSessions, TLC

\* The bet times 1.5, 2.0 and 3.0, rounded down.
FirstPrizes == [b \in Bets |-> [n \in 1 .. MaxRounds |-> (b * (<<3, 4, 6>>)[n]) \div 2]]

\* Calls and games are interchangeable.
CallsAndGames == Permutations(Calls) \cup Permutations(Games)
=============================================================================
