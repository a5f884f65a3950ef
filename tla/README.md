# Verification of the Telegram mini-app backend

TLA+ models of the Go backend in `src/backend/internal`, checked with TLC, and theorems about
them, proved with TLAPS. Paths below are relative to `src/backend/internal` unless they begin
with `src/`. `PROJECT.json` maps every definition that models code to its lines.

The backend serves gambling mini-games. Users own *gems* and *coins* (PostgreSQL rows); they
play against each other over WebSockets, alone over HTTP, buy coins with TON and withdraw them.
What makes it hard is that money lives in SQL statements while games live in memory, and that
requests, room loops, timers and admin commands run in goroutines of their own.

## 1. Inventory

| part | state it keeps | operations | who talks to whom |
|---|---|---|---|
| PvP hub and rooms: `ws/hub.go`, `room.go`, `client.go`, `http/handlers/ws.go` | `Hub.Rooms`, `UserRoom`, `WaitingByKey` under `Hub.mu`; `Clients`, `betPaid`, timers, two channels per room; the balances | `WS`, `AssignClient`, `readPump`, `OnDisconnect`, `Room.Run` and its setup goroutine, `handleRegister`, `handleDisconnect`, `saveResult`, `cleanup`, the janitor | connections call the hub, the hub starts a `Run` loop per room, clients reach it by `Register` and `Disconnect`, the room credits users by SQL and calls back into the hub |
| PvP rounds: `ws/room.go`, `game/rps.go`, `game/mines.go` | moves, boards, round, result; `setupDone`, `roundStarted`, `roundChecking`, `timer` | `HandleMessage`, `startRound`, `handleRoundTimeout`, `checkRound`, `completeSetup` | player goroutines, the Run loop, the setup goroutine and timers share one room |
| TON withdrawals: `http/handlers/ton.go`, `service/admin_service.go`, `repository/withdrawal_repo.go` | `users.coins`, `wallets`, `withdrawals` | request, cancel, connect and disconnect a wallet, approve, reject | requests of users and commands of admins meet in the tables only |
| PvE sessions: `service/{coinflip,mines}_pro_service.go`, `game/{coinflip_pro,mines_pve}.go` | `activeGames` in memory, the game, `users.gems` | start, flip or reveal, cash out, cleanup after an hour | requests of one user share his game |
| TON deposits: `service/deposit_watcher.go`, `repository/deposit_repo.go` | `deposits` (unique hash), `users.coins` | poll, `processTransaction`, `RecordManualDeposit`, `CreateManualDeposit` | a poller every 30 s, a development route and an admin command, through the tables |
| Quests: `repository/quest_repo.go`, `handlers/{quest,game_record}.go` | `quests`, `user_quests`, rewards | `RecordGameResult`, `IncrementProgress`, `ClaimReward`, create, toggle, delete | every finished game moves quests, in a goroutine of its own |
| Referrals, milestones, levels: `repository/referral_repo.go`, `handlers/{referral,upgrade,auth}.go` | `referral_code`, `referred_by`, `referrals`, `gk_rewards_claimed`, `gk`, `character_level` | codes, the two ways of an invitation, milestones, upgrades, `/addgk` | requests of one user race over his rows |
| Balance ledger and one-shot games: `service/{balance,game}_service.go`, `handlers/{api,games_pve,profile}.go` | `users.gems`, `transactions` | one transaction per game, transfer, adjustment, bonus; the admin's gem commands | transactions meet in locked rows |
| Admin bot: `bot/admin_bot.go` | `adminIDs`, `broadcastPending`, `questCreation`, the offset of Telegram | `Start`, `handleCommand`, the broadcast and quest dialogues, `Stop` | Telegram delivers, every update gets a goroutine |
| Rate limiters: `http/middleware` | counters per client | count and refuse | before every request |
| The rest: tokens, audit rows, history, leaderboard, configuration, metrics, React frontend | none that decides anything | | |

Hard behaviours, and what must hold in spite of them (each at its line in `hazards`):

* **Interleaving.** A room is touched by two readers, a loop, a setup goroutine and a timer; a
  result must be judged once, announced as it is saved, and paid once. Two requests of a user
  race over one game or one withdrawal.
* **State used after an unlock.** `AssignClient` hands out a room that a cleanup may delete;
  `Flip` asks whether the game is over after its own move; `ApproveWithdrawal` pays on a status
  it read earlier; `IncrementProgress` writes back what it read.
* **Partial failure and crashes.** A debit and the row it pays for are two statements.
* **Delivered again.** Every poll of the watcher returns transactions seen before; Telegram
  delivers updates again after a restart; users repeat claims.
* **Locks.** Two transfers in opposite directions lock the same two rows.
* **Stale entries.** `UserRoom`, `WaitingByKey` and `activeGames` outlive what they point to.
* **Liveness.** Stakes must not stay open for ever, whoever disappears.

## 2. Modules

| module | models | theorems in |
|---|---|---|
| `PvpEscrow` | abstract: each room opens its stakes, and settles them once for at most the pot | |
| `PvpHub` | matchmaking, the life of a room, its money | `PvpHubProofs` |
| `RoomRounds` | the rounds of one room | `RoundsAndBotProofs` |
| `Withdrawals` | wallets and withdrawals | `WithdrawalsProofs` |
| `PveSessions` | CoinFlip Pro and Mines Pro | `PveSessionsProofs` |
| `PayOnce` | abstract: a thing is taken by one payee for good, and paid to him at most once | |
| `Deposits` | TON deposits | `DepositsProofs` |
| `Quests` | progress and rewards of quests | `QuestsProofs` |
| `Referrals` | invitations, milestones, levels | `ReferralsProofs` |
| `Ledger` | gems, their journal, row locks | `LedgerProofs` |
| `AdminBot` | updates, goroutines, dialogues of the bot | `RoundsAndBotProofs` |

`MC...` modules only give constants their values. Definitions named as mutants are plausible bugs
of the definition below them; nothing else uses them. Definitions keep the names of the functions
they translate where those are unique. `RoomRounds` and `AdminBot` are small and share a module of
proofs, so the names of `AdminBot` that would clash begin with `Bot`.

### PvpHub and PvpEscrow

A connection walks through `pc`: its bet is taken (`Reserve`, the debit of `WS`), it is assigned
to a room under `Hub.mu` (`JoinRoom`, `CreateRoom`), registers through the channel
(`SendRegister`) and drops (`VanishEarly`, `Disconnect`). `SetupTimeout`, `CancelNoOpponent` and
`CancelCleanup` are the setup goroutine; `HandleRegister`, `HandleDisconnect`, `SaveResult` and
`RunCleanup` the loop; `CleanupStaleWaiting` and `CleanupStaleRoom` the janitor. Each is one
critical section or one handler: what a handler does under its lock is one step, what it does
after the unlock is the next. A room is named by the connection that creates it, because
`roomSeq` makes its id fresh. The rounds are abstract: once the setup is complete the game may
end (`FinishGame`) with any result, and a move that comes after it may still change the result
(`OverwriteMove`, or a replay in `HandleRegister`): of a Mines player who replaces his move, or of
whoever sits down at an RPS table that was decided against the empty seat (`Rejudged`). `cleanup`
is two steps, as it is two critical sections: under `Room.mu` it notes who is in the room
(`CollectClients`; two goroutines may do so), under `Hub.mu` it removes them (`Cleanup`).
`Status` and `paid` map to `PvpEscrow`. `MaxRequests` bounds how many connections are made.

Not in it: bets in a second currency next to the first (the same code with another column), the
debit rolled back for an invalid user, the legacy handlers of `ws/handler.go` (no route
uses them; `/ws` is served by `http/handlers/ws.go`), the history rows, the age of rooms.

### RoomRounds

Starts when the second player is seated. Each goroutine has a `pc`; a step is one critical
section of `Room.mu` or of the game. Messages that arrive before the registration are taken as
messages of `readPump`. Two of the three RPS moves give every outcome; a Mines move is a hit or a
miss, because a cell only counts for the mine under it. A board is absent, bare (its placement was
out of range, and the setup never completes) or mined; bots mine absent boards only, and when a
placement slips in between their question and their call they move instead (`LateMoves`). The second player's registration is the
one that polls `checkRound`; the first player's moves before an opponent comes, and disconnections,
belong to `PvpHub`. `busy` stands for real time: a round timer (15 or 20 s) does not fire while a
goroutine that was at work when it was started still works.

### Withdrawals

None of the user's handlers opens a transaction, so each SQL statement is a step, with its
failure (`StatementFails`) and a crash between any two. A statement that reports an error has
changed nothing: a commit whose acknowledgement is lost is not modelled. `SendTON` may have
paid and report an error. `orderly` and `clean` are history variables: users whose requests never
overlapped, withdrawals whose calls never overlapped and ran to their end. Amounts in TON
(floating point), the fee and notifications are left out; coins from deposits do not enter.

### PveSessions

The two services have the same control flow, so one module is either of them: a round is a won
flip or a safe cell, `Prize` what a bet has won after some rounds, rounded down. Their maps are
separate, so one at a time suffices. Lookup, move, the second look at `IsActive`, deletion from
the map, the credit and the recording by the handler are steps. `intact` holds the games that lost
no statement and were not forgotten by a restart or by the cleanup, the age of a game being free.
Gems that change elsewhere are left out.

### Deposits

One worker is the watcher (`Poll`, `ProcessNext`), the others run `RecordManualDeposit`; their
statements are the same steps `TxHashExists`, `GetByAnyAddress`, `GetByID`, `Create` and
`UpdateCoins`, each of which may fail, with `Restart` between any two. `CreateManualDeposit` is one
transaction and one step. The chain (`Send`) gives a poll its last `Window` transactions. What a
payment carries (memo, sender, amount) is a constant function; one that brings in nothing is a
withdrawal, which takes up a place of the window and is dropped (`Incoming`). `1 TON` is `NanoTON` units, so
that the rounding of coins and the two rates of the code show.

Not in it: the notification, the audit row, `gems_credited` (which `RecordManualDeposit` leaves
0), and what depends on the text of a memo: any digits in it are taken for a user id, and one
longer than 100 characters makes the `INSERT` fail at every poll, so that `PaymentIsRecorded` is
about memos that fit.

### Quests

`RecordGame` is a game that ends: it starts the goroutine, whose SELECT, INSERT and UPDATE of
each quest are steps. A claim marks the row (`ClaimReward`) and pays in another statement
(`CreditReward`). The admin creates, hides and deletes quests, the last in two statements. Days
pass. `played` counts the games that should count, and `lost` names the users for whom something
overlapped, failed or was deleted: for everybody else progress is exact.

### Referrals

A request is a record in `request`: its stage is the statement it is about to execute. It may
stop (`Fail`) after any. A code is the number of its drawing, so two draws never agree, which
48 random bits and the UNIQUE column with five retries give. `torn` and `hasty` name the users
whose applications, or claims, overlapped or were cut short.

### Ledger

A transaction is a program of statements (`runs`), a step each; `owner` is the row lock, `delta`
what it has written and nobody sees yet, `book` its journal rows, whose amounts the code computes
apart from the updates (`Amounts`). `Commit` applies both, `Rollback` drops them. Statements outside transactions wait for the row and are one step.
`unmatched` sums what changed without a journal row, or the reverse; `least` is the lowest
balance an admin has set. The games differ in their prizes only, so an outcome is any prize of the
table. `BalanceService` has no caller in the routes yet; its operations are requests here.

### AdminBot

`log` is what people wrote; `Fetch` delivers it to the channel and confirms what was fetched
before, `Dispatch` starts a goroutine, whose accesses to the maps are steps (`Handle`): a dialogue
is read in one and written in another, so overlapping answers may both answer one question. `Restart`
forgets the memory of the process and takes the updates from the last confirmed one. `hasty` names
the people of whom two messages were at work at a time: the second was written before the first was
done with, or a restart found both unconfirmed. Commands of other modules are one kind of message
here ("service").

## 3. Runs

| run | instance | shows |
|---|---|---|
| `pvp_rps` | RPS tables of two bets, 3 users with one connection each, two of one bet and one of the other, any 2 of whom ask, balance 2; the two alike may change places (symmetry) | `TypeOK`; who shares a room asked for the same (`MatchedAlike`); a room pays from its stakes (`PaidFromStakes`); a player whose stakes are open can be seen to leave (`LeaverIsSeen`) |
| `pvp_mines` | the same at Mines tables with balance 1, credits may be lost | `EscrowSpec` (the refinement), `CreditsGoToStakers`; stakes are settled in the end (`StakesAreSettled`) |
| `rounds` | RPS, two drawn rounds, one poll, setup timer may fire | `TypeOK`, `OneChecker`, `OneTimer`, `SavedAsAnnounced`, `SilentGameEnds` |
| `rounds_panic` | the same with Mines | violated: `SetupClosedOnce` |
| `withdrawals` | 1 user, 1 address, 2 calls, 2 rows, 2 days and more | `TypeOK`, `Backed`, `OwnerRefundedOnce`, `SettledOnce`, `OnePending`, `DailyLimit` |
| `withdrawals_paid` | the same | violated: `CancelledIsUnpaid` |
| `sessions` | 1 user, 2 games, 3 requests, 3 rounds, bets 1 and 3 | `TypeOK`, `NothingIsLost`, `PaidOnce`, `GameIsFound`, `EndedStays` |
| `deposits` | 2 users, 3 payments (by memo, by wallet, of nobody) and a withdrawal, window 2, 1 request, 2 faults | `TypeOK`; outside the gap between row and coins nothing is lost (`ConfirmedIsCredited`); a transaction belongs to one user and is credited once (`PromiseKept`, the refinement of `PayOnce`); the watcher comes back to what it left (`PaymentIsRecorded`) |
| `quests` | 1 user, a one-time and a daily quest, 2 games, 1 claim, 2 days, 1 fault | `TypeOK`, `ProgressIsPlayed`, `PromiseKept` (the refinement of `PayOnce`) |
| `referrals` | 3 users, 2 requests, 2 codes, one milestone, 2 levels, 1 grant | `TypeOK`, `GkIsEarned`, `ReferrerStays` |
| `ledger` | 2 users, 2 goroutines, 3 operations, balance 3, bet 2 | `TypeOK`, `NoDebt`, `Booked`, `Finishes` |
| `adminbot` | an admin and a stranger, 3 messages, a dialogue of 2 questions, 2 restarts | `BotTypeOK`, `DoneAsAsked`, `Answered` |

**Why the bounds are enough.** The hazards need two parties and one thing they share: two players
and a room, two calls and a row, two or three requests and a game, two games and a row of
progress, two transfers and two rows; the second row, game or quest is for what outlives the first
or is seen to afterwards. A third of anything mostly repeats a role that is taken; a milestone needs
two invited users, so `referrals` has three, and a window of two needs three payments to hide
one. Larger instances were run once without a difference: two addresses (4,073,930 states) and
three calls (92,647 states) for `Withdrawals`, two users with three games (4,390,728 states) for
`PveSessions`, three games (5,679,982 states) for `Quests`, where an old copy of a row takes a
completed one back. Of the hub two connections at a time is what TLC can exhaust (1,195,018 states
for `pvp_rps`, 210,142 with liveness for `pvp_mines`): any two of the three, so that players of one
bet and of different bets meet, or do not. Three at once are left to the theorems. The other runs
that take minutes: `rounds` has 1,125,935 states, `deposits` 816,624, `adminbot` 284,196, `ledger`
249,484. `MaxTimers` (`MaxRounds + 3`) is reached and never binds: that is
the theorem `FewTimersHolds`. `MaxPayments` bounds approvals of the
same row, `MaxRequests` the connections made, `MaxOps` the transactions and statements, `MaxCodes`, `MaxGK` and `MaxGrants` what could
otherwise go on for ever. Amounts are such that a user affords one bet or two withdrawals,
so that balances and limits bind; 31 and 20 units of which 20 make a TON round down, or not.
Symmetry permutes calls, rows, games, users and requests which no definition tells apart, and is
used with invariants and action properties, never with liveness.

**Deadlock** of TLC is not checked: a server whose users have all left has nothing to do. That no
transaction waits for ever for a row is `Finishes`; that transactions never wait for each other in a
circle is `NoDeadlock`, which follows from `Finishes` where TLC checks that, and is a theorem for
any number of them.

**Fairness.** `PvpHub`: weak fairness of every goroutine of a room (`SetupStep`, `RunStep`), which
the Go scheduler and timers give; players, the end of a game (`FinishGame`) and the janitor owe
nothing, hence `StakesAreSettled` says `[]<>` and lets rounds last (`UnderWay`). `RoomRounds`: weak
fairness of what each player's goroutine does after a message, and of the setup goroutine, the loop
and the timers; `Move` is not fair,
so a silent player is a real behaviour. `Deposits`: weak fairness of the watcher only, which its
ticker gives; requests, admins and payments owe nothing. `Ledger`: strong fairness of the
statements of each goroutine, because PostgreSQL queues who waits for a row, so that others who
take it again and again do not keep it from him. `AdminBot`: weak fairness of the library's poll, of the
loop and of each handler; nobody owes a message. The other modules claim safety only.

## 4. What the code does not keep

Two are runs with `expect: violation`, and `findings` quotes the text they contradict.

* `rounds_panic`: the setup goroutine may close `setupDone` a second time, which panics.
* `withdrawals_paid`: a withdrawal that is being paid can be cancelled and given back.

The others are stated in their module and have no run of their own; putting the formula into the
configuration of the passing run (with the change named) gives the counterexample.

| formula | run | text it contradicts | what happens |
|---|---|---|---|
| `PotGoesToWinner` | `pvp_mines` | `room.go:16`, both stakes go to the winner | an announced result is not what is paid when a player leaves or, in Mines, moves again before `saveResult` |
| `MatchedAlike` | `pvp_rps` without symmetry, with `MaxRequests = 3`, `StartBalance = 3` and the `Again...` definitions | `hub.go:15`, players are matched by game, bet and currency | a stale `WaitingByKey` slot (`room.go:474`) seats a player in a room of another bet |
| `SettlerRemains` | the same | `room.go:16`, both stakes go to the winner | the slot of an earlier connection makes the janitor (`hub.go:309`, for clients that wait) take the creator out of a room that is being played; when the other player leaves, the loop ends and nobody settles the stakes |
| `GameEnds` | `rounds` | `room.go:808`, "one call of checkRound, it will handle the result itself" | `checkRound` skips a complete round whose timer has been stopped; nothing then ends the game |
| `FlipPaysCompleteGames` | `sessions` | `coinflip_pro_service.go:114`, the automatic cash-out is for the last round | `Flip` pays a game that `CashOut` has just paid |
| `OneRate` | `deposits` | `ton/constants.go:7`, 1 TON is 10 coins | the admin's manual deposit (`admin_service.go:872`) gives 1000 |
| `CompletedStays` | `quests` with three games | `quest_repo.go:196`, nothing is done to a completed quest | an old copy of the row is written over a completed one; the reward waits for another game |
| `OneReferrer` | `referrals` | `migrations/014_referrals.sql:8`, a user is referred once; `referral_repo.go:91`, `users.referred_by` is updated too | of two applications that overlap one inserts the row of `referrals` and the other, which inserts nothing, may still be the one that sets `referred_by`: the tables name different referrers for good |
| `AdjustmentMayOverdraw` | `ledger` | `http/handlers/api.go:56`, the adjustment "may go negative, to be finished" | the UPDATE of `game_service.go:444` refuses an adjustment that the balance does not cover, so it never does (`NoDebt` holds); the comment is out of date |
| `CancelIsHeeded` | `adminbot` with `CancelWrites` | `admin_bot.go:635` and `:1085`, "send /cancel to cancel" | only text that is no command reaches the dialogues, and `/cancel` is a command nobody handles |

Where a property excepts somebody, the excepted case is one the code gets wrong, not one it cannot
meet: `orderly` and `clean` (Withdrawals, PveSessions), `intact`, `lost`, `torn` and `hasty`.
`ReferrerStays` excepts users in `torn` from the agreement of the two tables only (see `OneReferrer`);
that each table keeps its referrer holds for everybody.
`GkIsEarned` excepts users in `hasty`: `ClaimGKReward` (`referral_repo.go:241`) inserts `ON CONFLICT
DO NOTHING` and credits the reward either way, so of two claims of one milestone that overlap, or
after a failed look-up, both are paid, although a claimed reward is refused (`upgrade.go:234`).
`DoneAsAsked` excepts users in `hasty`: Telegram hands out unconfirmed updates again after a restart,
and two of them at once, so that even an admin who waited for an answer may see a broadcast sent or a
quest made twice.

## 5. Theorems

All hold for every value of the constants, under the named `ASSUME` of each module, which keeps
names apart, numbers natural, bets and costs positive, and the rows and calls of `Withdrawals`
finite. Where a theorem needs more, it says so: `ResultIsSettled` is about `Game = "rps"`;
`MatchedAlikeHolds`, `LeaverIsSeenHolds` and `SettlerRemainsHolds` assume `OneConnection`, without
which they are false (section 4) and which the instances of `pvp_rps` and `pvp_mines` satisfy;
`NoDeadlockHolds` assumes that ids are bounded by some number, as a 64-bit column is.

Nearly every property needs an inductive invariant that is stronger than itself. It is named below,
with the reason why.

* **PvpHub.** `TypeCorrect`; `HubInvariant`: `HubInv` adds to the types that a room has
  credited nothing until `betPaid` is set, which happens in running rooms only (`MoneyInv`), that a
  connection is assigned once and the creator of a room is in it (`AssignInv`), and that everybody
  in a seat, among the clients, in the channels, in the hub's map or named by the result has a
  stake in that room (`SeatInv`). The last is what makes `CreditsGoToStakers` inductive: payments go to
  seats. `CreditsAreEarned` follows, and `HubImplementsEscrow`: every step opens a room, settles one for an
  award within the pot, or stutters. `PaidFromStakesHolds`, however often users connect, from
  `StakersInv` (finitely many connections are assigned, to rooms that run; an opponent is one of
  them other than the creator) and `StakeInv` (a room pays two users at most, the pot at most, and one
  stake as long as nobody came and no result was announced).
  While a user connects once: `MatchedAlikeHolds` from `AlikeInv` (who waits in a slot created a
  room for that key and is still alone in it); `LeaverIsSeenHolds`, that a player who is still there
  can forfeit, from `ReachInv` (only who is gone is disconnected or dropped from a slot, and only a
  settled room is cleaned up by its setup goroutine, so what the hub knows of a player who is there
  stays) and `LeavingInv` (whom a cleanup has noted has a stake in its room); `SettlerRemainsHolds` from `SettlerInv` (while the stakes are open both players are clients
  of the room, so the first who leaves is seen and forfeits; a result comes after the setup, and one
  that no longer is what was announced has an opponent). The four are inductive together.
* **RoomRounds.** `RoundsTypeCorrect`; `OneCheckerHolds` from `CheckInv` (whoever judges holds
  `roundChecking`); `OneTimerHolds` (inductive with the types, because `startRound` stops the old
  timer in the step that starts the new one); `FewTimersHolds` from `TimerInv` (every timer but the
  first follows a clearing of `roundStarted` that cannot come again: one for each player's and one
  for the setup goroutine's `completeSetup`, and one for each draw); `ResultIsSettled` from
  `ResultInv` (in RPS a result, once set, never changes, and whatever was announced is that result).
* **Withdrawals.** `WithdrawalsTypeCorrect`; `OwnerRefundedOnceHolds` from `OwnerInv` (a call
  that will return coins has itself cancelled the row, and is the only one); `SettledOnceHolds`
  from `CleanInv` (what the only call of a clean row has done so far, stage by stage);
  `OnePendingHolds` from `OrderlyInv` (what the only request of an orderly user has
  checked still holds); `BackedHolds` from `BackedInv`: with rows that are not there and were not
  given back, each step moves as much from one sum to another; `DailyLimitHolds` from `LimitInv`: a
  request of an orderly user that has passed the check still fits under the limit.
* **PveSessions.** `SessionsTypeCorrect`; `EndedStaysHolds` from the types alone;
  `NothingIsLostHolds` from `LostInv` (while the winnings or the record of an ended game are
  missing, a request that will see to it is under way) with `CallInv` (a request that is past
  the end has seen it over); `PaidOnceHolds` and `GameIsFoundHolds` from `OrderInv` (the only
  request of an orderly user is for his only active game, for which nothing was paid or recorded).
* **Deposits.** `DepositsTypeCorrect`; `DepositsKeepPromise`: every step takes a hash for a user,
  pays it, does both, or stutters, from the invariant that a job at "credit" has itself
  inserted the row, is the only one, and has not credited it; `ConfirmedIsCreditedHolds` from the
  same.
* **Quests.** `QuestsTypeCorrect`: one row for a user, quest and day, whatever recordings insert,
  with `JobOK` (what a recording still knows of its row); `QuestsKeepPromise` from `ClaimInv`: a
  claim holds its row alone, unpaid, and a row that is there and unclaimed belongs to nobody. The
  latter survives a recording with an old copy because the UPDATE leaves `claimed` alone.
  `ProgressIsPlayedHolds` from `PlayedInv`: a recording that is about to write lacks a game that was
  played, its own; for a user who has lost nothing there is one recording at most, its copy is
  the row, and every other row has exactly what was played.
* **Referrals.** `ReferralsTypeCorrect`, with `CodesDrawn` (no code is ahead of the draws) and
  `RequestsFit` (what a request holds is still so); `ReferrerStaysHolds` from `Invite`: in neither
  table is anybody his own referrer, and the second names one only if the first does; and for a user
  who applies codes one at a time and to the end, his referrer is in no table, or in the first and in
  the hands of his only request, or in both. `GkIsEarnedHolds` from `EarnedInv`: the claims of a user
  who is not hasty are of milestones of their own, not claimed yet, and referrals never become fewer.
* **Ledger.** `LedgerTypeCorrect`, `NoDebtHolds` and `BookedHolds`, proved together: a
  transaction that has changed a row owns it, has covered the change by what it read under the
  lock (`Covered`), and what the journal will be told of it, computed from the bet and the prize, is
  what it changed (`Accounted`), except for RPS without a bet (`FreeRun`).
  `NoDeadlockHolds` from `HeldInv` (what a transaction has locked before each statement): only
  `TransferGems` takes a second row, always the one with the greater id, so of those that wait the
  one that waits for the greatest row waits for one that does not wait.
* **AdminBot.** `BotTypeCorrect`; `DoneAsAskedHolds` from `BotInv` (a handler does what its message
  asks for, and what nobody wrote or sent was not made and reached nobody) and `WaitInv` (a message
  of a person who is not hasty comes after the one before was handled, so a dialogue is left, or a
  mark taken, before the next answer; between two texts that went out there is a `/broadcast`).

The sums over rows (`Backed`, `DailyLimit`, `GkIsEarned`) are folds. Each proof module that needs
them shows once that the fold over a finite set is the value of a function on finite sets
(`SumIs`), defined by well-foundedness of strict inclusion, and that one element more adds its
value (`SumTake` and its companions); a step then changes one element.

Only model-checked: liveness, which the provers cannot do under fairness: `StakesAreSettled`,
`SilentGameEnds`, `PaymentIsRecorded`, `Finishes`, `Answered`. Of two of them the safety half is a
theorem: `SettlerRemains` (somebody is left who will settle) of `StakesAreSettled`, and `NoDeadlock`
of `Finishes`. `SavedAsAnnounced` is proved for RPS; in Mines a player may move again before the
result is saved, and the run `rounds` is of RPS.

## 6. Limits of the models

Known behaviours of the code that are in no property:

* Rooms: the Run goroutine of a cancelled room never returns; a registration that times out, or a
  late joiner of a room that is being cancelled, loses his bet; timer bots may already play the
  new round for an attentive player (`room.go:257`); forfeits are not recorded in the history;
  `win_amount` there is the payout, not the profit; the shutdown of the process does not refund
  rooms.
* Games: RPS takes no bet that is not positive, but books it (`odd` in `Ledger`); a draw
  at RPS loses the bet; the bonus is also given to a banned user; the map of details that is
  shared with a goroutine (`games_pve.go:556`) is a data race outside the models.
* Sessions: when the process stops between the commit of a bet and the entry in `activeGames`
  (`coinflip_pro_service.go:73`), the bet is gone; in the model the two are one step, and `Restart`
  right after it is the same loss. `Report` means that the handler has started the goroutine that
  records the game (`games_pve.go:386`); its statements may still fail unnoticed.
* Referrals: a new code replaces the old one when the SELECT for it fails; the commission of a
  withdrawal is half of a fee of one coin, which is none; `ClaimReferralBonus` has no caller.

Integers are 64 bit and far from overflow, so `Nat` and `Int` are used.

**Not modelled.** Rate limiters: `main.go:62` starts the Redis limiter with an empty address,
so every limiter of a route lets everything pass, and the in-memory one is not routed. Token
checks, Telegram signatures, the TON proof of a wallet, address decoding and the TON HTTP client
are stateless or external. Audit and history rows are append-only and their failures ignored.
Reports and menus of the bot, configuration, metrics and the frontend decide nothing. Of the hub,
bets in a second currency are the same code with another column; the legacy handlers of
`ws/handler.go` have no route. Floating point (`CoinsToNano`) is out of reach of the language.

## 7. Plan

Done: the modules of section 2, an abstract promise (`PvpEscrow`, `PayOnce`) where something is paid
out, and every safety property of the passing runs proved.

Left, in this order:

1. Proofs: what remains true of `SavedAsAnnounced` in Mines.
2. `PvpHub` with a crash of the process, once the code settles rooms on shutdown or start.
3. The rate limiters, once a route uses one that counts.
