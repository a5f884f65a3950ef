------------------------------ MODULE AdminBot ------------------------------
(***************************************************************************)
(* The admin bot, bot/admin_bot.go: how updates reach it, the goroutine it *)
(* starts for each, and the two dialogues that last over several messages: *)
(* a broadcast and the creation of a quest.                                *)
(*                                                                         *)
(* A message is named by its number, and so is the goroutine that handles  *)
(* it and the dialogue it opens.  The maps of the bot have no lock: an     *)
(* access is a step.  That the runtime may stop the process when it sees   *)
(* two at once is one way of Restart.  Commands which call the admin       *)
(* service and keep nothing in the bot are "service" here; Withdrawals,    *)
(* Deposits, Ledger and Quests model what they do.                         *)
(***************************************************************************)
EXTENDS Integers, Sequences, FiniteSets

CONSTANTS People, Admins,   \* who writes to the bot; ADMIN_TELEGRAM_IDS
          Receivers,        \* users a broadcast goes to
          LastStep,         \* questions of the quest dialogue, 6 in the code
          Writes,           \* who writes messages of which kind
          MaxMessages, MaxRestarts

Kinds == {"text", "broadcast", "newquest", "cancel", "addadmin", "service"}
Messages == [from : People, kind : Kinds]

ASSUME AdminBotAssumption ==
  /\ Admins \subseteq People
  /\ LastStep \in Nat \ {0}
  /\ Writes \subseteq Messages
  /\ MaxMessages \in Nat
  /\ MaxRestarts \in Nat

Ids == 1 .. MaxMessages
NoDialogue == 0
Stages == {"idle", "command", "append", "broadcast", "send", "quest", "answer", "create", "forget"}
Jobs == [at : Stages, dialogue : {NoDialogue} \cup Ids, seen : 1 .. LastStep,
         todo : SUBSET Receivers, ids : SUBSET People]
Idle == [at |-> "idle", dialogue |-> NoDialogue, seen |-> 1, todo |-> {}, ids |-> {}]

VARIABLES
  log,        \* all messages to the bot, as Telegram keeps them
  confirmed,  \* how many of them Telegram will not deliver again
  fetched,    \* how many are in the channel of updates, or have been
  taken,      \* how many the loop has taken from it
  loop,       \* Start
  adminIDs, broadcastPending,
  questCreation,  \* the dialogue of each admin, by the message that opened it
  step,       \* QuestCreationState.Step of each dialogue
  job,        \* the goroutine that handles a message
  done,       \* messages that are handled, ignored or lost
  got,        \* how often a broadcast text has reached whom
  sent,       \* texts whose broadcast was begun
  made,       \* quests created by each dialogue
  hasty,      \* people of whom two messages have been at work at a time
  restarts

botVars == <<adminIDs, broadcastPending, questCreation, step>>
updateVars == <<log, confirmed, fetched, taken, loop>>
resultVars == <<got, sent, made>>
allVars == <<updateVars, botVars, job, done, resultVars, hasty, restarts>>

BotTypeOK ==
  /\ log \in Seq(Messages)
  /\ Len(log) <= MaxMessages
  /\ confirmed \in 0 .. fetched
  /\ fetched \in 0 .. Len(log)
  /\ taken \in 0 .. fetched
  /\ loop \in {"running", "stopping", "ended"}
  /\ adminIDs \subseteq People
  /\ broadcastPending \subseteq People
  /\ questCreation \in [People -> {NoDialogue} \cup Ids]
  /\ step \in [Ids -> 1 .. LastStep]
  /\ job \in [Ids -> Jobs]
  /\ \A i \in Ids : job[i].at # "idle" => i <= taken
  /\ done \subseteq Ids
  /\ got \in [Ids -> [Receivers -> Nat]]
  /\ sent \subseteq Ids
  /\ made \in [Ids -> Nat]
  /\ hasty \subseteq People
  /\ restarts \in 0 .. MaxRestarts

BotInit ==
  /\ log = <<>>
  /\ confirmed = 0 /\ fetched = 0 /\ taken = 0
  /\ loop = "running"
  /\ adminIDs = Admins
  /\ broadcastPending = {}
  /\ questCreation = [p \in People |-> NoDialogue]
  /\ step = [i \in Ids |-> 1]
  /\ job = [i \in Ids |-> Idle]
  /\ done = {}
  /\ got = [i \in Ids |-> [u \in Receivers |-> 0]]
  /\ sent = {}
  /\ made = [i \in Ids |-> 0]
  /\ hasty = {}
  /\ restarts = 0
-----------------------------------------------------------------------------
(* Telegram and the channel of updates.                                    *)

\* Those who have two messages that are not handled.
Overlapping(messages, handled) == {p \in People :
  \E i, j \in (1 .. Len(messages)) \ handled :
    i # j /\ messages[i].from = p /\ messages[j].from = p}

\* Somebody writes, and does not wait for the answer to what he wrote before.
Write(m) ==
  /\ Len(log) < MaxMessages
  /\ log' = Append(log, m)
  /\ hasty' = hasty \cup Overlapping(log', done)
  /\ UNCHANGED <<confirmed, fetched, taken, loop, botVars, job, done, resultVars, restarts>>

\* The library asks for what comes after the last update it got, and this
\* confirms all updates up to there.
Fetch ==
  /\ loop = "running"
  /\ confirmed' = fetched
  /\ fetched' = Len(log)
  /\ UNCHANGED <<log, taken, loop, botVars, job, done, resultVars, hasty, restarts>>
-----------------------------------------------------------------------------
(* The loop of Start.                                                      *)

isAdmin(p) == p \in adminIDs

\* Which handler a message gets, if any: only a text that is no command can
\* answer a dialogue, and a pending broadcast comes first.
Handler(m) ==
  CASE ~isAdmin(m.from) -> "idle"
    [] isAdmin(m.from) /\ m.kind # "text" -> "command"
    [] isAdmin(m.from) /\ m.kind = "text" /\ m.from \in broadcastPending -> "broadcast"
    [] isAdmin(m.from) /\ m.kind = "text" /\ m.from \notin broadcastPending
         /\ questCreation[m.from] # NoDialogue -> "quest"
    [] OTHER -> "idle"

\* A select with both cases ready takes either: the loop of a bot that is
\* stopping may still take updates.
Dispatch ==
  /\ loop # "ended"
  /\ taken < fetched
  /\ taken' = taken + 1
  /\ job' = [job EXCEPT ![taken + 1].at = Handler(log[taken + 1])]
  /\ done' = IF Handler(log[taken + 1]) = "idle" THEN done \cup {taken + 1} ELSE done
  /\ UNCHANGED <<log, confirmed, fetched, loop, botVars, resultVars, hasty, restarts>>

Stop ==
  /\ loop = "running"
  /\ loop' = "stopping"
  /\ UNCHANGED <<log, confirmed, fetched, taken, botVars, job, done, resultVars, hasty, restarts>>

LoopReturns ==
  /\ loop = "stopping"
  /\ loop' = "ended"
  /\ UNCHANGED <<log, confirmed, fetched, taken, botVars, job, done, resultVars, hasty, restarts>>
-----------------------------------------------------------------------------
(* The handlers.                                                           *)

StageTo(i, stage) == job' = [job EXCEPT ![i].at = stage] /\ UNCHANGED done
Finish(i) == job' = [job EXCEPT ![i] = Idle] /\ done' = done \cup {i}
From(i) == log[i].from
Answering(d) == [Idle EXCEPT !.at = "answer", !.dialogue = d, !.seen = step[d]]

handleBroadcastStart(i) ==
  /\ log[i].kind = "broadcast"
  /\ broadcastPending' = broadcastPending \cup {From(i)}
  /\ Finish(i)
  /\ UNCHANGED <<adminIDs, questCreation, step>>

handleNewQuest(i) ==
  /\ log[i].kind = "newquest"
  /\ questCreation' = [questCreation EXCEPT ![From(i)] = i]
  /\ step' = [step EXCEPT ![i] = 1]
  /\ Finish(i)
  /\ UNCHANGED <<adminIDs, broadcastPending>>

\* append reads the slice, ...
handleAddAdmin(i) ==
  /\ log[i].kind = "addadmin"
  /\ job' = [job EXCEPT ![i].at = "append", ![i].ids = adminIDs]
  /\ UNCHANGED <<botVars, done>>

\* The other commands keep nothing here; to handleCommand "cancel" is an
\* unknown one.
handleOther(i) == log[i].kind \in {"cancel", "service"} /\ Finish(i) /\ UNCHANGED botVars

handleCommand(i) ==
  /\ job[i].at = "command"
  /\ handleBroadcastStart(i) \/ handleNewQuest(i) \/ handleAddAdmin(i) \/ handleOther(i)
  /\ UNCHANGED <<updateVars, resultVars, hasty, restarts>>

\* ... and the assignment forgets who was added in between.
AppendAdmin(i) ==
  /\ job[i].at = "append"
  /\ \E p \in People : adminIDs' = job[i].ids \cup {p}
  /\ Finish(i)
  /\ UNCHANGED <<updateVars, broadcastPending, questCreation, step, resultVars, hasty, restarts>>

\* Mutant of executeBroadcast: the mark is left.
BroadcastKeepsMark(i) ==
  /\ job[i].at = "broadcast"
  /\ sent' = sent \cup {i}
  /\ job' = [job EXCEPT ![i].at = "send", ![i].todo = Receivers]
  /\ UNCHANGED <<updateVars, botVars, done, got, made, hasty, restarts>>

\* The mark goes, then the users are read, which may fail.
executeBroadcast(i) ==
  /\ job[i].at = "broadcast"
  /\ broadcastPending' = broadcastPending \ {From(i)}
  /\ \/ Finish(i) /\ UNCHANGED sent
     \/ sent' = sent \cup {i} /\ UNCHANGED done
          /\ job' = [job EXCEPT ![i].at = "send", ![i].todo = Receivers]
  /\ UNCHANGED <<updateVars, adminIDs, questCreation, step, got, made, hasty, restarts>>

\* Mutant of SendNext: a user who cannot be reached ends it without a word.
SendOrGiveUp(i) ==
  /\ job[i].at = "send"
  /\ \/ \E u \in job[i].todo :
          \/ job' = [job EXCEPT ![i] = Idle] /\ UNCHANGED <<done, got>>
          \/ /\ job' = [job EXCEPT ![i].todo = @ \ {u}]
             /\ got' = [got EXCEPT ![i][u] = @ + 1]
             /\ UNCHANGED done
     \/ job[i].todo = {} /\ Finish(i) /\ UNCHANGED got
  /\ UNCHANGED <<updateVars, botVars, sent, made, hasty, restarts>>

\* One user after the other; the last answer is the report.
SendNext(i) ==
  /\ job[i].at = "send"
  /\ \/ \E u \in job[i].todo :
          /\ job' = [job EXCEPT ![i].todo = @ \ {u}]
          /\ got' \in {got, [got EXCEPT ![i][u] = @ + 1]}
          /\ UNCHANGED done
     \/ job[i].todo = {} /\ Finish(i) /\ UNCHANGED got
  /\ UNCHANGED <<updateVars, botVars, sent, made, hasty, restarts>>

\* The dialogue and its question are read, ...
handleQuestCreationStep(i) ==
  /\ job[i].at = "quest"
  /\ LET d == questCreation[From(i)] IN
       \/ d = NoDialogue /\ Finish(i)
       \/ /\ d # NoDialogue
          /\ job' = [job EXCEPT ![i] = Answering(d)]
          /\ UNCHANGED done
  /\ UNCHANGED <<updateVars, botVars, resultVars, hasty, restarts>>

\* Mutant of AnswerQuestion: the last question is one like the rest.
StepOn(i) ==
  /\ job[i].at = "answer"
  /\ step' = [step EXCEPT ![job[i].dialogue] = job[i].seen + 1]
  /\ Finish(i)
  /\ UNCHANGED <<updateVars, adminIDs, broadcastPending, questCreation>>
  /\ UNCHANGED <<resultVars, hasty, restarts>>

\* ... and an answer moves the dialogue on to the question after that, whatever
\* another answer has done meanwhile, or is refused.
AnswerQuestion(i) ==
  /\ job[i].at = "answer"
  /\ \/ Finish(i) /\ UNCHANGED step
     \/ /\ job[i].seen < LastStep
        /\ step' = [step EXCEPT ![job[i].dialogue] = job[i].seen + 1]
        /\ Finish(i)
     \/ job[i].seen = LastStep /\ StageTo(i, "create") /\ UNCHANGED step
  /\ UNCHANGED <<updateVars, adminIDs, broadcastPending, questCreation>>
  /\ UNCHANGED <<resultVars, hasty, restarts>>

\* The quest is created, or the error is told.
CreateQuest(i) ==
  /\ job[i].at = "create"
  /\ made' \in {made, [made EXCEPT ![job[i].dialogue] = @ + 1]}
  /\ StageTo(i, "forget")
  /\ UNCHANGED <<updateVars, botVars, got, sent, hasty, restarts>>

\* Whichever dialogue the admin is in by now ends.
ForgetDialogue(i) ==
  /\ job[i].at = "forget"
  /\ questCreation' = [questCreation EXCEPT ![From(i)] = NoDialogue]
  /\ Finish(i)
  /\ UNCHANGED <<updateVars, adminIDs, broadcastPending, step, resultVars, hasty, restarts>>
-----------------------------------------------------------------------------
\* The process ends (Stop waits for the handlers, but no more than 10 s) and
\* starts again.  Confirmed updates are not delivered again, handled or not;
\* the others are, all at a time.
Restart ==
  /\ restarts < MaxRestarts
  /\ restarts' = restarts + 1
  /\ fetched' = confirmed /\ taken' = confirmed
  /\ loop' = "running"
  /\ adminIDs' = Admins
  /\ broadcastPending' = {}
  /\ questCreation' = [p \in People |-> NoDialogue]
  /\ job' = [i \in Ids |-> Idle]
  /\ done' = 1 .. confirmed
  /\ hasty' = hasty \cup Overlapping(log, 1 .. confirmed)
  /\ UNCHANGED <<log, confirmed, step, resultVars>>
-----------------------------------------------------------------------------
Handle(i) ==
  \/ handleCommand(i) \/ AppendAdmin(i)
  \/ executeBroadcast(i) \/ SendNext(i)
  \/ handleQuestCreationStep(i) \/ AnswerQuestion(i) \/ CreateQuest(i) \/ ForgetDialogue(i)

BotNext ==
  \/ \E m \in Writes : Write(m)
  \/ Fetch \/ Dispatch \/ Stop \/ LoopReturns \/ Restart
  \/ \E i \in Ids : Handle(i)

\* The library polls, the loop takes what is there, goroutines run.
BotSpec == BotInit /\ [][BotNext]_allVars /\ WF_allVars(Fetch) /\ WF_allVars(Dispatch)
             /\ \A i \in Ids : WF_allVars(Handle(i))
-----------------------------------------------------------------------------
(* What an admin asks for one message at a time happens no more often than *)
(* he asks: a dialogue makes one quest, a text is broadcast for one        *)
(* /broadcast and reaches a user once, though updates may be delivered     *)
(* again after a restart.                                                  *)
Of(p, kind) == {i \in 1 .. Len(log) : log[i] = [from |-> p, kind |-> kind]}

DoneAsAsked == \A p \in People \ hasty :
  /\ \A i \in Of(p, "newquest") : made[i] <= 1
  /\ \A i \in Of(p, "text"), u \in Receivers : got[i][u] <= 1
  /\ Cardinality(sent \cap Of(p, "text")) <= Cardinality(Of(p, "broadcast"))

\* Every message is handled or ignored, unless the bot stops or restarts:
\* unreachable users and refused answers do not hold up a handler, nor one
\* handler the others.
Answered == \A i \in Ids :
  (i <= Len(log)) ~> (i \in done \/ loop # "running" \/ restarts > 0)

\* What both dialogues tell the admin: "/cancel" ends them.
CancelIsHeeded == \A i \in 1 .. Len(log) :
  log[i].kind = "cancel" /\ i = Len(log) /\ i \in done /\ From(i) \notin hasty
    => From(i) \notin broadcastPending /\ questCreation[From(i)] = NoDialogue
=============================================================================
