---------------------------- MODULE TelegramBot ----------------------------
(***************************************************************************)
(* The bot that runs the demo's scripts on command                         *)
(* (demo/telegram-bot.mjs).                                                *)
(*                                                                         *)
(* Telegram keeps the updates until a getUpdates has an offset beyond      *)
(* them.  The bot keeps its offset in memory, runs each script as a child  *)
(* process and waits for it, and ends when a request to Telegram fails.  A *)
(* child outlives the bot: after a restart it runs beside the scripts of   *)
(* the next bot.                                                           *)
(***************************************************************************)
EXTENDS Integers, Sequences

CONSTANTS
  Limit,      \* updates in one answer of getUpdates (100)
  MaxUpdates, \* bound of the model on the messages sent
  MaxLives    \* bound of the model on the starts of the bot

ASSUME BotAssumption ==
  /\ {Limit, MaxLives} \subseteq Nat \ {0}
  /\ MaxUpdates \in Nat

VARIABLES
  sent,       \* the updates Telegram has received; update_id is the position
  confirmed,  \* the updates Telegram has forgotten
  bot,        \* the bot's process
  children,   \* the scripts that run
  done,       \* history: the updates that have been carried out
  starts      \* history: per update, the lives in which its first script was started

botVars == <<sent, confirmed, bot, children, done, starts>>

\* /ready runs two scripts, the other commands of COMMANDS one; /help, /status,
\* /eco and what is no command run none.
StepsOf(command) ==
  CASE command = "ready"  -> 2
    [] command = "script" -> 1
    [] command = "text"   -> 0

Update == [mine : BOOLEAN, command : {"ready", "script", "text"}]

Down(life) == [life |-> life, state |-> "down", offset |-> 0, batch |-> << >>,
               at |-> 0, step |-> 0]

BotInit ==
  /\ sent = << >>
  /\ confirmed = 0
  /\ bot = Down(0)
  /\ children = {}
  /\ done = {}
  /\ starts = [u \in 1 .. MaxUpdates |-> << >>]

\* A message from CHAT_ID, or from another chat.
Send ==
  \E update \in Update :
    /\ Len(sent) < MaxUpdates
    /\ update.mine \/ update.command = "script"
    /\ sent' = Append(sent, update)
    /\ UNCHANGED <<confirmed, bot, children, done, starts>>

\* The greeting of poll comes first.
StartBot ==
  /\ bot.state = "down"
  /\ bot.life < MaxLives
  /\ bot' = [bot EXCEPT !.state = "replying", !.life = @ + 1]
  /\ UNCHANGED <<sent, confirmed, children, done, starts>>

\* Mutant: the offset is advanced once more when it is sent.
PollOffsetTwice == bot.offset + 1

PollOffset == bot.offset

\* Telegram forgets what is below the offset, and answers with the next updates.
Poll ==
  LET kept  == IF PollOffset - 1 > confirmed THEN PollOffset - 1 ELSE confirmed
      count == IF Len(sent) - kept < Limit THEN Len(sent) - kept ELSE Limit
  IN  /\ bot.state = "idle" /\ bot.batch = << >>
      /\ Len(sent) > kept \/ kept # confirmed
      /\ confirmed' = kept
      /\ bot' = [bot EXCEPT !.batch = [k \in 1 .. count |-> kept + k]]
      /\ UNCHANGED <<sent, children, done, starts>>

RunStep(update, step) ==
  /\ children' = children \cup {[update |-> update, step |-> step,
                                 life |-> bot.life]}
  /\ starts' = [starts EXCEPT ![update] = IF step = 1 THEN Append(@, bot.life) ELSE @]

\* Mutant: update_id, and not the one after it.
OffsetAfterSame(update) == update

OffsetAfter(update) == update + 1

\* Mutant: an update of another chat is passed over before the offset moves.
SkipFirst(update) == bot' = [bot EXCEPT !.batch = Tail(@)]

\* The update is not of CHAT_ID.
Skip(update) ==
  bot' = [bot EXCEPT !.batch = Tail(@), !.offset = OffsetAfter(update)]

\* Mutant: runCommand is not awaited.
AfterStartUnawaited == "replying"

\* runStep resolves when the child is closed.
AfterStart == "running"

\* The next update of the batch.
Take ==
  LET update == Head(bot.batch)
      taken  == [bot EXCEPT !.batch = Tail(@), !.offset = OffsetAfter(update),
                            !.at = update, !.step = 1]
  IN  /\ bot.state = "idle" /\ bot.batch # << >>
      /\ \/ /\ ~sent[update].mine
            /\ Skip(update)
            /\ UNCHANGED <<children, done, starts>>
         \/ /\ sent[update].mine /\ StepsOf(sent[update].command) = 0
            /\ bot' = [taken EXCEPT !.state = "replying"]
            /\ done' = done \cup {update}
            /\ UNCHANGED <<children, starts>>
         \/ /\ sent[update].mine /\ StepsOf(sent[update].command) > 0
            /\ bot' = [taken EXCEPT !.state = AfterStart]
            /\ RunStep(update, 1)
            /\ UNCHANGED done
      /\ UNCHANGED <<sent, confirmed>>

Awaited(child) ==
  bot.state = "running" /\ child = [update |-> bot.at, step |-> bot.step,
                                    life |-> bot.life]

\* A child ends, with an exit code its step expects or another.
ChildEnds ==
  \E child \in children, ok \in BOOLEAN :
    /\ children' = children \ {child}
    /\ \/ /\ ~Awaited(child)
          /\ UNCHANGED <<bot, done>>
       \/ /\ Awaited(child)
          /\ ok /\ child.step < StepsOf(sent[child.update].command)
          /\ bot' = [bot EXCEPT !.state = "next", !.step = @ + 1]
          /\ UNCHANGED done
       \/ /\ Awaited(child)
          /\ ~ok \/ child.step = StepsOf(sent[child.update].command)
          /\ bot' = [bot EXCEPT !.state = "replying"]
          /\ done' = done \cup {child.update}
    /\ UNCHANGED <<sent, confirmed, starts>>

NextStep ==
  /\ bot.state = "next"
  /\ bot' = [bot EXCEPT !.state = AfterStart]
  /\ RunStep(bot.at, bot.step)
  /\ UNCHANGED <<sent, confirmed, done>>

\* sendMessage.
Reply ==
  /\ bot.state = "replying"
  /\ bot' = [bot EXCEPT !.state = "idle"]
  /\ UNCHANGED <<sent, confirmed, children, done, starts>>

\* The bot is killed, or a request to Telegram rejects and ends it.
Die ==
  /\ bot.state # "down"
  /\ bot' = Down(bot.life)
  /\ UNCHANGED <<sent, confirmed, children, done, starts>>

BotStep == Poll \/ Take \/ NextStep \/ Reply

BotNext == Send \/ StartBot \/ BotStep \/ ChildEnds \/ Die

\* The bot goes on by itself, and its scripts end; nothing restarts it.
BotSpec ==
  BotInit /\ [][BotNext]_botVars /\ WF_botVars(BotStep) /\ WF_botVars(ChildEnds)

-----------------------------------------------------------------------------

Commanded == {u \in 1 .. Len(sent) : sent[u].mine}

\* No command is lost: what Telegram has forgotten has been carried out, to its
\* last script or to one that failed, wherever the bot died in between.
NoneLost == \A u \in Commanded : u <= confirmed => u \in done

\* Two scripts run side by side only if the bot was restarted while the first
\* was running; within one life of the bot a command waits for the one before
\* it.
OneScriptAtATime ==
  \A c, d \in children : c.life = d.life => c = d

\* A command is begun again only because the bot died since it was begun: each
\* time it is begun by a later life of the bot.
RepeatedOnlyByDeath ==
  \A u \in 1 .. MaxUpdates :
    \A i, j \in 1 .. Len(starts[u]) : i < j => starts[u][i] < starts[u][j]

\* Every command of the owner is carried out, or the bot has died: messages of
\* other chats do not keep it from the owner's.
CommandsCarriedOut ==
  \A u \in 1 .. MaxUpdates :
    u \in Commanded ~> u \in done \/ bot.state = "down"

=============================================================================
