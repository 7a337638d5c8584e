------------------------------ MODULE BotProofs ------------------------------
(***************************************************************************)
(* Proofs about the Telegram bot, for any number of messages, of updates   *)
(* in one answer and of deaths of the bot.                                 *)
(***************************************************************************)
EXTENDS TelegramBot, SequenceTheorems, TLAPS

BotStates == {"down", "idle", "running", "next", "replying"}

BotRecord == [life : Nat, state : BotStates, offset : Nat, batch : Seq(Nat),
              at : Nat, step : Nat]

BotTyped ==
  /\ sent \in Seq(Update)
  /\ confirmed \in Nat
  /\ bot \in BotRecord
  /\ \A c \in children : c.life \in Nat

\* The updates up to this one have been taken by the bot or by an earlier one.
Base == IF bot.offset - 1 > confirmed THEN bot.offset - 1 ELSE confirmed

\* The batch holds the updates that follow, without a gap.
BatchOK ==
  /\ Base + Len(bot.batch) <= Len(sent)
  /\ \A k \in 1 .. Len(bot.batch) : bot.batch[k] = Base + k

UnderWay(u) == bot.state \in {"running", "next"} /\ bot.at = u

\* What has been taken is carried out, or it is what the bot is at.
TakenOK == \A u \in Commanded : u <= Base => u \in done \/ UnderWay(u)

\* A script of this life is the one the bot waits for, unless the bot is dead;
\* there are none of a later life.
ChildrenOK ==
  \A c \in children :
    /\ c.life <= bot.life
    /\ c.life = bot.life => bot.state = "down" \/ Awaited(c)

BotInv == BotTyped /\ BatchOK /\ TakenOK /\ NoneLost /\ ChildrenOK
            /\ OneScriptAtATime

-----------------------------------------------------------------------------

LEMMA BotStarts == BotInit => BotInv
BY DEF BotInit, BotInv, BotTyped, BotRecord, BotStates, Down, BatchOK, Base, TakenOK,
   NoneLost, ChildrenOK, OneScriptAtATime, Commanded, Update

\* A message adds to Telegram's queue only.
LEMMA SendKeeps ==
  ASSUME BotInv, Send
  PROVE  BotInv'
<1>1. PICK update \in Update :
        /\ sent' = Append(sent, update)
        /\ UNCHANGED <<confirmed, bot, children, done, starts>>
  BY DEF Send
<1>2. /\ sent' \in Seq(Update)
      /\ Len(sent') = Len(sent) + 1
      /\ \A u \in 1 .. Len(sent) : sent'[u] = sent[u]
  BY <1>1 DEF BotInv, BotTyped, BotRecord
<1>3. \A u \in Commanded' : u \in Commanded \/ u = Len(sent) + 1
  BY <1>2 DEF Commanded, BotInv, BotTyped
<1>4. Base' = Base /\ Base \in Nat /\ confirmed <= Base /\ Base <= Len(sent)
  <2>1. Base' = Base
    BY <1>1 DEF Base
  <2>2. Base \in Nat /\ confirmed <= Base
    BY DEF Base, BotInv, BotTyped, BotRecord
  <2>3. Len(bot.batch) \in Nat /\ Len(sent) \in Nat
    BY DEF BotInv, BotTyped, BotRecord
  <2> QED BY <2>1, <2>2, <2>3 DEF BotInv, BatchOK
<1>5. BotTyped'
  BY <1>1, <1>2 DEF BotInv, BotTyped, BotRecord
<1>6. BatchOK'
  <2>1. Len(bot.batch) \in Nat /\ Len(sent) \in Nat
    BY DEF BotInv, BotTyped, BotRecord
  <2> QED BY <1>1, <1>2, <1>4, <2>1 DEF BotInv, BatchOK
<1>7. Len(sent) \in Nat
  BY DEF BotInv, BotTyped, BotRecord
<1>8. TakenOK'
  BY <1>1, <1>3, <1>4, <1>7 DEF BotInv, TakenOK, UnderWay
<1>9. NoneLost'
  BY <1>1, <1>3, <1>4, <1>7 DEF BotInv, BotTyped, BotRecord, NoneLost
<1>10. ChildrenOK' /\ OneScriptAtATime'
  BY <1>1 DEF BotInv, ChildrenOK, Awaited, OneScriptAtATime
<1> QED BY <1>5, <1>6, <1>8, <1>9, <1>10 DEF BotInv

\* The bot starts with no offset and an empty batch, and before its first poll.
LEMMA StartKeeps ==
  ASSUME BotInv, StartBot
  PROVE  BotInv'
<1>1. /\ bot' = [bot EXCEPT !.state = "replying", !.life = @ + 1]
      /\ UNCHANGED <<sent, confirmed, children, done, starts>>
      /\ bot.state = "down"
  BY DEF StartBot
<1>2. BotTyped'
  <2>1. bot \in BotRecord
    BY DEF BotInv, BotTyped
  <2>2. bot.life + 1 \in Nat
    BY <2>1 DEF BotRecord
  <2>3. bot' \in BotRecord
    BY <1>1, <2>1, <2>2 DEF BotRecord, BotStates
  <2> QED BY <1>1, <2>3 DEF BotInv, BotTyped
<1>3. /\ bot'.offset = bot.offset /\ bot'.batch = bot.batch
      /\ bot'.life = bot.life + 1 /\ bot'.state = "replying"
      /\ bot.life \in Nat
  BY <1>1 DEF BotInv, BotTyped, BotRecord
<1>4. BatchOK' /\ NoneLost'
  BY <1>1, <1>3 DEF BotInv, BatchOK, Base, NoneLost, Commanded
<1>5. TakenOK'
  BY <1>1, <1>3 DEF BotInv, TakenOK, UnderWay, Base, Commanded
<1>6. ChildrenOK'
  BY <1>1, <1>3 DEF BotInv, BotTyped, BotRecord, ChildrenOK
<1>7. OneScriptAtATime'
  BY <1>1 DEF BotInv, OneScriptAtATime
<1> QED BY <1>2, <1>4, <1>5, <1>6, <1>7 DEF BotInv

\* The offset that is sent covers what has been taken, and that is carried out.
LEMMA PollKeeps ==
  ASSUME BotInv, Poll
  PROVE  BotInv'
<1> DEFINE count == IF Len(sent) - Base < Limit THEN Len(sent) - Base ELSE Limit
<1>1. /\ bot.state = "idle" /\ bot.batch = << >>
      /\ confirmed' = Base
      /\ bot' = [bot EXCEPT !.batch = [k \in 1 .. count |-> Base + k]]
      /\ UNCHANGED <<sent, children, done, starts>>
  BY DEF Poll, PollOffset, Base
<1>2. /\ Base \in Nat /\ confirmed <= Base /\ bot.offset - 1 <= Base
      /\ Len(sent) \in Nat
  BY DEF Base, BotInv, BotTyped, BotRecord
<1>3. Base <= Len(sent)
  BY <1>1, <1>2 DEF BotInv, BatchOK
<1>4. count \in Nat /\ Base + count <= Len(sent)
  BY <1>2, <1>3, BotAssumption
<1> HIDE DEF count
<1>5. /\ [k \in 1 .. count |-> Base + k] \in Seq(Nat)
      /\ Len([k \in 1 .. count |-> Base + k]) = count
  BY <1>2, <1>4
<1>6. BotTyped'
  BY <1>1, <1>2, <1>5 DEF BotInv, BotTyped, BotRecord
<1>7. /\ bot'.batch = [k \in 1 .. count |-> Base + k]
      /\ bot'.offset = bot.offset /\ bot'.state = "idle"
      /\ bot'.life = bot.life /\ bot'.at = bot.at /\ bot'.step = bot.step
  BY <1>1 DEF BotInv, BotTyped, BotRecord
<1>8. Base' = Base
  BY <1>1, <1>2, <1>7 DEF Base, BotInv, BotTyped, BotRecord
<1>9. BatchOK'
  BY <1>1, <1>4, <1>5, <1>7, <1>8 DEF BatchOK
<1>10. \A u \in Commanded : u <= Base => u \in done
  BY <1>1 DEF BotInv, TakenOK, UnderWay
<1>11. TakenOK' /\ NoneLost'
  BY <1>1, <1>8, <1>10 DEF TakenOK, NoneLost, Commanded
<1>12. ChildrenOK' /\ OneScriptAtATime'
  BY <1>1, <1>7 DEF BotInv, ChildrenOK, Awaited, OneScriptAtATime
<1> QED BY <1>6, <1>9, <1>11, <1>12 DEF BotInv

\* The next update is the one after what has been taken.
LEMMA NextUpdate ==
  ASSUME BotInv, bot.batch # << >>
  PROVE  /\ Head(bot.batch) = Base + 1
         /\ Base + 1 \in 1 .. Len(sent)
         /\ Tail(bot.batch) \in Seq(Nat)
         /\ Len(Tail(bot.batch)) = Len(bot.batch) - 1
         /\ \A k \in 1 .. Len(Tail(bot.batch)) :
              Tail(bot.batch)[k] = Base + 1 + k
         /\ Base \in Nat /\ Len(bot.batch) \in Nat /\ confirmed <= Base
<1>1. bot.batch \in Seq(Nat) /\ Len(sent) \in Nat
  BY DEF BotInv, BotTyped, BotRecord
<1>2. Base \in Nat /\ confirmed <= Base
  BY DEF Base, BotInv, BotTyped, BotRecord
<1>3. Len(bot.batch) \in Nat \ {0}
  BY <1>1
<1>4. Head(bot.batch) = bot.batch[1]
  BY <1>1
<1>5. /\ Base + Len(bot.batch) <= Len(sent)
      /\ \A k \in 1 .. Len(bot.batch) : bot.batch[k] = Base + k
  BY DEF BotInv, BatchOK
<1>6. /\ Tail(bot.batch) \in Seq(Nat)
      /\ Len(Tail(bot.batch)) = Len(bot.batch) - 1
      /\ \A k \in 1 .. Len(Tail(bot.batch)) : Tail(bot.batch)[k] = bot.batch[k + 1]
  BY <1>1, <1>3
<1>7. \A k \in 1 .. Len(Tail(bot.batch)) :
        k + 1 \in 1 .. Len(bot.batch) /\ Base + (k + 1) = Base + 1 + k
  BY <1>2, <1>3, <1>6
<1>8. Head(bot.batch) = Base + 1
  BY <1>3, <1>4, <1>5
<1>9. Base + 1 \in 1 .. Len(sent)
  BY <1>1, <1>2, <1>3, <1>5
<1>10. \A k \in 1 .. Len(Tail(bot.batch)) : Tail(bot.batch)[k] = Base + 1 + k
  BY <1>5, <1>6, <1>7
<1> QED BY <1>2, <1>3, <1>6, <1>8, <1>9, <1>10

\* An update is passed over, answered at once, or its first script is started.
LEMMA TakeKeeps ==
  ASSUME BotInv, Take
  PROVE  BotInv'
<1>0. PICK update : update = Head(bot.batch)
  OBVIOUS
<1>1. /\ bot.state = "idle" /\ bot.batch # << >>
      /\ UNCHANGED <<sent, confirmed>>
  BY DEF Take
<1>2. /\ update = Base + 1 /\ update \in 1 .. Len(sent)
      /\ Tail(bot.batch) \in Seq(Nat)
      /\ Len(Tail(bot.batch)) = Len(bot.batch) - 1
      /\ \A k \in 1 .. Len(Tail(bot.batch)) : Tail(bot.batch)[k] = update + k
      /\ Base \in Nat /\ Len(bot.batch) \in Nat /\ confirmed <= Base
      /\ Len(sent) \in Nat
  <2>1. Len(sent) \in Nat
    BY DEF BotInv, BotTyped, BotRecord
  <2> QED BY <1>0, <1>1, <2>1, NextUpdate
<1>3. \/ /\ ~sent[update].mine
         /\ bot' = [bot EXCEPT !.batch = Tail(@), !.offset = update + 1]
         /\ UNCHANGED <<children, done, starts>>
      \/ /\ bot' = [bot EXCEPT !.batch = Tail(@), !.offset = update + 1,
                               !.at = update, !.step = 1, !.state = "replying"]
         /\ done' = done \cup {update}
         /\ UNCHANGED <<children, starts>>
      \/ /\ bot' = [bot EXCEPT !.batch = Tail(@), !.offset = update + 1,
                               !.at = update, !.step = 1, !.state = "running"]
         /\ children' = children \cup {[update |-> update, step |-> 1,
                                        life |-> bot.life]}
         /\ UNCHANGED done
  BY <1>0 DEF Take, Skip, OffsetAfter, AfterStart, RunStep, BotInv, BotTyped, BotRecord
<1>4. /\ bot'.offset = update + 1 /\ bot'.batch = Tail(bot.batch)
      /\ bot'.life = bot.life /\ bot.life \in Nat
  BY <1>3 DEF BotInv, BotTyped, BotRecord
<1>5. BotTyped'
  <2>1. bot \in BotRecord /\ update \in Nat
    BY <1>2 DEF BotInv, BotTyped
  <2>2. bot' \in BotRecord
    <3>1. update + 1 \in Nat /\ Tail(bot.batch) \in Seq(Nat)
      BY <1>2, <2>1
    <3>2. CASE bot' = [bot EXCEPT !.batch = Tail(@), !.offset = update + 1]
      BY <2>1, <3>1, <3>2 DEF BotRecord
    <3>3. CASE bot' = [bot EXCEPT !.batch = Tail(@), !.offset = update + 1,
                                  !.at = update, !.step = 1, !.state = "replying"]
      BY <2>1, <3>1, <3>3 DEF BotRecord, BotStates
    <3>4. CASE bot' = [bot EXCEPT !.batch = Tail(@), !.offset = update + 1,
                                  !.at = update, !.step = 1, !.state = "running"]
      BY <2>1, <3>1, <3>4 DEF BotRecord, BotStates
    <3> QED BY <1>3, <3>2, <3>3, <3>4
  <2>3. \A c \in children' : c.life \in Nat
    BY <1>3, <1>4 DEF BotInv, BotTyped
  <2> QED BY <1>1, <2>2, <2>3 DEF BotInv, BotTyped
<1>6. Base' = update
  <2>1. confirmed \in Nat /\ update \in Nat
    BY <1>2 DEF BotInv, BotTyped
  <2>2. confirmed' = confirmed /\ bot'.offset - 1 = update
    BY <1>1, <1>4, <2>1
  <2>3. confirmed < update
    BY ONLY <1>2, <2>1
  <2> QED BY ONLY <2>1, <2>2, <2>3 DEF Base
<1>7. BatchOK'
  <2>1. Base + Len(bot.batch) <= Len(sent)
    BY DEF BotInv, BatchOK
  <2>2. update + Len(Tail(bot.batch)) = Base + Len(bot.batch)
    <3>1. update = Base + 1 /\ Len(Tail(bot.batch)) = Len(bot.batch) - 1
      BY <1>2
    <3>2. Base \in Nat /\ Len(bot.batch) \in Nat
      BY <1>2
    <3>3. \A b, n \in Nat : (b + 1) + (n - 1) = b + n
      OBVIOUS
    <3> QED BY <3>1, <3>2, <3>3, Zenon
  <2>3. \A k \in 1 .. Len(bot'.batch) : bot'.batch[k] = update + k
    BY <1>2, <1>4
  <2> QED BY <1>1, <1>4, <1>6, <2>1, <2>2, <2>3 DEF BatchOK
<1>8. \A u \in Commanded : u <= Base => u \in done
  BY <1>1 DEF BotInv, TakenOK, UnderWay
<1>9. \A u \in Commanded : u <= update => u <= Base \/ u = update
  BY <1>2 DEF Commanded
<1>10. update \in Commanded => update \in done' \/ UnderWay(update)'
  <2>1. bot \in BotRecord
    BY DEF BotInv, BotTyped
  <2>2. \/ ~sent[update].mine
        \/ update \in done'
        \/ bot'.state = "running" /\ bot'.at = update
    BY <1>3, <2>1 DEF BotRecord
  <2>3. update \in Commanded => sent[update].mine
    BY ZenonT(30) DEF Commanded
  <2> QED BY <2>2, <2>3 DEF UnderWay
<1>11. done \subseteq done'
  BY <1>3
<1>12. TakenOK'
  <2>1. Commanded' = Commanded
    BY <1>1 DEF Commanded
  <2> SUFFICES ASSUME NEW u \in Commanded, u <= update
               PROVE  u \in done' \/ UnderWay(u)'
    BY <1>6, <2>1 DEF TakenOK
  <2>2. CASE u <= Base
    BY <1>8, <1>11, <2>2
  <2>3. CASE u = update
    BY <1>10, <2>3 DEF UnderWay
  <2> QED BY <1>9, <2>2, <2>3
<1>13. NoneLost'
  BY <1>1, <1>11 DEF BotInv, NoneLost, Commanded
<1>14. \A c \in children : c.life \in Nat /\ c.life < bot.life
  BY <1>1, <1>4 DEF BotInv, BotTyped, BotRecord, ChildrenOK, Awaited
<1>15. ChildrenOK' /\ OneScriptAtATime'
  <2>1. CASE children' = children
    BY <1>4, <1>14, <2>1 DEF BotInv, ChildrenOK, OneScriptAtATime
  <2>2. CASE children' # children
    <3>1. /\ children' = children \cup {[update |-> update, step |-> 1,
                                         life |-> bot.life]}
          /\ bot'.state = "running" /\ bot'.at = update /\ bot'.step = 1
      BY <1>3, <2>2 DEF BotInv, BotTyped, BotRecord
    <3> QED BY <1>4, <1>14, <3>1 DEF BotInv, ChildrenOK, OneScriptAtATime, Awaited
  <2> QED BY <2>1, <2>2
<1> QED BY <1>5, <1>7, <1>12, <1>13, <1>15 DEF BotInv

\* The script the bot waits for ends, or one that a dead bot has left.
LEMMA EndKeeps ==
  ASSUME BotInv, ChildEnds
  PROVE  BotInv'
<1>1. PICK child \in children :
        /\ children' = children \ {child}
        /\ UNCHANGED <<sent, confirmed>>
        /\ \/ bot' = bot /\ done' = done /\ ~Awaited(child)
           \/ /\ Awaited(child)
              /\ bot' = [bot EXCEPT !.state = "next", !.step = @ + 1]
              /\ done' = done
           \/ /\ Awaited(child)
              /\ bot' = [bot EXCEPT !.state = "replying"]
              /\ done' = done \cup {child.update}
  BY DEF ChildEnds
<1>2. /\ bot'.offset = bot.offset /\ bot'.batch = bot.batch
      /\ bot'.life = bot.life /\ bot'.at = bot.at /\ bot.life \in Nat
  BY <1>1 DEF BotInv, BotTyped, BotRecord
<1>3. BotTyped'
  <2>1. bot \in BotRecord
    BY DEF BotInv, BotTyped
  <2>2. bot.step + 1 \in Nat
    BY <2>1 DEF BotRecord
  <2>3. bot' \in BotRecord
    BY <1>1, <2>1, <2>2 DEF BotRecord, BotStates
  <2> QED BY <1>1, <2>3 DEF BotInv, BotTyped
<1>4. Base' = Base
  BY <1>1, <1>2 DEF Base
<1>5. BatchOK'
  BY <1>1, <1>2, <1>4 DEF BotInv, BatchOK
<1>6. done \subseteq done'
  BY <1>1
<1>7. \A u : UnderWay(u) => u \in done' \/ UnderWay(u)'
  <2>1. bot \in BotRecord
    BY DEF BotInv, BotTyped
  <2>2. CASE Awaited(child) /\ done' = done \cup {child.update}
    BY <2>2 DEF UnderWay, Awaited
  <2>3. CASE bot' = [bot EXCEPT !.state = "next", !.step = @ + 1]
    BY <1>2, <2>1, <2>3 DEF BotRecord, UnderWay
  <2>4. CASE bot' = bot
    BY <2>4 DEF UnderWay
  <2> QED BY <1>1, <2>2, <2>3, <2>4
<1>8. TakenOK' /\ NoneLost'
  BY <1>1, <1>4, <1>6, <1>7 DEF BotInv, TakenOK, NoneLost, Commanded
<1>9. OneScriptAtATime'
  BY <1>1 DEF BotInv, OneScriptAtATime
<1>10. ChildrenOK'
  <2>1. CASE bot' = bot
    BY <1>1, <2>1 DEF BotInv, ChildrenOK, Awaited
  <2>2. CASE bot' # bot
    <3>1. child.life = bot.life
      BY <1>1, <2>2 DEF Awaited
    <3>2. \A c \in children' : c.life # bot.life
      BY <1>1, <3>1 DEF BotInv, OneScriptAtATime
    <3> QED BY <1>1, <1>2, <3>2 DEF BotInv, ChildrenOK
  <2> QED BY <2>1, <2>2
<1> QED BY <1>3, <1>5, <1>8, <1>9, <1>10 DEF BotInv

\* The second script of a command starts when no other of this life runs.
LEMMA NextStepKeeps ==
  ASSUME BotInv, NextStep
  PROVE  BotInv'
<1>1. /\ bot.state = "next"
      /\ bot' = [bot EXCEPT !.state = "running"]
      /\ children' = children \cup {[update |-> bot.at, step |-> bot.step,
                                     life |-> bot.life]}
      /\ UNCHANGED <<sent, confirmed, done>>
  BY DEF NextStep, AfterStart, RunStep
<1>2. /\ bot'.offset = bot.offset /\ bot'.batch = bot.batch
      /\ bot'.life = bot.life /\ bot'.at = bot.at /\ bot'.step = bot.step
      /\ bot'.state = "running" /\ bot.life \in Nat
  BY <1>1 DEF BotInv, BotTyped, BotRecord
<1>3. BotTyped'
  <2>1. bot \in BotRecord
    BY DEF BotInv, BotTyped
  <2>2. bot' \in BotRecord
    BY <1>1, <2>1 DEF BotRecord, BotStates
  <2>3. \A c \in children' : c.life \in Nat
    BY <1>1, <1>2 DEF BotInv, BotTyped
  <2> QED BY <1>1, <2>2, <2>3 DEF BotInv, BotTyped
<1>4. BatchOK' /\ NoneLost'
  BY <1>1, <1>2 DEF BotInv, BatchOK, Base, NoneLost, Commanded
<1>5. TakenOK'
  BY <1>1, <1>2 DEF BotInv, TakenOK, Base, UnderWay, Commanded
<1>6. \A c \in children : c.life \in Nat /\ c.life < bot.life
  BY <1>1, <1>2 DEF BotInv, BotTyped, BotRecord, ChildrenOK, Awaited
<1>7. ChildrenOK' /\ OneScriptAtATime'
  BY <1>1, <1>2, <1>6 DEF BotInv, ChildrenOK, OneScriptAtATime, Awaited
<1> QED BY <1>3, <1>4, <1>5, <1>7 DEF BotInv

LEMMA ReplyKeeps ==
  ASSUME BotInv, Reply
  PROVE  BotInv'
<1>1. /\ bot.state = "replying"
      /\ bot' = [bot EXCEPT !.state = "idle"]
      /\ UNCHANGED <<sent, confirmed, children, done, starts>>
  BY DEF Reply
<1>2. /\ bot'.offset = bot.offset /\ bot'.batch = bot.batch
      /\ bot'.life = bot.life /\ bot'.at = bot.at /\ bot'.state = "idle"
  BY <1>1 DEF BotInv, BotTyped, BotRecord
<1>3. BotTyped'
  BY <1>1 DEF BotInv, BotTyped, BotRecord, BotStates
<1>4. BatchOK' /\ NoneLost'
  BY <1>1, <1>2 DEF BotInv, BatchOK, Base, NoneLost, Commanded
<1>5. TakenOK'
  BY <1>1, <1>2 DEF BotInv, TakenOK, Base, UnderWay, Commanded
<1>6. ChildrenOK' /\ OneScriptAtATime'
  BY <1>1, <1>2 DEF BotInv, ChildrenOK, OneScriptAtATime, Awaited
<1> QED BY <1>3, <1>4, <1>5, <1>6 DEF BotInv

\* A death forgets the offset: what Telegram has not forgotten comes again.
LEMMA DieKeeps ==
  ASSUME BotInv, Die
  PROVE  BotInv'
<1>1. /\ bot' = Down(bot.life)
      /\ UNCHANGED <<sent, confirmed, children, done, starts>>
  BY DEF Die
<1>2. /\ bot'.offset = 0 /\ bot'.batch = << >> /\ bot'.state = "down"
      /\ bot'.life = bot.life /\ bot.life \in Nat
  BY <1>1 DEF Down, BotInv, BotTyped, BotRecord
<1>3. BotTyped'
  BY <1>1, <1>2 DEF BotInv, BotTyped, BotRecord, BotStates, Down
<1>4. Base' = confirmed /\ confirmed \in Nat
  BY <1>1, <1>2 DEF Base, BotInv, BotTyped, BotRecord
<1>5. confirmed <= Len(sent)
  <2>1. /\ confirmed <= Base /\ Base \in Nat /\ Len(bot.batch) \in Nat
        /\ Len(sent) \in Nat /\ confirmed \in Nat
    BY DEF Base, BotInv, BotTyped, BotRecord
  <2> QED BY <2>1 DEF BotInv, BatchOK
<1>6. BatchOK'
  BY <1>1, <1>2, <1>4, <1>5 DEF BatchOK
<1>7. TakenOK' /\ NoneLost'
  BY <1>1, <1>4 DEF BotInv, TakenOK, NoneLost, Commanded
<1>8. ChildrenOK' /\ OneScriptAtATime'
  BY <1>1, <1>2 DEF BotInv, ChildrenOK, OneScriptAtATime
<1> QED BY <1>3, <1>6, <1>7, <1>8 DEF BotInv

LEMMA BotContinues ==
  ASSUME BotInv, [BotNext]_botVars
  PROVE  BotInv'
<1>1. CASE UNCHANGED botVars
  BY <1>1 DEF botVars, BotInv, BotTyped, BatchOK, Base, TakenOK, UnderWay,
     NoneLost, Commanded, ChildrenOK, Awaited, OneScriptAtATime
<1>2. CASE BotNext
  BY <1>2, SendKeeps, StartKeeps, PollKeeps, TakeKeeps, EndKeeps, NextStepKeeps,
     ReplyKeeps, DieKeeps DEF BotNext, BotStep
<1> QED BY <1>1, <1>2

-----------------------------------------------------------------------------
(* Repetitions.  What this life of the bot has not taken, it has not begun. *)

\* No life to come has begun anything.
LivesOK ==
  \A u \in 1 .. MaxUpdates : \A i \in 1 .. Len(starts[u]) : starts[u][i] <= bot.life

NotBegun ==
  \A u \in 1 .. MaxUpdates :
    u > Base => \A i \in 1 .. Len(starts[u]) : starts[u][i] < bot.life

RepeatInv ==
  /\ starts \in [1 .. MaxUpdates -> Seq(Nat)]
  /\ LivesOK
  /\ bot.state = "running" => bot.step >= 1
  /\ bot.state = "next" => bot.step >= 2
  /\ RepeatedOnlyByDeath
  /\ bot.state # "down" => NotBegun

LEMMA RepeatStarts == BotInit => RepeatInv
BY DEF BotInit, RepeatInv, LivesOK, Down, RepeatedOnlyByDeath

\* A step that starts no first script, in the same life, with the same base.
LEMMA RepeatUnchanged ==
  ASSUME RepeatInv, starts' = starts, bot'.life = bot.life, Base' = Base,
         bot.state # "down",
         bot'.state \in {"idle", "replying"}
  PROVE  RepeatInv'
BY DEF RepeatInv, LivesOK, RepeatedOnlyByDeath, NotBegun

LEMMA RepeatPoll ==
  ASSUME BotInv, RepeatInv, Poll
  PROVE  RepeatInv'
<1>1. /\ bot.state = "idle" /\ confirmed' = Base /\ starts' = starts
      /\ \E batch : bot' = [bot EXCEPT !.batch = batch]
  BY DEF Poll, PollOffset, Base
<1>2. /\ bot'.life = bot.life /\ bot'.state = "idle" /\ bot'.offset = bot.offset
  BY <1>1 DEF BotInv, BotTyped, BotRecord
<1>3. Base' = Base
  BY <1>1, <1>2 DEF Base, BotInv, BotTyped, BotRecord
<1> QED BY <1>1, <1>2, <1>3, RepeatUnchanged

LEMMA RepeatTake ==
  ASSUME BotInv, RepeatInv, Take
  PROVE  RepeatInv'
<1>0. PICK update : update = Head(bot.batch)
  OBVIOUS
<1>1. bot.state = "idle" /\ bot.batch # << >> /\ confirmed' = confirmed
  BY DEF Take
<1>2. update = Base + 1 /\ Base \in Nat /\ confirmed <= Base /\ update \in Nat
  BY <1>0, <1>1, NextUpdate
<1>3. bot \in BotRecord /\ confirmed \in Nat
  BY DEF BotInv, BotTyped
<1>4. /\ bot'.life = bot.life /\ bot'.offset = update + 1
      /\ \/ bot'.state \in {"idle", "replying"} /\ starts' = starts
         \/ /\ bot'.state = "running" /\ bot'.step = 1
            /\ starts' = [starts EXCEPT ![update] = Append(@, bot.life)]
  BY <1>0, <1>1, <1>3 DEF Take, Skip, OffsetAfter, AfterStart, RunStep, BotRecord
<1>5. Base' = update
  BY <1>1, <1>2, <1>3, <1>4 DEF Base
<1>6. bot.life \in Nat
  BY <1>3 DEF BotRecord
<1>7. /\ starts \in [1 .. MaxUpdates -> Seq(Nat)] /\ LivesOK /\ RepeatedOnlyByDeath
      /\ NotBegun
  BY <1>1 DEF RepeatInv
<1>8. CASE starts' = starts
  <2>1. LivesOK' /\ RepeatedOnlyByDeath'
    BY <1>4, <1>7, <1>8 DEF LivesOK, RepeatedOnlyByDeath
  <2>2. NotBegun'
    BY <1>2, <1>4, <1>5, <1>7, <1>8 DEF NotBegun
  <2> QED BY <1>4, <1>7, <1>8, <2>1, <2>2 DEF RepeatInv
<1>9. CASE starts' = [starts EXCEPT ![update] = Append(@, bot.life)]
  <2>1. starts' \in [1 .. MaxUpdates -> Seq(Nat)]
    <3>1. \A u \in 1 .. MaxUpdates : Append(starts[u], bot.life) \in Seq(Nat)
      BY <1>6, <1>7
    <3> QED BY <1>7, <1>9, <3>1
  <2>2. ASSUME NEW u \in 1 .. MaxUpdates
        PROVE  /\ \A i \in 1 .. Len(starts'[u]) : starts'[u][i] <= bot.life
               /\ u > update => \A i \in 1 .. Len(starts'[u]) : starts'[u][i] < bot.life
               /\ \A i, j \in 1 .. Len(starts'[u]) :
                    i < j => starts'[u][i] < starts'[u][j]
    <3>1. /\ \A i \in 1 .. Len(starts[u]) : starts[u][i] <= bot.life
          /\ u > Base => \A i \in 1 .. Len(starts[u]) : starts[u][i] < bot.life
          /\ \A i, j \in 1 .. Len(starts[u]) : i < j => starts[u][i] < starts[u][j]
      BY <1>7 DEF LivesOK, NotBegun, RepeatedOnlyByDeath
    <3>2. CASE u # update
      <4>1. starts'[u] = starts[u]
        BY <1>7, <1>9, <3>2
      <4>2. u > update => u > Base
        BY <1>2
      <4> QED BY <3>1, <4>1, <4>2
    <3>3. CASE u = update
      <4> DEFINE old == starts[u]
      <4>1. old \in Seq(Nat) /\ starts'[u] = Append(old, bot.life)
        BY <1>7, <1>9, <3>3
      <4>2. u > Base
        BY <1>2, <3>3
      <4>3. \A i \in 1 .. Len(old) : old[i] < bot.life
        BY <3>1, <4>2
      <4> HIDE DEF old
      <4>4. /\ Len(Append(old, bot.life)) = Len(old) + 1 /\ Len(old) \in Nat
            /\ Append(old, bot.life)[Len(old) + 1] = bot.life
            /\ \A i \in 1 .. Len(old) : Append(old, bot.life)[i] = old[i]
        BY <1>6, <4>1
      <4>5. \A i \in 1 .. Len(starts'[u]) : starts'[u][i] <= bot.life
        BY <1>6, <4>1, <4>3, <4>4
      <4>6. ASSUME NEW i \in 1 .. Len(starts'[u]), NEW j \in 1 .. Len(starts'[u]), i < j
            PROVE  starts'[u][i] < starts'[u][j]
        <5>1. i \in 1 .. Len(old)
          BY <4>1, <4>4, <4>6
        <5>2. CASE j \in 1 .. Len(old)
          <6>1. old[i] < old[j]
            BY <3>1, <4>6, <5>1, <5>2 DEF old
          <6> QED BY <4>1, <4>4, <5>1, <5>2, <6>1
        <5>3. CASE j = Len(old) + 1
          BY <4>1, <4>3, <4>4, <5>1, <5>3
        <5> QED BY <4>1, <4>4, <5>2, <5>3
      <4>7. ~ (u > update)
        BY <1>2, <3>3
      <4> QED BY <4>5, <4>6, <4>7
    <3> QED BY <3>2, <3>3
  <2>3. LivesOK' /\ RepeatedOnlyByDeath'
    BY <1>4, <2>2 DEF LivesOK, RepeatedOnlyByDeath
  <2>4. NotBegun'
    BY <1>4, <1>5, <2>2 DEF NotBegun
  <2> QED BY <1>4, <1>9, <2>1, <2>3, <2>4 DEF RepeatInv
<1> QED BY <1>4, <1>8, <1>9

LEMMA RepeatContinues ==
  ASSUME BotInv, RepeatInv, [BotNext]_botVars
  PROVE  RepeatInv'
<1>1. bot \in BotRecord
  BY DEF BotInv, BotTyped
<1>2. CASE Send
  <2>1. bot' = bot /\ starts' = starts /\ confirmed' = confirmed
    BY <1>2 DEF Send
  <2> QED BY <2>1 DEF RepeatInv, LivesOK, RepeatedOnlyByDeath, NotBegun, Base
<1>3. CASE StartBot
  <2>1. /\ bot'.life = bot.life + 1 /\ bot'.state = "replying"
        /\ bot.life \in Nat /\ starts' = starts
    BY <1>1, <1>3 DEF StartBot, BotRecord
  <2>2. starts \in [1 .. MaxUpdates -> Seq(Nat)] /\ LivesOK /\ RepeatedOnlyByDeath
    BY DEF RepeatInv
  <2>3. ASSUME NEW u \in 1 .. MaxUpdates, NEW i \in 1 .. Len(starts'[u])
        PROVE  starts'[u][i] <= bot'.life /\ starts'[u][i] < bot'.life
    <3>1. starts[u][i] \in Nat /\ starts[u][i] <= bot.life
      BY <2>1, <2>2 DEF LivesOK
    <3> QED BY <2>1, <3>1
  <2> QED BY <2>1, <2>2, <2>3 DEF RepeatInv, LivesOK, RepeatedOnlyByDeath, NotBegun
<1>4. CASE Poll
  BY <1>4, RepeatPoll
<1>5. CASE Take
  BY <1>5, RepeatTake
<1>6. CASE NextStep
  <2>1. /\ bot'.life = bot.life /\ bot'.state = "running" /\ bot'.step = bot.step
        /\ bot'.offset = bot.offset /\ confirmed' = confirmed
        /\ bot.state = "next"
    BY <1>1, <1>6 DEF NextStep, AfterStart, RunStep, BotRecord
  <2>2. bot.step \in Nat /\ bot.step >= 2
    BY <1>1, <2>1 DEF RepeatInv, BotRecord
  <2>3. starts' = starts
    BY <1>6, <2>2 DEF NextStep, RunStep, RepeatInv
  <2>4. Base' = Base
    BY <2>1 DEF Base
  <2>5. /\ starts' \in [1 .. MaxUpdates -> Seq(Nat)] /\ LivesOK'
        /\ RepeatedOnlyByDeath' /\ NotBegun'
    BY <2>1, <2>3, <2>4 DEF RepeatInv, LivesOK, RepeatedOnlyByDeath, NotBegun
  <2>6. bot'.step >= 2
    BY <2>1, <2>2
  <2> QED BY <2>1, <2>2, <2>5, <2>6 DEF RepeatInv
<1>7. CASE Reply
  <2>1. /\ bot'.life = bot.life /\ bot'.state = "idle" /\ bot.state = "replying"
        /\ bot'.offset = bot.offset /\ confirmed' = confirmed /\ starts' = starts
    BY <1>1, <1>7 DEF Reply, BotRecord
  <2>2. Base' = Base
    BY <2>1 DEF Base
  <2> QED BY <2>1, <2>2, RepeatUnchanged
<1>8. CASE ChildEnds
  <2>1. confirmed' = confirmed /\ starts' = starts
    BY <1>8 DEF ChildEnds
  <2>2. \/ bot' = bot
        \/ /\ bot.state = "running"
           /\ bot' = [bot EXCEPT !.state = "next", !.step = @ + 1]
        \/ /\ bot.state = "running"
           /\ bot' = [bot EXCEPT !.state = "replying"]
    BY <1>8 DEF ChildEnds, Awaited
  <2>3. CASE bot' = bot
    BY <2>1, <2>3 DEF RepeatInv, LivesOK, RepeatedOnlyByDeath, NotBegun, Base
  <2>4. CASE bot.state = "running" /\ bot' = [bot EXCEPT !.state = "next", !.step = @ + 1]
    <3>1. /\ bot'.life = bot.life /\ bot'.offset = bot.offset
          /\ bot'.state = "next" /\ bot'.step = bot.step + 1 /\ bot.step \in Nat
      BY <1>1, <2>4 DEF BotRecord
    <3>2. bot'.step >= 2
      BY <2>4, <3>1 DEF RepeatInv
    <3>3. Base' = Base
      BY <2>1, <3>1 DEF Base
    <3>4. /\ starts' \in [1 .. MaxUpdates -> Seq(Nat)] /\ LivesOK'
          /\ RepeatedOnlyByDeath' /\ NotBegun'
      BY <2>1, <2>4, <3>1, <3>3 DEF RepeatInv, LivesOK, RepeatedOnlyByDeath, NotBegun
    <3> QED BY <3>1, <3>2, <3>4 DEF RepeatInv
  <2>5. CASE bot.state = "running" /\ bot' = [bot EXCEPT !.state = "replying"]
    <3>1. /\ bot'.life = bot.life /\ bot'.offset = bot.offset
          /\ bot'.state = "replying"
      BY <1>1, <2>5 DEF BotRecord
    <3>2. Base' = Base
      BY <2>1, <3>1 DEF Base
    <3> QED BY <2>1, <2>5, <3>1, <3>2, RepeatUnchanged
  <2> QED BY <2>2, <2>3, <2>4, <2>5
<1>9. CASE Die
  <2>1. bot'.life = bot.life /\ bot'.state = "down" /\ starts' = starts
    BY <1>9 DEF Die, Down
  <2> QED BY <2>1 DEF RepeatInv, LivesOK, RepeatedOnlyByDeath
<1>10. CASE UNCHANGED botVars
  BY <1>10 DEF botVars, RepeatInv, LivesOK, RepeatedOnlyByDeath, NotBegun, Base
<1> QED BY <1>2, <1>3, <1>4, <1>5, <1>6, <1>7, <1>8, <1>9, <1>10
        DEF BotNext, BotStep

-----------------------------------------------------------------------------

\* No command is lost, however often the bot dies and wherever.
THEOREM NoCommandIsLost == BotSpec => []NoneLost
<1>1. BotInv => NoneLost
  BY DEF BotInv
<1> QED BY BotStarts, BotContinues, <1>1, PTL DEF BotSpec

\* The scripts of one life of the bot never overlap.
THEOREM ScriptsDoNotOverlap == BotSpec => []OneScriptAtATime
<1>1. BotInv => OneScriptAtATime
  BY DEF BotInv
<1> QED BY BotStarts, BotContinues, <1>1, PTL DEF BotSpec

\* Each time a command is begun again, the bot has died since it was last begun:
\* runCommand is not called twice for an update in one life, and poll never goes
\* back.
THEOREM RepeatsNeedDeaths == BotSpec => []RepeatedOnlyByDeath
<1>1. RepeatInv => RepeatedOnlyByDeath
  BY DEF RepeatInv
<1> QED BY BotStarts, BotContinues, RepeatStarts, RepeatContinues, <1>1, PTL
        DEF BotSpec

=============================================================================
