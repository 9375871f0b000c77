---------------------------- MODULE ChannelWires ----------------------------
(***************************************************************************)
(* The two channels with a network behind them: Telegram, polled over      *)
(* HTTP, and the voice gateway, reached over a websocket.  ChannelManager  *)
(* has what becomes of a message once its channel yields it.  The queues   *)
(* are unbounded, so a put never waits.                                    *)
(***************************************************************************)
EXTENDS Naturals, Sequences, SequencesExt, OrderedSets

CONSTANTS
    TgMax,     \* bound: updates users of the bot send
    TgTexts,   \* the updates that hold a text
    GwFrames   \* what the gateway sends, in order

GwKinds == {"utterance", "blank", "barge_in", "junk"}

ASSUME WiresAssumption ==
    /\ TgMax \in Nat /\ TgTexts \subseteq 1..TgMax
    /\ GwFrames \in Seq(GwKinds)

VARIABLES
    tg,       \* the TelegramChannel of the running process
    bot,      \* at Telegram: updates sent so far, and those it was told are done with
    tgPast,   \* history: updates listen() has yielded in some process; those a crash
              \* left unread after Telegram had forgotten them; those whose response
              \* was "sent"; those whose response the user saw
    gw,       \* the transport: where its task is, _ws, the frames it has queued, and
              \* where in the queue stop() put the sentinel
    line,     \* the newest connection to the gateway
    heard,    \* how many of the queue listen() has taken, and what it yielded
    told      \* history: how the last say ended

tgVars == <<tg, bot, tgPast>>
gwVars == <<gw, line, heard, told>>
wireVars == <<tg, bot, tgPast, gw, line, heard, told>>

WireInit ==
    /\ tg = [at |-> "off", offset |-> 0, seen |-> <<>>, taken |-> 0]
    /\ bot = [sent |-> 0, done |-> 0]
    /\ tgPast = [yielded |-> {}, lost |-> {}, replied |-> {}, shown |-> {}]
    /\ gw = [at |-> "off", ws |-> FALSE, queue |-> <<>>, end |-> 0, got |-> 0]
    /\ line = "none"
    /\ heard = [taken |-> 0, yielded |-> <<>>, ended |-> FALSE]
    /\ told = "none"

-----------------------------------------------------------------------------
(* Telegram *)

TgUserWrites ==
    /\ bot.sent < TgMax
    /\ bot' = [bot EXCEPT !.sent = @ + 1]
    /\ UNCHANGED <<tg, tgPast>>

\* (Mutant: what was sent while the bot was away is dropped.)
TgFirstOffsetDrops == bot.sent + 1

\* A process starts from 0: the offset is in memory only.
TgFirstOffset == 0

TgStart ==
    /\ tg.at = "off"
    /\ tg' = [at |-> "idle", offset |-> TgFirstOffset, seen |-> <<>>, taken |-> 0]
    /\ UNCHANGED <<bot, tgPast>>

\* getUpdates(offset): Telegram forgets every update before the offset.
TgAsk ==
    /\ tg.at \in {"idle", "backoff"}
    /\ tg' = [tg EXCEPT !.at = "asked"]
    /\ bot' = [bot EXCEPT !.done = IF tg.offset > @ THEN tg.offset - 1 ELSE @]
    /\ UNCHANGED tgPast

TgNextOffset(n) == n + 1

\* The batch is handled without a wait in between: no cancellation splits it.
\* Updates with no text, or none but blanks, are dropped.
TgReply ==
    /\ tg.at = "asked"
    /\ LET batch == bot.done + 1 .. bot.sent
           texts == batch \cap TgTexts
       IN  /\ tg' = [tg EXCEPT !.at = "idle", !.seen = @ \o InOrder(texts),
                               !.offset = IF batch = {} THEN @
                                          ELSE TgNextOffset(bot.sent)]
    /\ UNCHANGED <<bot, tgPast>>

TgAfterError == "backoff"

\* The request or its answer is lost, or the status is an error.
TgError ==
    /\ tg.at = "asked"
    /\ tg' = [tg EXCEPT !.at = TgAfterError]
    /\ UNCHANGED <<bot, tgPast>>

\* stop: the loop is cancelled wherever it waits, and the sentinel queued.
TgStop ==
    /\ tg.at \notin {"off", "stopping"}
    /\ tg' = [tg EXCEPT !.at = "stopping"]
    /\ UNCHANGED <<bot, tgPast>>

\* What is queued comes out before the sentinel, after which listen() returns.
TgListen ==
    /\ tg.at # "off"
    /\ \/ /\ tg.taken < Len(tg.seen)
          /\ tg' = [tg EXCEPT !.taken = @ + 1]
          /\ tgPast' = [tgPast EXCEPT !.yielded = @ \cup {tg.seen[tg.taken + 1]}]
       \/ /\ tg.taken = Len(tg.seen) /\ tg.at = "stopping"
          /\ tg' = [tg EXCEPT !.at = "off"]
          /\ UNCHANGED tgPast
    /\ UNCHANGED bot

TgUnread ==
    IF tg.at = "off" THEN {} ELSE {tg.seen[i] : i \in tg.taken + 1 .. Len(tg.seen)}

\* The queue is in memory only.  What it holds is sent again to the next process,
\* unless a later poll has acknowledged it.
TgCrash ==
    /\ tg.at # "off"
    /\ tg' = [tg EXCEPT !.at = "off"]
    /\ tgPast' = [tgPast EXCEPT !.lost = @ \cup {n \in TgUnread : n <= bot.done}]
    /\ UNCHANGED bot

\* TelegramChannel.send: without a chat_id nothing is sent, and nothing raised.
TgSend(n, chat) ==
    tgPast' = [tgPast EXCEPT !.replied = @ \cup {n},
                             !.shown = IF chat THEN @ \cup {n} ELSE @]

\* ChannelManager._handle answers a message with a response of its own making,
\* which carries none of the message's metadata.
TgRespond(n) ==
    /\ tg.at # "off"
    /\ n \in ToSet(SubSeq(tg.seen, 1, tg.taken)) \ tgPast.replied
    /\ TgSend(n, FALSE)
    /\ UNCHANGED <<tg, bot>>

TgNext ==
    \/ TgUserWrites \/ TgStart \/ TgAsk \/ TgReply \/ TgError \/ TgStop
    \/ TgListen \/ TgCrash \/ \E n \in TgTexts : TgRespond(n)

-----------------------------------------------------------------------------
(* The voice gateway *)

GwStart ==
    /\ gw.at = "off"
    /\ gw' = [gw EXCEPT !.at = "dialing"]
    /\ UNCHANGED <<line, heard, told>>

GwConnect ==
    /\ gw.at = "dialing"
    /\ gw' = [gw EXCEPT !.at = "reading", !.ws = TRUE]
    /\ line' = "up"
    /\ UNCHANGED <<heard, told>>

\* A frame that is no JSON object is dropped before the queue.
GwFrame ==
    /\ gw.at = "reading" /\ line = "up"
    /\ gw.got < Len(GwFrames)
    /\ gw' = [gw EXCEPT !.got = @ + 1,
                        !.queue = IF GwFrames[gw.got + 1] = "junk" THEN @
                                  ELSE Append(@, gw.got + 1)]
    /\ UNCHANGED <<line, heard, told>>

GwDrop ==
    /\ line = "up"
    /\ line' = "closed"
    /\ UNCHANGED <<gw, heard, told>>

\* Dialing failed, or the task finds the connection closed, cleanly or not.
GwBackOff ==
    /\ gw.at = "dialing" \/ (gw.at = "reading" /\ line = "closed")
    /\ gw' = [gw EXCEPT !.at = "backoff", !.ws = FALSE]
    /\ UNCHANGED <<line, heard, told>>

GwRedial ==
    /\ gw.at = "backoff"
    /\ gw' = [gw EXCEPT !.at = "dialing"]
    /\ UNCHANGED <<line, heard, told>>

\* stop() cancels the task, and waits for the connection to close if there is one.
GwStop ==
    /\ gw.at \in {"dialing", "reading", "backoff"}
    /\ gw' = [gw EXCEPT !.at = "cancelled"]
    /\ UNCHANGED <<line, heard, told>>

\* (Mutant: a cancellation is one more error of the wire.)
GwCancelledBacksOff(end) ==
    gw' = [gw EXCEPT !.at = "backoff", !.ws = FALSE, !.end = end]

\* The task leaves the connection, which closes it, and ends.
GwCancelled(end) == gw' = [gw EXCEPT !.at = "stopped", !.ws = FALSE, !.end = end]

GwStopped ==
    /\ gw.at = "cancelled"
    /\ GwCancelled(Len(gw.queue) + 1)
    /\ line' = IF line = "up" THEN "closed" ELSE line
    /\ UNCHANGED <<heard, told>>

\* _handle_frame: a barge-in is recorded, a frame of another type or an invalid
\* utterance is dropped, and so is one of blanks.
GwYields(kind) == kind = "utterance"

GwListen ==
    /\ gw.at # "off" /\ ~heard.ended
    /\ \/ /\ heard.taken + 1 = gw.end
          /\ heard' = [heard EXCEPT !.ended = TRUE]
       \/ /\ heard.taken + 1 # gw.end /\ heard.taken < Len(gw.queue)
          /\ LET n == gw.queue[heard.taken + 1] IN
             heard' = [heard EXCEPT !.taken = @ + 1,
                           !.yielded = IF GwYields(GwFrames[n]) THEN Append(@, n) ELSE @]
    /\ UNCHANGED <<gw, line, told>>

\* send: over the connection, which may be closed by now, else ChannelUnavailable.
GwSay ==
    /\ told' = IF ~gw.ws THEN "unavailable" ELSE IF line = "up" THEN "sent" ELSE "raised"
    /\ UNCHANGED <<gw, line, heard>>

GwNext ==
    \/ GwStart \/ GwConnect \/ GwFrame \/ GwDrop \/ GwBackOff \/ GwRedial
    \/ GwStop \/ GwStopped \/ GwListen \/ GwSay

-----------------------------------------------------------------------------
WireNext == \/ TgNext /\ UNCHANGED gwVars
            \/ GwNext /\ UNCHANGED tgVars

WireSpec == WireInit /\ [][WireNext]_wireVars

TypeOKWires ==
    /\ tg.at \in {"off", "idle", "asked", "backoff", "stopping"}
    /\ tg.offset \in 0 .. TgMax + 1 /\ tg.taken \in 0 .. Len(tg.seen)
    /\ bot.done \in 0 .. bot.sent /\ bot.sent \in 0 .. TgMax
    /\ tgPast.shown \subseteq tgPast.replied /\ tgPast.replied \subseteq tgPast.yielded
    /\ gw.at \in {"off", "dialing", "reading", "backoff", "cancelled", "stopped"}
    /\ gw.got \in 0 .. Len(GwFrames) /\ heard.taken \in 0 .. Len(gw.queue)
    /\ line \in {"none", "up", "closed"}
    /\ told \in {"none", "sent", "unavailable", "raised"}

\* Within one process each message is yielded once and in the order the bot got
\* them, whatever polls failed.  The next process yields again what the last one
\* did not acknowledge.
TgOnceInOrder == Increasing(tg.seen)

\* A message Telegram has been told to forget was yielded, by this process or by
\* an earlier one, or is still to be taken from the queue; only a crash between
\* the poll that acknowledges it and the listener loses one.  Neither polls that
\* fail nor stops do.
TgAccounted ==
    \A n \in TgTexts : n <= bot.done => n \in tgPast.yielded \cup TgUnread \cup tgPast.lost

\* A message sent to a bot that is up is yielded, however many polls fail, unless
\* the process is stopped first.
TgDelivered ==
    \A n \in TgTexts :
        bot.sent >= n /\ n > bot.done /\ tg.at # "off"
            ~> n \in ToSet(SubSeq(tg.seen, 1, tg.taken)) \/ tg.at \in {"off", "stopping"}

\* What listen() has yielded is, in order, what the gateway said: when it ends
\* after a stop, every utterance that came over any of the connections.
GwHeardAll ==
    LET said == {n \in 1 .. gw.got : GwFrames[n] = "utterance"}
    IN  /\ Increasing(heard.yielded) /\ ToSet(heard.yielded) \subseteq said
        /\ \A m \in ToSet(heard.yielded), n \in said \ ToSet(heard.yielded) : m < n
        /\ heard.ended => ToSet(heard.yielded) = said

\* Over polls that fail, connections that drop, stops and restarts, what became of
\* a user's message is known: no process yields it twice or out of turn, and a
\* message that is yielded by none was lost in a crash of a Telegram channel.
MessagesAccounted == TypeOKWires /\ TgOnceInOrder /\ TgAccounted /\ GwHeardAll

\* After stop() has gone through there is no connection, there comes none, and
\* whoever still has something to say is told so with the channel's own error.
GwStaysStopped ==
    [][gw.end # 0 => /\ line' # "up" /\ ~gw'.ws
                     /\ told' \in {told, "unavailable"}]_gwVars

(* What the source says, checked as it stands. *)

\* channels/manager.py:5: "the result is forwarded back to the originating
\* channel as a ChannelResponse": a response that was sent is seen.
RepliesAreShown == tgPast.replied \subseteq tgPast.shown
=============================================================================
