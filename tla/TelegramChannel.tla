--------------------------- MODULE TelegramChannel ---------------------------
(***************************************************************************)
(* pkg/channels/telegram.go and telegram_commands.go: the update loop, one *)
(* message at a time; Send, which the dispatcher and the message tool may  *)
(* be in at once; and the typing indicators, goroutines whose cancel       *)
(* functions are kept in the map stopThinking under the chat's key, and    *)
(* which delete that key when they end, whoever stored it last.            *)
(* The map of placeholders is only ever read, so that Send never edits.    *)
(* A requested file that cannot be had is left out, and every text is      *)
(* some text: downloads, transcription and formatting change no state.     *)
(***************************************************************************)
EXTENDS BaseChannel

CONSTANT None

VARIABLES
    update,         \* the update loop: where it is and the message it is at
    stopThinking,   \* whose indicator the chat's entry can cancel
    indicator       \* per message, its typing indicator's goroutine

telegramVars == <<update, stopThinking, indicator>>

UpdateLoop(at, m) == [at |-> at, msg |-> m]

TelegramInit ==
    /\ update = UpdateLoop("off", None)
    /\ stopThinking = None
    /\ indicator = [m \in Messages |-> "none"]

TelegramTypeOK ==
    /\ update.at \in {"off", "polling", "indicating", "gone"}
    /\ (update.at = "indicating") = (update.msg \in Messages)
    /\ stopThinking \in Messages \cup {None}
    /\ indicator \in [Messages -> {"none", "typing", "cancelled"}]

\* Start never fails: it does not ask the service for anything.
TelegramStart ==
    /\ running' = [running EXCEPT !["telegram"] = TRUE]
    /\ update' = UpdateLoop("polling", None)
    /\ UNCHANGED <<stopThinking, indicator>>

Cancelled(m) == [indicator EXCEPT ![m] = IF @ = "typing" THEN "cancelled" ELSE @]

\* pollUpdates returns a message (a batch of several, and a poll that fails and is
\* tried again, differ only in the time they take), and handleMessage gets to it.
\* What was sent before the start, or by a stranger, ends here without an answer; a
\* command, or a message to a bot without an owner, with one of the channel's own.
\* Otherwise the chat's previous indicator is cancelled, if the map still knows it.
PollUpdates(m) ==
    /\ update.at = "polling" /\ ~ctxDone
    /\ NextFrom("telegram", m)
    /\ \/ UNCHANGED <<update, indicator>>
       \/ /\ update' = UpdateLoop("indicating", m)
          /\ indicator' = IF stopThinking = None THEN indicator ELSE Cancelled(stopThinking)
    /\ UNCHANGED <<stopThinking, busVars, channelOf, copies, ctxDone, running, call>>

UpdateLoopEnds ==
    /\ update.at = "polling" /\ ctxDone
    /\ update' = UpdateLoop("gone", None)
    /\ UNCHANGED <<stopThinking, indicator, busVars, baseVars>>

StartTypingIndicator ==
    /\ update.at = "indicating"
    /\ stopThinking' = update.msg
    /\ indicator' = [indicator EXCEPT ![update.msg] = "typing"]
    /\ HandleMessage(update.msg)
    /\ update' = UpdateLoop("polling", None)
    /\ UNCHANGED baseVars

\* The goroutine finds its context ended, by its own cancel function or with the
\* gateway's, and deletes the chat's key.
IndicatorEnds(m) ==
    /\ indicator[m] = "cancelled" \/ (indicator[m] = "typing" /\ ctxDone)
    /\ indicator' = [indicator EXCEPT ![m] = "none"]
    /\ stopThinking' = None
    /\ UNCHANGED <<update, busVars, baseVars>>

\* Send, called by c: not running, it returns before the deferred function is set up.
TelegramSendRefused(c) ==
    /\ call[c].at = "send" /\ ChannelFor(call[c].msg) = "telegram"
    /\ ~running["telegram"]
    /\ call' = [call EXCEPT ![c] = Idle]
    /\ UNCHANGED <<telegramVars, busVars, worldVars, ctxDone, running>>

\* After the first attempt: the second is for text that the service could not parse,
\* but any error leads there, a lost reply too.
AfterHTML(sent) == IF sent THEN "stop" ELSE "plain"

TelegramSend(c) ==
    /\ \/ call[c].at = "send" /\ ChannelFor(call[c].msg) = "telegram" /\ running["telegram"]
       \/ call[c].at = "plain"
    /\ \E sent, shown \in BOOLEAN :
        /\ sent => shown
        /\ IF shown THEN Show(call[c].msg) ELSE UNCHANGED copies
        /\ call' = [call EXCEPT ![c].at = IF @ = "send" THEN AfterHTML(sent) ELSE "stop"]
    /\ UNCHANGED <<telegramVars, busVars, channelOf, unread, ctxDone, running>>

\* The deferred function: Load and Cancel, then Delete.
StopTyping(c) ==
    /\ call[c].at = "stop"
    /\ IF stopThinking = None
         THEN /\ call' = [call EXCEPT ![c] = Idle]
              /\ UNCHANGED indicator
         ELSE /\ call' = [call EXCEPT ![c].at = "forget"]
              /\ indicator' = Cancelled(stopThinking)
    /\ UNCHANGED <<update, stopThinking, busVars, worldVars, ctxDone, running>>

ForgetTyping(c) ==
    /\ call[c].at = "forget"
    /\ stopThinking' = None
    /\ call' = [call EXCEPT ![c] = Idle]
    /\ UNCHANGED <<update, indicator, busVars, worldVars, ctxDone, running>>

TelegramSending(c) ==
    TelegramSendRefused(c) \/ TelegramSend(c) \/ StopTyping(c) \/ ForgetTyping(c)

TelegramLoop ==
    UpdateLoopEnds \/ StartTypingIndicator
=============================================================================
