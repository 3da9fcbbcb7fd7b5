-------------------------------- MODULE Gateway --------------------------------
(***************************************************************************)
(* The gateway: cmd/v1claw/main.go starts and stops the parts,             *)
(* pkg/channels/manager.go the channels and the dispatcher that takes      *)
(* replies from the bus to them, and pkg/agent/loop.go has a worker handle *)
(* each message.  Of a worker's turn only what it says to the user is      *)
(* here; Turn and AgentSession look into it.                               *)
(***************************************************************************)
EXTENDS Fates, TelegramChannel, WhatsAppChannel, VoicePipeline

CONSTANT Workers        \* the size of the pool: 10 in the code

ASSUME GatewayAssumption ==
    /\ Workers \in Nat \ {0}
    /\ Traffic \subseteq [Messages -> {"telegram", "whatsapp", "voice", "none"}]
    /\ Subscribers = {"dispatcher", "voice"}
    /\ Dispatcher \notin Messages /\ None \notin Messages \cup Replies
    /\ ReplyTo \in [Replies -> Messages]

VARIABLES
    main,           \* where gatewayCmd is
    mu,             \* who holds Manager.mu for writing
    starting,       \* the channels that StartAll or StopAll has still to call
    dispatcher,     \* dispatchOutbound: where it is, and the reply it has taken
    agent,          \* AgentLoop.Run: where it is, and the message it has taken
    agentRunning,   \* AgentLoop.running
    worker,         \* per message, its worker
    way,            \* how each reply goes: sent by the message tool, published, or "none" yet
    summarizing     \* the channels whose chat's session is being summarised

managerVars == <<mu, starting, dispatcher>>
agentVars == <<agent, agentRunning, worker, way, summarizing>>
channelVars == <<telegramVars, whatsAppVars, voiceVars>>
vars == <<main, managerVars, agentVars, channelVars, busVars, baseVars>>

Managed == Configured \cap {"telegram", "whatsapp"}

At(where) == [at |-> where, msg |-> None]
With(where, m) == [at |-> where, msg |-> m]

Init ==
    /\ BusInit /\ BaseInit /\ TelegramInit /\ WhatsAppInit /\ VoiceInit
    /\ main = "starting"
    /\ mu = "free"
    /\ starting = {}
    /\ dispatcher = At("off")
    /\ agent = At("off")
    /\ agentRunning = FALSE
    /\ worker = [m \in Messages |-> "none"]
    /\ way = [r \in Replies |-> "none"]
    /\ summarizing = {}

TypeOK ==
    /\ BusTypeOK /\ BaseTypeOK /\ TelegramTypeOK /\ WhatsAppTypeOK /\ VoiceTypeOK
    /\ main \in {"starting", "channels", "agent", "up", "cancelled", "waitAgent",
                 "stopping", "exited"}
    /\ mu \in {"free", "StartAll", "StopAll"}
    /\ starting \subseteq Managed
    /\ dispatcher.at \in {"off", "spawned", "select", "lookup", "sending", "gone"}
    /\ (dispatcher.at \in {"lookup", "sending"}) = (dispatcher.msg \in Replies)
    /\ agent.at \in {"off", "spawned", "select", "acquire", "gone"}
    /\ (agent.at = "acquire") = (agent.msg \in Messages)
    /\ agentRunning \in BOOLEAN
    /\ worker \in [Messages -> {"none", "working", "sending", "notifying", "publishing"}]
    /\ way \in [Replies -> {"none", "sent", "published"}]
    /\ summarizing \subseteq Configured
-----------------------------------------------------------------------------
(* Manager: StartAll and StopAll hold mu while they call the channels.      *)

\* The dispatcher's goroutine is started, not waited for; without channels, nothing is.
StartAll ==
    /\ main = "starting"
    /\ main' = IF Managed = {} THEN "agent" ELSE "channels"
    /\ IF Managed = {}
         THEN UNCHANGED managerVars
         ELSE /\ mu = "free" /\ mu' = "StartAll"
              /\ starting' = Managed
              /\ dispatcher' = At("spawned")
    /\ UNCHANGED <<agentVars, channelVars, busVars, baseVars>>

StartTelegram ==
    /\ mu = "StartAll" /\ "telegram" \in starting
    /\ TelegramStart
    /\ starting' = starting \ {"telegram"}
    /\ UNCHANGED <<main, mu, dispatcher, agentVars, whatsAppVars, voiceVars, busVars, worldVars, ctxDone, call>>

StartWhatsApp ==
    /\ mu = "StartAll" /\ "whatsapp" \in starting
    /\ WhatsAppStart
    /\ starting' = starting \ {"whatsapp"}
    /\ UNCHANGED <<main, mu, dispatcher, agentVars, telegramVars, voiceVars, busVars, worldVars, ctxDone, call>>

AllStarted ==
    /\ mu = "StartAll" /\ starting = {}
    /\ mu' = "free"
    /\ main' = "agent"
    /\ UNCHANGED <<starting, dispatcher, agentVars, channelVars, busVars, baseVars>>

StopTelegram ==
    /\ mu = "StopAll" /\ "telegram" \in starting
    /\ running' = [running EXCEPT !["telegram"] = FALSE]
    /\ starting' = starting \ {"telegram"}
    /\ UNCHANGED <<main, mu, dispatcher, agentVars, channelVars, busVars, worldVars, ctxDone, call>>

StopWhatsApp ==
    /\ mu = "StopAll" /\ "whatsapp" \in starting
    /\ WhatsAppStop
    /\ starting' = starting \ {"whatsapp"}
    /\ UNCHANGED <<main, mu, dispatcher, agentVars, telegramVars, voiceVars, busVars, worldVars, ctxDone, call>>

\* A mutated form: StopAll waits, holding mu, for the dispatcher it has cancelled.
AllStoppedWithDispatcher == mu = "StopAll" /\ starting = {} /\ dispatcher.at \in {"off", "gone"}

AllStopped == mu = "StopAll" /\ starting = {}

\* dispatchOutbound, from its start as a goroutine.
DispatcherSubscribes ==
    /\ dispatcher.at = "spawned"
    /\ SubscribeOutbound("dispatcher")
    /\ dispatcher' = At("select")
    /\ UNCHANGED <<main, mu, starting, agentVars, channelVars, baseVars>>

DispatcherReceives ==
    /\ dispatcher.at = "select"
    /\ Receive("dispatcher")
    /\ dispatcher' = With("lookup", Head(subs["dispatcher"].buffer))
    /\ UNCHANGED <<main, mu, starting, agentVars, channelVars, baseVars>>

\* The read lock is needed to find the channel; "voice" is not the manager's.
Lookup ==
    /\ dispatcher.at = "lookup" /\ mu = "free"
    /\ IF ChannelFor(dispatcher.msg) \in Managed
         THEN /\ EnterSend(Dispatcher, dispatcher.msg)
              /\ dispatcher' = [dispatcher EXCEPT !.at = "sending"]
         ELSE /\ dispatcher' = At("select")
              /\ UNCHANGED call
    /\ UNCHANGED <<main, mu, starting, agentVars, channelVars, busVars, worldVars, ctxDone, running>>

\* A mutated form: the dispatcher returns at a channel's error.
AfterSendGivesUp == At("gone")

\* Whether Send succeeded is only logged.
AfterSend == At("select")

SendReturns ==
    /\ dispatcher.at = "sending" /\ Returned(Dispatcher)
    /\ dispatcher' = AfterSend
    /\ UNCHANGED <<main, mu, starting, agentVars, channelVars, busVars, baseVars>>

DispatcherEnds ==
    /\ dispatcher.at = "select" /\ ctxDone
    /\ Unsubscribe("dispatcher")
    /\ dispatcher' = At("gone")
    /\ UNCHANGED <<main, mu, starting, agentVars, channelVars, baseVars>>
-----------------------------------------------------------------------------
(* AgentLoop: Run, its workers, and the summaries they leave behind.        *)

\* The loop's condition, and the context.
NextRound(isRunning) == At(IF isRunning /\ ~ctxDone THEN "select" ELSE "gone")

RunBegins ==
    /\ agent.at = "spawned"
    /\ agentRunning' = TRUE
    /\ agent' = NextRound(TRUE)
    /\ UNCHANGED <<main, managerVars, worker, way, summarizing, channelVars, busVars, baseVars>>

RunConsumes ==
    /\ agent.at = "select"
    /\ ConsumeInbound
    /\ agent' = With("acquire", Head(inbound))
    /\ UNCHANGED <<main, managerVars, agentRunning, worker, way, summarizing, channelVars, baseVars>>

RunIsWoken ==
    /\ agent.at = "select" /\ ctxDone
    /\ agent' = NextRound(agentRunning)
    /\ UNCHANGED <<main, managerVars, agentRunning, worker, way, summarizing, channelVars,
                   busVars, baseVars>>

Busy == {m \in Messages : worker[m] # "none"}

AcquireWorker ==
    /\ agent.at = "acquire"
    /\ Cardinality(Busy) < Workers
    /\ worker' = [worker EXCEPT ![agent.msg] = "working"]
    /\ agent' = NextRound(agentRunning)
    /\ UNCHANGED <<main, managerVars, agentRunning, way, summarizing, channelVars, busVars, baseVars>>

\* The turn says something to its user, by one way or the other; replies are numbered.
Reply(m, r, how) ==
    /\ worker[m] = "working"
    /\ ReplyTo[r] = m
    /\ \A q \in Replies : ReplyTo[q] = m => ((way[q] = "none") = (q >= r))
    /\ way' = [way EXCEPT ![r] = how]

\* The message tool calls the channel itself, not by way of the bus.
CallMessageTool(m) ==
    /\ mu = "free"
    /\ channelOf[m] \in Managed
    /\ \E r \in Replies : Reply(m, r, "sent") /\ EnterSend(m, r)
    /\ worker' = [worker EXCEPT ![m] = "sending"]
    /\ UNCHANGED <<main, managerVars, agent, agentRunning, summarizing, channelVars, busVars,
                   worldVars, ctxDone, running>>

\* A long history starts a summary, once per session at a time.
MaySummarize(m) == summarizing' \in {summarizing, summarizing \cup {channelOf[m]}}

\* The turn is over.
TurnEnds(m) ==
    /\ worker' = [worker EXCEPT ![m] = "none"]
    /\ MaySummarize(m)

\* Whether Send succeeded or not, the turn ends without an answer if the batch of calls
\* has none but of terminal tools, and goes on otherwise: to the next call of the batch,
\* which may be one of the message tool again, or to the model.
AfterMessageTool(m) ==
    \/ worker' = [worker EXCEPT ![m] = "working"] /\ UNCHANGED summarizing
    \/ TurnEnds(m)

MessageToolReturns(m) ==
    /\ worker[m] = "sending" /\ Returned(m)
    /\ AfterMessageTool(m)
    /\ UNCHANGED <<main, managerVars, agent, agentRunning, way, channelVars, busVars, baseVars>>

\* A turn with nothing left to say: a message tool that was given no channel of the
\* manager's fails, and ends it as well.
NoAnswer(m) ==
    /\ worker[m] = "working"
    /\ TurnEnds(m)
    /\ UNCHANGED <<main, managerVars, agent, agentRunning, way, channelVars, busVars, baseVars>>

\* What is published in the middle of a turn: notify_user, the alerts of the file tools
\* and of exec, the notices of a fallback and of a compression.
Notify(m) ==
    /\ \E r \in Replies : Reply(m, r, "published") /\ BeginPublish(r)
    /\ worker' = [worker EXCEPT ![m] = "notifying"]
    /\ UNCHANGED <<main, managerVars, agent, agentRunning, summarizing, channelVars, baseVars>>

\* The turn is over, with an answer or an error to report.
PublishAnswer(m) ==
    /\ \E r \in Replies : Reply(m, r, "published") /\ BeginPublish(r)
    /\ worker' = [worker EXCEPT ![m] = "publishing"]
    /\ MaySummarize(m)
    /\ UNCHANGED <<main, managerVars, agent, agentRunning, channelVars, baseVars>>

PublishGoesOn(r) ==
    /\ \E s \in Subscribers : SendTo(r, s)
    /\ UNCHANGED <<main, managerVars, agentVars, channelVars, baseVars>>

AfterPublish(at) == IF at = "notifying" THEN "working" ELSE "none"

ReplyPublished(r) ==
    /\ EndPublish(r)
    /\ worker' = [worker EXCEPT ![ReplyTo[r]] = AfterPublish(@)]
    /\ UNCHANGED <<main, managerVars, agent, agentRunning, way, summarizing, channelVars, baseVars>>

SummaryEnds(c) ==
    /\ c \in summarizing
    /\ summarizing' = summarizing \ {c}
    /\ UNCHANGED <<main, managerVars, agent, agentRunning, worker, way, channelVars, busVars,
                   baseVars>>
-----------------------------------------------------------------------------
(* gatewayCmd: the services it starts besides are other modules' subjects.  *)

StartAgentAndVoice ==
    /\ main = "agent"
    /\ agent' = At("spawned")
    /\ IF "voice" \in Configured THEN VoiceStart ELSE UNCHANGED voiceVars
    /\ main' = "up"
    /\ UNCHANGED <<managerVars, agentRunning, worker, way, summarizing, telegramVars, whatsAppVars,
                   busVars, baseVars>>

\* The signal: the root context is cancelled before anything is stopped.
Signal ==
    /\ main = "up"
    /\ ctxDone' = TRUE
    /\ main' = "cancelled"
    /\ UNCHANGED <<managerVars, agentVars, channelVars, busVars, worldVars, running, call>>

\* The voice pipeline first; the API server, queue, router, health server, device service,
\* heartbeat and cron after it have no part in a message's way; then AgentLoop.Stop.
StopServices ==
    /\ main = "cancelled"
    /\ IF "voice" \in Configured THEN VoiceStop ELSE UNCHANGED voiceVars
    /\ agentRunning' = FALSE
    /\ main' = "waitAgent"
    /\ UNCHANGED <<managerVars, agent, worker, way, summarizing, telegramVars, whatsAppVars,
                   busVars, baseVars>>

\* AgentLoop.Stop has waited, for the summaries and not for the workers.  StopAll cancels
\* the dispatcher's context, which has ended with the gateway's by now.
StopAll ==
    /\ main = "waitAgent"
    /\ summarizing = {}
    /\ mu = "free" /\ mu' = "StopAll"
    /\ starting' = Managed
    /\ main' = "stopping"
    /\ UNCHANGED <<dispatcher, agentVars, channelVars, busVars, baseVars>>

Exit ==
    /\ main = "stopping" /\ AllStopped
    /\ main' = "exited"
    /\ mu' = "free"
    /\ UNCHANGED <<starting, dispatcher, agentVars, channelVars, busVars, baseVars>>
-----------------------------------------------------------------------------
MainStep ==
    \/ StartAll \/ StartTelegram \/ StartWhatsApp \/ AllStarted \/ StartAgentAndVoice
    \/ StopServices \/ StopAll \/ StopTelegram \/ StopWhatsApp \/ Exit

DispatcherStep ==
    DispatcherSubscribes \/ DispatcherReceives \/ Lookup \/ SendReturns \/ DispatcherEnds

RunStep == RunBegins \/ RunConsumes \/ RunIsWoken \/ AcquireWorker

WorkerStep(m) ==
    CallMessageTool(m) \/ MessageToolReturns(m) \/ NoAnswer(m) \/ Notify(m) \/ PublishAnswer(m)

PublishStep(r) == PublishGoesOn(r) \/ ReplyPublished(r)

Outside == <<main, managerVars, agentVars>>

TelegramStep ==
    /\ \/ TelegramLoop
       \/ \E m \in Messages : IndicatorEnds(m)
    /\ UNCHANGED <<Outside, whatsAppVars, voiceVars>>

WhatsAppStep ==
    /\ ReadFails \/ ListenEnds
    /\ UNCHANGED <<Outside, telegramVars, voiceVars>>

VoicePart == VoiceStep /\ UNCHANGED <<Outside, telegramVars, whatsAppVars>>

SendStep(c) ==
    \/ TelegramSending(c) /\ UNCHANGED <<Outside, whatsAppVars, voiceVars>>
    \/ WhatsAppSend(c) /\ UNCHANGED <<Outside, telegramVars, voiceVars>>

\* What users and networks do, when they like.
Arrives(m) ==
    \/ PollUpdates(m) /\ UNCHANGED <<Outside, whatsAppVars, voiceVars>>
    \/ ReadMessage(m) /\ UNCHANGED <<Outside, telegramVars, voiceVars>>
    \/ Record(m) /\ UNCHANGED <<Outside, telegramVars, whatsAppVars>>

BridgeLost == ConnectionBreaks /\ UNCHANGED <<Outside, telegramVars, voiceVars>>

Alive == main # "exited" /\ ~panicked

\* What goroutines do when they are scheduled, and providers, services and dials
\* when they answer or time out.
SystemStep ==
    \/ MainStep \/ DispatcherStep \/ RunStep \/ TelegramStep \/ WhatsAppStep \/ VoicePart
    \/ \E m \in Messages : WorkerStep(m)
    \/ \E r \in Replies : PublishStep(r)
    \/ \E c \in Configured : SummaryEnds(c)
    \/ \E c \in Callers : SendStep(c)

Next ==
    /\ Alive
    /\ \/ SystemStep \/ Signal \/ BridgeLost
       \/ \E m \in Messages : Arrives(m)

\* As long as something in the process can move, something does.
Fairness == WF_vars(Alive /\ SystemStep)

Spec == Init /\ [][Next]_vars /\ Fairness
-----------------------------------------------------------------------------
(* The gateway as a deliverer of replies.                                   *)

BeingReceived(m) == update.msg = m \/ recording[m] = "transcribing"

BeingHandled(m) == agent.msg = m \/ worker[m] # "none"

\* The reply is in the dispatcher's or the voice pipeline's hands, or on the way there.
UnderWay(r) == Buffered(r) \/ dispatcher.msg = r \/ speech[r] # "none"

BeingAnswered(m) == \E r \in Replies : ReplyTo[r] = m /\ UnderWay(r)

Fate(m) ==
    CASE m \in unread -> Unread
      [] m \notin unread /\ ~Alive -> Settled
      [] OTHER -> IF BeingReceived(m) THEN Received
                  ELSE IF \E i \in DOMAIN inbound : inbound[i] = m THEN Queued
                  ELSE IF BeingHandled(m) THEN Handled
                  ELSE IF BeingAnswered(m) THEN Answered
                  ELSE Settled

Ledger == INSTANCE Delivery WITH fate <- [m \in Messages |-> Fate(m)]

(***************************************************************************)
(* Whatever the channels, the workers, the dispatcher and the shutdown do  *)
(* at once, a message is handled once, by one worker; no reply of its turn *)
(* is shown more than twice; and what the message tool sends is shown      *)
(* before the turn says anything else, if it is shown at all.              *)
(***************************************************************************)
ImplementsDelivery == Ledger!Spec

(***************************************************************************)
(* A message in the inbound queue is dealt with to the end, however busy   *)
(* the workers, slow the channels and late the dispatcher, unless the      *)
(* gateway is told to stop or dies first.                                  *)
(***************************************************************************)
QueuedMessagesAreSettled ==
    \A m \in Messages :
        (Fate(m) = Queued) ~> (Fate(m) = Settled \/ ctxDone \/ panicked)

(***************************************************************************)
(* After the signal gatewayCmd returns: no part it stops waits for one     *)
(* that was stopped before, or for a lock that is not given back.          *)
(***************************************************************************)
ShutdownCompletes == ctxDone ~> (main = "exited" \/ panicked)

(***************************************************************************)
(* telegram.go:587: a new message is to "Stop any previous typing          *)
(* indicator" of its chat, so that at most one is going on.                *)
(***************************************************************************)
OneTypingIndicator == Cardinality({m \in Messages : indicator[m] = "typing"}) <= 1
=============================================================================
