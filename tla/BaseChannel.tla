----------------------------- MODULE BaseChannel -----------------------------
(***************************************************************************)
(* pkg/channels/base.go, and what the channels share: who may speak, how a *)
(* message gets onto the bus, and the two ways by which a reply is handed  *)
(* to a channel's Send: the dispatcher's and the message tool's.           *)
(* One chat per channel.                                                   *)
(***************************************************************************)
EXTENDS MessageBus

CONSTANTS
    ReplyTo,        \* the message that each reply is to
    Traffic,        \* in each of the cases looked at, which channel a message comes by, or "none"
    Dispatcher      \* the caller of Send that is not a worker

Callers == Messages \cup {Dispatcher}

VARIABLES
    channelOf,      \* the channel a message comes by
    unread,         \* messages sent by users and not received yet
    copies,         \* how often each reply was shown in the chat of its message
    ctxDone,        \* the gateway's context is cancelled
    running,        \* BaseChannel.running, per channel
    call            \* per caller, where its call of Send is

worldVars == <<channelOf, unread, copies>>
baseVars == <<worldVars, ctxDone, running, call>>

Idle == [at |-> "idle"]
Sending(at, r) == [at |-> at, msg |-> r]

\* The channel whose user a reply is for.
ChannelFor(r) == channelOf[ReplyTo[r]]

BaseInit ==
    /\ channelOf \in Traffic
    /\ unread = Messages
    /\ copies = [r \in Replies |-> 0]
    /\ ctxDone = FALSE
    /\ running = [c \in {"telegram", "whatsapp"} |-> FALSE]
    /\ call = [c \in Callers |-> Idle]

BaseTypeOK ==
    /\ unread \subseteq Messages
    /\ copies \in [Replies -> 0..2]
    /\ \A c \in Callers : call[c] # Idle =>
        call[c].at \in {"send", "plain", "stop", "forget"} /\ call[c].msg \in Replies

\* HandleMessage: IsAllowed is asked about the sender's bare ID, so that a stranger, and
\* a user whose entry on the allow-list is a bare user name, is dropped in silence; and
\* the result of PublishInbound is not looked at.
HandleMessage(m) == PublishInbound(m) \/ UNCHANGED busVars

\* The service hands out what a chat holds in order.
NextFrom(channel, m) ==
    /\ m \in unread /\ channelOf[m] = channel
    /\ \A n \in unread : channelOf[n] = channel => m <= n
    /\ unread' = unread \ {m}

Show(r) == copies' = [copies EXCEPT ![r] = @ + 1]

\* The channels that the configuration enables: those that messages come by.
Configured == {channelOf[m] : m \in Messages}

\* A caller enters Send with r.
EnterSend(c, r) == call' = [call EXCEPT ![c] = Sending("send", r)]

\* A mutated form: Send is started as a goroutine, which nobody waits for.
NotAwaited(c) == TRUE

Returned(c) == call[c] = Idle
=============================================================================
