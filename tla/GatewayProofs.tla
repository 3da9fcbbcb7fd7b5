----------------------------- MODULE GatewayProofs -----------------------------
(***************************************************************************)
(* Proofs about the gateway, for any number of messages, of replies to     *)
(* each and of workers, and buffers of any size: nothing is sent on a      *)
(* closed channel, the gateway implements Delivery, and its variables keep *)
(* their types.                                                            *)
(***************************************************************************)
EXTENDS Gateway, TLAPS
-----------------------------------------------------------------------------
(* Whom a publisher has still to serve has its channel open: the list it   *)
(* has read cannot change before it gives the read lock back.              *)
SubscriptionsInv ==
    /\ DOMAIN subs = Subscribers
    /\ \A s \in Subscribers : DOMAIN subs[s] = {"state", "buffer"}
    /\ \A r \in DOMAIN publishing : publishing[r] \subseteq Subscribers
    /\ NoSendOnClosed

(* The steps of the bus, as far as its subscriptions are concerned.        *)
OnTheBus ==
    \/ UNCHANGED <<subs, publishing>>
    \/ \E r \in Replies : BeginPublish(r) \/ EndPublish(r)
    \/ \E r \in Replies, s \in Subscribers : SendTo(r, s)
    \/ \E s \in Subscribers : SubscribeOutbound(s) \/ Unsubscribe(s) \/ Receive(s)

(* Nobody publishes at first.                                              *)
LEMMA NobodyPublishes == Init => SubscriptionsInv
BY DEF Init, BusInit, NoSubscription, SubscriptionsInv, NoSendOnClosed

(* A publisher begins with what is listed, and ends with nothing to serve; *)
(* the list changes when there is no publisher.                            *)
LEMMA BusKeeps ==
    ASSUME SubscriptionsInv, OnTheBus
    PROVE  SubscriptionsInv'
<1>1. CASE UNCHANGED <<subs, publishing>>
  BY <1>1 DEF SubscriptionsInv, NoSendOnClosed
<1>2. ASSUME NEW r \in Replies, BeginPublish(r) PROVE SubscriptionsInv'
  <2>1. \A n \in DOMAIN publishing' :
           IF n = r THEN publishing'[n] = Listed
           ELSE n \in DOMAIN publishing /\ publishing'[n] = publishing[n]
    BY <1>2 DEF BeginPublish
  <2> QED
    BY <1>2, <2>1 DEF BeginPublish, Listed, SubscriptionsInv, NoSendOnClosed
<1>3. ASSUME NEW r \in Replies, EndPublish(r) PROVE SubscriptionsInv'
  BY <1>3 DEF EndPublish, SubscriptionsInv, NoSendOnClosed
<1>4. ASSUME NEW r \in Replies, NEW s \in Subscribers, SendTo(r, s) PROVE SubscriptionsInv'
  <2> DEFINE u == [subs[s] EXCEPT !.buffer = Offer(subs[s].buffer, OutboundSize, r)]
  <2>1. subs' = [subs EXCEPT ![s] = u] /\ DOMAIN u = {"state", "buffer"}
        /\ u.state = subs[s].state
    BY <1>4 DEF SendTo, SubscriptionsInv
  <2> HIDE DEF u
  <2>2. \A v \in Subscribers : subs'[v].state = subs[v].state
    BY <2>1 DEF SubscriptionsInv
  <2>3. /\ DOMAIN publishing' = DOMAIN publishing
        /\ \A n \in DOMAIN publishing : publishing'[n] \subseteq publishing[n]
    BY <1>4 DEF SendTo
  <2> QED
    BY <2>1, <2>2, <2>3 DEF SubscriptionsInv, NoSendOnClosed
<1>5. ASSUME NEW s \in Subscribers, NEW u, DOMAIN u = {"state", "buffer"},
             subs' = [subs EXCEPT ![s] = u], publishing' = publishing,
             u.state = subs[s].state \/ WriteLockFree
      PROVE  SubscriptionsInv'
  BY <1>5 DEF WriteLockFree, SubscriptionsInv, NoSendOnClosed
<1>6. ASSUME NEW s \in Subscribers, SubscribeOutbound(s) PROVE SubscriptionsInv'
  <2>1. /\ subs' = [subs EXCEPT ![s] = [subs[s] EXCEPT !.state = "listed"]]
        /\ DOMAIN [subs[s] EXCEPT !.state = "listed"] = {"state", "buffer"}
    BY <1>6 DEF SubscribeOutbound, SubscriptionsInv
  <2> QED
    BY <1>5, <1>6, <2>1 DEF SubscribeOutbound
<1>7. ASSUME NEW s \in Subscribers, Unsubscribe(s) PROVE SubscriptionsInv'
  BY <1>5, <1>7 DEF Unsubscribe
<1>8. ASSUME NEW s \in Subscribers, Receive(s) PROVE SubscriptionsInv'
  <2> DEFINE u == [subs[s] EXCEPT !.buffer = Tail(subs[s].buffer)]
  <2>1. /\ subs' = [subs EXCEPT ![s] = u] /\ DOMAIN u = {"state", "buffer"}
        /\ u.state = subs[s].state
    BY <1>8 DEF Receive, SubscriptionsInv
  <2> HIDE DEF u
  <2> QED
    BY <1>5, <1>8, <2>1 DEF Receive
<1> QED
  BY <1>1, <1>2, <1>3, <1>4, <1>6, <1>7, <1>8 DEF OnTheBus
-----------------------------------------------------------------------------
(* What the parts of the gateway do to the bus are its operations.         *)
LEMMA PartsUseTheBus == [Next]_vars => OnTheBus
<1> SUFFICES ASSUME [Next]_vars PROVE OnTheBus
  OBVIOUS
<1>0. "dispatcher" \in Subscribers /\ "voice" \in Subscribers
  BY GatewayAssumption
<1>1. CASE MainStep
  BY <1>1 DEF MainStep, StartAll, StartTelegram, StartWhatsApp, AllStarted, StartAgentAndVoice,
              StopServices, StopAll, StopTelegram, StopWhatsApp, Exit, busVars, OnTheBus
<1>2. CASE DispatcherStep
  BY <1>0, <1>2 DEF DispatcherStep, DispatcherSubscribes, DispatcherReceives, Lookup,
                    SendReturns, DispatcherEnds, busVars, OnTheBus
<1>3. CASE RunStep
  BY <1>3 DEF RunStep, RunBegins, RunConsumes, RunIsWoken, AcquireWorker, ConsumeInbound,
              busVars, OnTheBus
<1>4. ASSUME NEW m \in Messages, WorkerStep(m) PROVE OnTheBus
  BY <1>4 DEF WorkerStep, CallMessageTool, MessageToolReturns, NoAnswer, Notify, PublishAnswer,
              busVars, OnTheBus
<1>13. ASSUME NEW r \in Replies, PublishStep(r) PROVE OnTheBus
  BY <1>13 DEF PublishStep, PublishGoesOn, ReplyPublished, OnTheBus
<1>5. CASE TelegramStep
  BY <1>5 DEF TelegramStep, TelegramLoop, UpdateLoopEnds, StartTypingIndicator, IndicatorEnds,
              HandleMessage, PublishInbound, busVars, OnTheBus
<1>6. CASE WhatsAppStep \/ BridgeLost
  BY <1>6 DEF WhatsAppStep, ReadFails, ListenEnds, BridgeLost, ConnectionBreaks, busVars,
              OnTheBus
<1>7. CASE VoicePart
  <2>1. ASSUME NEW m \in Messages, NothingToSend(m) \/ ProcessRecording(m) PROVE OnTheBus
    BY <2>1 DEF NothingToSend, ProcessRecording, PublishInbound, busVars, OnTheBus
  <2>3. ASSUME NEW r \in Replies, SpeakResponse(r) PROVE OnTheBus
    BY <2>3 DEF SpeakResponse, busVars, OnTheBus
  <2>2. CASE RecordLoopEnds \/ HandleOutboundStarts \/ HandleOutboundReceives \/ HandleOutboundEnds
    BY <1>0, <2>2 DEF RecordLoopEnds, HandleOutboundStarts, HandleOutboundReceives,
                      HandleOutboundEnds, busVars, OnTheBus
  <2> QED
    BY <1>7, <2>1, <2>2, <2>3 DEF VoicePart, VoiceStep
<1>8. ASSUME NEW c, SendStep(c) PROVE OnTheBus
  BY <1>8 DEF SendStep, TelegramSending, TelegramSendRefused, TelegramSend, StopTyping,
              ForgetTyping, WhatsAppSend, busVars, OnTheBus
<1>9. ASSUME NEW m, Arrives(m) PROVE OnTheBus
  BY <1>9 DEF Arrives, PollUpdates, ReadMessage, Record, HandleMessage, PublishInbound,
              busVars, OnTheBus
<1>10. CASE Signal
  BY <1>10 DEF Signal, busVars, OnTheBus
<1>11. ASSUME NEW c, SummaryEnds(c) PROVE OnTheBus
  BY <1>11 DEF SummaryEnds, busVars, OnTheBus
<1>12. CASE UNCHANGED vars
  BY <1>12 DEF vars, busVars, OnTheBus
<1> QED
  BY <1>1, <1>2, <1>3, <1>4, <1>5, <1>6, <1>7, <1>8, <1>9, <1>10, <1>11, <1>12,
     <1>13
  DEF Next, SystemStep

(* Workers publish while the dispatcher and the voice pipeline come and    *)
(* leave: none of them ever sends on a channel that has been closed.       *)
THEOREM NothingIsSentOnClosed == Spec => []NoSendOnClosed
<1>1. SubscriptionsInv /\ [Next]_vars => SubscriptionsInv'
  BY BusKeeps, PartsUseTheBus
<1>2. SubscriptionsInv => NoSendOnClosed
  BY DEF SubscriptionsInv
<1> QED
  BY NobodyPublishes, <1>1, <1>2, PTL DEF Spec
-----------------------------------------------------------------------------
(* Where a message is on its way, and its replies, and the order in which  *)
(* they come there.                                                        *)
Holds(q, n) == \E i \in DOMAIN q : q[i] = n
Once(q, n) == \A i, j \in DOMAIN q : q[i] = n /\ q[j] = n => i = j

Lies(r, s) == Holds(subs[s].buffer, r)
Awaits(r, s) == r \in DOMAIN publishing /\ s \in publishing[r]

Stage(n) ==
    IF n \in unread THEN Unread
    ELSE IF BeingReceived(n) THEN Received
    ELSE IF Holds(inbound, n) THEN Queued
    ELSE IF BeingHandled(n) THEN Handled
    ELSE IF BeingAnswered(n) THEN Answered
    ELSE Settled

Subscription == [state : {"none", "listed", "closed"}, buffer : Seq(Replies)]
Dispatching ==
    [at : {"off", "spawned", "select", "lookup", "sending", "gone"}, msg : Replies \cup {None}]
WorkerStates == {"none", "working", "sending", "notifying", "publishing"}
Calls == {Idle} \cup [at : {"send", "plain", "stop", "forget"}, msg : Replies]

(* What the variables hold, as far as a message's way and its replies' are *)
(* concerned.                                                              *)
PartsInv ==
    /\ channelOf \in [Messages -> {"telegram", "whatsapp", "voice", "none"}]
    /\ unread \subseteq Messages
    /\ copies \in [Replies -> Nat]
    /\ inbound \in Seq(Messages)
    /\ subs \in [Subscribers -> Subscription]
    /\ DOMAIN publishing \subseteq Replies
    /\ (update.at = "indicating") = (update.msg \in Messages)
    /\ recording \in [Messages -> {"none", "transcribing"}]
    /\ speech \in [Replies -> {"none", "speaking", "again"}]
    /\ worker \in [Messages -> WorkerStates]
    /\ way \in [Replies -> {"none", "sent", "published"}]
    /\ (agent.at = "acquire") = (agent.msg \in Messages)
    /\ (dispatcher.at \in {"lookup", "sending"}) = (dispatcher.msg \in Replies)
    /\ dispatcher \in Dispatching
    /\ call \in [Callers -> Calls]
    /\ call[Dispatcher].at # "idle" =>
          dispatcher.at = "sending" /\ call[Dispatcher].msg = dispatcher.msg

(* What is started is not at work before.                                  *)
StartInv ==
    /\ mu = "StartAll" => main = "channels"
    /\ main = "starting" => dispatcher.at = "off" /\ update.at = "off"
    /\ mu = "StartAll" /\ "telegram" \in starting => update.at = "off"
    /\ main \in {"starting", "channels", "agent"} => agent.at = "off"

(* A message is in one place, and its worker is in Send for a reply to it. *)
Apart(n) ==
    /\ n \in unread => ~BeingReceived(n) /\ ~Holds(inbound, n) /\ ~BeingHandled(n)
    /\ BeingReceived(n) => ~Holds(inbound, n) /\ ~BeingHandled(n)
    /\ Holds(inbound, n) => ~BeingHandled(n)
    /\ update.msg = n => recording[n] = "none"
    /\ agent.msg = n => worker[n] = "none"
    /\ Once(inbound, n)
    /\ call[n].at # "idle" => worker[n] = "sending" /\ ReplyTo[call[n].msg] = n

(* Nothing is said in return before a worker has the message.              *)
Early(n) == n \in unread \/ BeingReceived(n) \/ Holds(inbound, n) \/ agent.msg = n

Last(r) == \A q \in Replies : ReplyTo[q] = ReplyTo[r] /\ q > r => way[q] = "none"

(* The message tool is sending the reply.                                  *)
BeingSent(r) == call[ReplyTo[r]].at # "idle" /\ call[ReplyTo[r]].msg = r

(* A reply goes the way it was made for, and the turn waits for what it    *)
(* sends itself and for the publishing of the rest.                        *)
MadeInv(r) ==
    /\ way[r] # "none" => ~Early(ReplyTo[r])
    /\ way[r] # "published" => ~UnderWay(r) /\ r \notin DOMAIN publishing
    /\ BeingSent(r) => way[r] = "sent" /\ Last(r)
    /\ r \in DOMAIN publishing =>
          worker[ReplyTo[r]] \in {"notifying", "publishing"} /\ Last(r)

(* It is in one hand of each subscriber's.                                 *)
InOneHand(r) ==
    /\ \A s \in Subscribers : Once(subs[s].buffer, r) /\ ~(Awaits(r, s) /\ Lies(r, s))
    /\ dispatcher.msg = r => ~Awaits(r, "dispatcher") /\ ~Lies(r, "dispatcher")
    /\ speech[r] # "none" =>
          ChannelFor(r) = "voice" /\ ~Awaits(r, "voice") /\ ~Lies(r, "voice")
    /\ dispatcher.msg = r /\ dispatcher.at = "sending" => ChannelFor(r) # "voice"

Server(r) == IF ChannelFor(r) = "voice" THEN "voice" ELSE "dispatcher"

Untold(r) ==
    \/ way[r] = "none"
    \/ call[ReplyTo[r]].at = "send" /\ call[ReplyTo[r]].msg = r
    \/ Awaits(r, Server(r)) \/ Lies(r, Server(r))
    \/ /\ ChannelFor(r) # "voice" /\ dispatcher.msg = r
       /\ dispatcher.at = "lookup" \/ call[Dispatcher].at = "send"
    \/ speech[r] = "speaking"

ToldOnceAtMost(r) ==
    \/ call[ReplyTo[r]].at = "plain" /\ call[ReplyTo[r]].msg = r
    \/ dispatcher.msg = r /\ call[Dispatcher].at = "plain"
    \/ speech[r] = "again"

CopiesInv(r) ==
    /\ Untold(r) => copies[r] = 0
    /\ ToldOnceAtMost(r) => copies[r] <= 1
    /\ copies[r] <= 2

Good(r) == MadeInv(r) /\ InOneHand(r) /\ CopiesInv(r)

WayInv ==
    /\ PartsInv /\ StartInv
    /\ \A n \in Messages : Apart(n)
    /\ \A r \in Replies : Good(r)
-----------------------------------------------------------------------------
(* The steps of the ledger that a step may be: nothing gets on but what is *)
(* given up,                                                               *)
Recedes ==
    /\ UNCHANGED <<copies, way>>
    /\ \A n \in Messages : Stage(n)' \in {Stage(n), Settled} /\ (n \in unread' <=> n \in unread)

(* a message gets on,                                                      *)
GetsOn(m) ==
    /\ UNCHANGED <<copies, way>>
    /\ Stage(m)' >= Stage(m)
    /\ \A n \in Messages \ {m} : Stage(n)' = Stage(n)

(* a reply is made,                                                        *)
IsMade(r) ==
    /\ Stage(ReplyTo[r]) = Handled
    /\ \A q \in Replies : ReplyTo[q] = ReplyTo[r] => ((way[q] = "none") = (q >= r))
    /\ \E how \in {"sent", "published"} : way' = [way EXCEPT ![r] = how]
    /\ UNCHANGED copies
    /\ \A n \in Messages : Stage(n)' = Stage(n)

(* or shown.                                                               *)
IsShown(r) ==
    /\ \/ way[r] = "sent" /\ Stage(ReplyTo[r]) = Handled /\ Last(r)
       \/ way[r] = "published" /\ Stage(ReplyTo[r]) \in {Handled, Answered}
    /\ copies[r] < 2
    /\ copies' = [copies EXCEPT ![r] = @ + 1]
    /\ UNCHANGED way
    /\ Stage(ReplyTo[r])' \in {Stage(ReplyTo[r]), Settled}
    /\ \A n \in Messages \ {ReplyTo[r]} : Stage(n)' = Stage(n)

Step ==
    \/ Recedes
    \/ /\ UNCHANGED <<main, panicked>>
       /\ \/ \E m \in Messages : GetsOn(m)
          \/ \E r \in Replies : IsMade(r) \/ IsShown(r)

(* What a step leaves of a message's whereabouts,                          *)
Rests(n) ==
    /\ n \in unread' <=> n \in unread
    /\ update'.msg = n <=> update.msg = n
    /\ recording'[n] = recording[n]
    /\ Holds(inbound', n) <=> Holds(inbound, n)
    /\ Once(inbound, n) => Once(inbound', n)
    /\ agent'.msg = n <=> agent.msg = n

(* and of a reply's.                                                       *)
Unaffected(r) ==
    /\ Early(ReplyTo[r])' => Early(ReplyTo[r])
    /\ r \in DOMAIN publishing' <=> r \in DOMAIN publishing
    /\ r \in DOMAIN publishing => worker'[ReplyTo[r]] = worker[ReplyTo[r]]
    /\ r \in DOMAIN publishing \/ BeingSent(r) => (Last(r) => Last(r)')
    /\ BeingSent(r)' => BeingSent(r) /\ call'[ReplyTo[r]] = call[ReplyTo[r]]
    /\ \A s \in Subscribers : Awaits(r, s)' <=> Awaits(r, s)
    /\ \A s \in Subscribers : Once(subs[s].buffer, r) => Once(subs'[s].buffer, r)
    /\ \A s \in Subscribers : Lies(r, s)' => Lies(r, s)
    /\ dispatcher'.msg = r <=> dispatcher.msg = r
    /\ dispatcher.msg = r => dispatcher' = dispatcher /\ call'[Dispatcher] = call[Dispatcher]
    /\ speech'[r] = speech[r]
    /\ copies'[r] = copies[r]
    /\ way'[r] = way[r]
    /\ channelOf' = channelOf

Stays(r) == Unaffected(r) /\ \A s \in Subscribers : Lies(r, s) => Lies(r, s)'

Servers == "dispatcher" \in Subscribers /\ "voice" \in Subscribers

(* The dispatcher and the voice pipeline are the two subscribers.          *)
LEMMA BothServe == Servers
BY GatewayAssumption DEF Servers

(* Names are not taken twice, and a reply is to a message.                 *)
LEMMA NamesDiffer ==
    /\ None \notin Messages /\ None \notin Replies /\ Dispatcher \notin Messages
    /\ Servers
    /\ \A r \in Replies : ReplyTo[r] \in Messages /\ r \in Nat
    /\ Dispatcher \in Callers /\ Messages \subseteq Callers
BY GatewayAssumption, BothServe, BusAssumption DEF Callers

(* A message that rests with its worker, who calls nobody new, is as apart *)
(* as it was.                                                              *)
LEMMA RestingApart ==
    ASSUME NEW n \in Messages, Apart(n), Rests(n), worker'[n] = worker[n],
           call'[n].at # "idle" => call[n].at # "idle" /\ call'[n].msg = call[n].msg
    PROVE  Apart(n)'
<1>1. BeingHandled(n)' <=> BeingHandled(n)
  BY DEF Rests, BeingHandled
<1>2. BeingReceived(n)' <=> BeingReceived(n)
  BY DEF Rests, BeingReceived
<1> QED
  BY <1>1, <1>2 DEF Apart, Rests

(* What is unaffected stays as good as it was.                             *)
LEMMA UnaffectedGood ==
    ASSUME NEW r \in Replies, Good(r), Unaffected(r)
    PROVE  Good(r)'
<1>1. Servers
  BY BothServe
<1>2. UnderWay(r)' => UnderWay(r)
  BY DEF UnderWay, Buffered, Unaffected, Lies, Holds
<1>3. MadeInv(r)'
  BY <1>2 DEF Good, MadeInv, Unaffected
<1>4. InOneHand(r)'
  BY <1>1 DEF Good, InOneHand, Unaffected, Servers, ChannelFor
<1>5. CopiesInv(r)'
  <2>1. Server(r)' = Server(r) /\ Server(r) \in Subscribers
    BY <1>1 DEF Server, ChannelFor, Unaffected, Servers
  <2>2. Awaits(r, Server(r))' => Awaits(r, Server(r))
    BY <2>1 DEF Unaffected, Awaits
  <2>3. Lies(r, Server(r))' => Lies(r, Server(r))
    BY <2>1 DEF Unaffected, Lies
  <2>4. Untold(r)' => Untold(r)
    BY <2>2, <2>3 DEF Unaffected, Untold, BeingSent, ChannelFor
  <2>5. ToldOnceAtMost(r)' => ToldOnceAtMost(r)
    BY DEF Unaffected, ToldOnceAtMost, BeingSent
  <2> QED
    BY <2>4, <2>5 DEF CopiesInv, Unaffected, Good
<1> QED
  BY <1>3, <1>4, <1>5 DEF Good

(* Whether a reply that stays is under way does not change.                *)
LEMMA UnderWayStays ==
    ASSUME NEW r \in Replies, Stays(r)
    PROVE  UnderWay(r)' <=> UnderWay(r)
BY DEF UnderWay, Buffered, Stays, Unaffected, Lies, Holds

(* Stages are numbers.                                                     *)
LEMMA StageTyped == \A n : Stage(n) \in 0..5 /\ Stage(n)' \in 0..5
BY DEF Stage, Unread, Received, Queued, Handled, Answered, Settled

(* What a step does to a message's stage if the message rests, and its     *)
(* worker does not take it up or drop it.                                  *)
LEMMA StageOfResting ==
    ASSUME NEW n \in Messages, Rests(n), BeingHandled(n)' <=> BeingHandled(n),
           BeingHandled(n) \/ \A r \in Replies : ReplyTo[r] = n => (UnderWay(r)' => UnderWay(r))
    PROVE  /\ Stage(n)' \in {Stage(n), Settled}
           /\ (\A r \in Replies : ReplyTo[r] = n => (UnderWay(r) => UnderWay(r)'))
                => Stage(n)' = Stage(n)
<1>1. ~BeingHandled(n) => (BeingAnswered(n)' => BeingAnswered(n))
  BY DEF BeingAnswered
<1>2. ASSUME \A r \in Replies : ReplyTo[r] = n => (UnderWay(r) => UnderWay(r)')
      PROVE  BeingAnswered(n) => BeingAnswered(n)'
  BY <1>2 DEF BeingAnswered
<1>3. BeingReceived(n)' <=> BeingReceived(n)
  BY DEF Rests, BeingReceived
<1> QED
  BY <1>1, <1>2, <1>3 DEF Rests, Stage

(* What an offer adds to a buffer.                                         *)
LEMMA OfferHolds ==
    ASSUME NEW S, NEW q \in Seq(S), NEW k \in Nat, NEW m \in S
    PROVE  /\ Offer(q, k, m) \in Seq(S)
           /\ \A n : Holds(Offer(q, k, m), n) => Holds(q, n) \/ n = m
           /\ \A n : Holds(q, n) => Holds(Offer(q, k, m), n)
           /\ \A n : Once(q, n) /\ (n = m => ~Holds(q, m)) => Once(Offer(q, k, m), n)
<1>1. /\ Append(q, m) \in Seq(S) /\ Len(q) \in Nat
      /\ DOMAIN q = 1 .. Len(q) /\ DOMAIN Append(q, m) = 1 .. Len(q) + 1
      /\ \A i \in 1 .. Len(q) : Append(q, m)[i] = q[i]
      /\ Append(q, m)[Len(q) + 1] = m
  OBVIOUS
<1>2. \A i \in DOMAIN Append(q, m) : i \in DOMAIN q \/ i = Len(q) + 1
  BY <1>1
<1>3. \A n : Holds(Append(q, m), n) => Holds(q, n) \/ n = m
  BY <1>1, <1>2 DEF Holds
<1>4. \A n : Holds(q, n) => Holds(Append(q, m), n)
  BY <1>1 DEF Holds
<1>5. \A n : Once(q, n) /\ (n = m => ~Holds(q, m)) => Once(Append(q, m), n)
  BY <1>1, <1>2 DEF Holds, Once
<1> QED
  BY <1>1, <1>3, <1>4, <1>5 DEF Offer

(* What is left of a buffer when its head is taken.                        *)
LEMMA TailHolds ==
    ASSUME NEW S, NEW q \in Seq(S), q # <<>>
    PROVE  /\ Tail(q) \in Seq(S) /\ Head(q) \in S /\ Holds(q, Head(q))
           /\ \A n : Holds(Tail(q), n) => Holds(q, n)
           /\ \A n : Holds(q, n) /\ n # Head(q) => Holds(Tail(q), n)
           /\ \A n : Once(q, n) => Once(Tail(q), n)
           /\ Once(q, Head(q)) => ~Holds(Tail(q), Head(q))
<1>1. /\ Tail(q) \in Seq(S) /\ Head(q) = q[1] /\ Len(q) \in Nat \ {0}
      /\ DOMAIN q = 1 .. Len(q) /\ DOMAIN Tail(q) = 1 .. Len(q) - 1
      /\ \A i \in 1 .. Len(q) - 1 : Tail(q)[i] = q[i + 1]
  OBVIOUS
<1>2. \A i \in DOMAIN Tail(q) : i + 1 \in DOMAIN q /\ Tail(q)[i] = q[i + 1] /\ i # 0
  BY <1>1
<1>3. \A i \in DOMAIN q : i = 1 \/ (i - 1 \in DOMAIN Tail(q) /\ Tail(q)[i - 1] = q[i])
  BY <1>1
<1>4. 1 \in DOMAIN q /\ Holds(q, Head(q)) /\ Head(q) \in S
  BY <1>1 DEF Holds
<1>5. \A n : Holds(Tail(q), n) => Holds(q, n)
  BY <1>2 DEF Holds
<1>6. \A n : Holds(q, n) /\ n # Head(q) => Holds(Tail(q), n)
  BY <1>1, <1>3 DEF Holds
<1>7. \A n : Once(q, n) => Once(Tail(q), n)
  <2> SUFFICES ASSUME NEW n, Once(q, n),
                      NEW i \in DOMAIN Tail(q), NEW j \in DOMAIN Tail(q),
                      Tail(q)[i] = n, Tail(q)[j] = n
               PROVE  i = j
    BY DEF Once
  <2>1. i + 1 = j + 1
    BY <1>2 DEF Once
  <2> QED
    BY <2>1, <1>1
<1>8. ASSUME Once(q, Head(q)) PROVE ~Holds(Tail(q), Head(q))
  <2> SUFFICES ASSUME NEW i \in DOMAIN Tail(q), Tail(q)[i] = Head(q) PROVE FALSE
    BY DEF Holds
  <2>1. i + 1 = 1
    BY <1>1, <1>2, <1>4, <1>8 DEF Once
  <2> QED
    BY <2>1, <1>1
<1> QED
  BY <1>1, <1>4, <1>5, <1>6, <1>7, <1>8

-----------------------------------------------------------------------------
(* All is where it should be, and a step leaves it so.                     *)
Placed == PartsInv /\ (\A n \in Messages : Apart(n)) /\ (\A r \in Replies : Good(r))

Proceeds == Placed' /\ Step

(* What a message that is not answered yet leaves alone.                   *)
Sayings == <<subs, publishing, way, dispatcher, speech, call, copies, channelOf>>

(* One message moves, and nothing is said.                                 *)
Moves(m) ==
    /\ UNCHANGED Sayings
    /\ \A n \in Messages \ {m} : Rests(n) /\ worker'[n] = worker[n]
    /\ worker[m] \in {"notifying", "publishing"} => worker'[m] = worker[m]
    /\ Apart(m) => Apart(m)' /\ Stage(m)' >= Stage(m) /\ (Early(m)' => Early(m))

(* Then everything proceeds.                                               *)
LEMMA MovesProceeds ==
    ASSUME Placed, NEW m \in Messages, Moves(m), PartsInv', UNCHANGED <<main, panicked>>
    PROVE  Proceeds
<1>1. Apart(m) /\ Apart(m)' /\ Stage(m)' >= Stage(m) /\ (Early(m)' => Early(m))
  BY DEF Placed, Moves
<1>2. \A n \in Messages \ {m} : Rests(n) /\ worker'[n] = worker[n] /\ call' = call
  BY DEF Moves, Sayings
<1>3. ASSUME NEW n \in Messages PROVE Apart(n)'
  <2>1. CASE n = m
    BY <1>1, <2>1
  <2>2. CASE n # m
    <3>1. Apart(n) /\ Rests(n) /\ worker'[n] = worker[n] /\ call' = call
      BY <1>2, <2>2 DEF Placed
    <3> QED
      BY <3>1, RestingApart
  <2> QED
    BY <2>1, <2>2
<1>4. \A n \in Messages : Early(n)' => Early(n)
  BY <1>1, <1>2 DEF Early, Rests, BeingReceived
<1>5. ASSUME NEW r \in Replies PROVE Good(r) /\ Stays(r)
  <2>1. Good(r) /\ ReplyTo[r] \in Messages
    BY NamesDiffer DEF Placed
  <2>2. r \in DOMAIN publishing => worker'[ReplyTo[r]] = worker[ReplyTo[r]]
    BY <1>2, <2>1 DEF Good, MadeInv, Moves
  <2> QED
    BY <1>4, <2>1, <2>2
    DEF Moves, Sayings, Stays, Unaffected, Last, BeingSent, Awaits, Lies
<1>6. \A r \in Replies : Good(r)'
  BY <1>5, UnaffectedGood DEF Stays
<1>7. ASSUME NEW n \in Messages \ {m} PROVE Stage(n)' = Stage(n)
  <2>1. BeingHandled(n)' <=> BeingHandled(n)
    BY <1>2 DEF BeingHandled, Rests
  <2>2. \A r \in Replies : UnderWay(r)' <=> UnderWay(r)
    BY <1>5, UnderWayStays
  <2> QED
    BY <1>2, <2>1, <2>2, StageOfResting
<1>8. GetsOn(m)
  BY <1>1, <1>7 DEF GetsOn, Moves, Sayings
<1> QED
  BY <1>3, <1>6, <1>8 DEF Proceeds, Placed, Step
-----------------------------------------------------------------------------
(* A message comes to the bus.                                             *)

(* What goes onto the bus.                                                 *)
LEMMA EnqueueHolds ==
    ASSUME PartsInv, NEW m \in Messages, PublishInbound(m) \/ UNCHANGED busVars
    PROVE  /\ inbound' \in Seq(Messages) /\ UNCHANGED <<subs, publishing>>
           /\ \A n : Holds(inbound', n) => Holds(inbound, n) \/ n = m
           /\ \A n : Holds(inbound, n) => Holds(inbound', n)
           /\ \A n : Once(inbound, n) /\ (n = m => ~Holds(inbound, m)) => Once(inbound', n)
<1>1. inbound \in Seq(Messages) /\ InboundSize \in Nat
  BY BusAssumption DEF PartsInv
<1>2. CASE UNCHANGED busVars
  BY <1>1, <1>2 DEF busVars
<1>3. CASE PublishInbound(m)
  BY <1>1, <1>3, OfferHolds DEF PublishInbound
<1> QED
  BY <1>2, <1>3

(* Before it is on the bus nobody else has it.                             *)
LEMMA EntryAdvances ==
    ASSUME NEW m \in Messages, m \in unread \/ BeingReceived(m), Apart(m),
           UNCHANGED <<agent, worker, call>>,
           m \notin unread', update'.msg = m => recording'[m] = "none",
           BeingReceived(m)' => m \in unread /\ ~Holds(inbound', m), Once(inbound', m)
    PROVE  Apart(m)' /\ Stage(m)' >= Stage(m) /\ (Early(m)' => Early(m))
<1>1. ~BeingHandled(m) /\ ~BeingHandled(m)'
  BY DEF Apart, BeingHandled
<1>2. Apart(m)'
  BY <1>1 DEF Apart, BeingHandled
<1>3. Stage(m)' >= Stage(m)
  BY DEF Stage, Unread, Received, Queued, Handled, Answered, Settled
<1> QED
  BY <1>2, <1>3 DEF Early

(* The update loop takes what the service has.                             *)
LEMMA PollUpdatesMoves ==
    ASSUME Placed, NEW m \in Messages, PollUpdates(m),
           UNCHANGED <<Outside, whatsAppVars, voiceVars>>
    PROVE  Proceeds
<1>0. /\ UNCHANGED <<recording, inbound, agent, worker, Sayings, main, panicked>>
      /\ m \in unread /\ unread' = unread \ {m} /\ unread \subseteq Messages
      /\ update.at = "polling" /\ update' \in {update, UpdateLoop("indicating", m)}
  BY DEF PollUpdates, NextFrom, busVars, Outside, managerVars, agentVars, voiceVars, whatsAppVars,
     Placed, PartsInv, Sayings
<1>1. update.msg \notin Messages /\ update'.msg \in {update.msg, m}
  BY <1>0 DEF Placed, PartsInv, UpdateLoop
<1>2. \A n \in Messages \ {m} : Rests(n) /\ worker'[n] = worker[n]
  BY <1>0, <1>1 DEF Rests
<1>3. Apart(m)' /\ Stage(m)' >= Stage(m) /\ (Early(m)' => Early(m))
  <2>1. Apart(m) /\ recording[m] # "transcribing" /\ ~Holds(inbound, m) /\ Once(inbound, m)
    BY <1>0 DEF Placed, Apart, BeingReceived
  <2>2. recording[m] = "none"
    BY <2>1 DEF Placed, PartsInv
  <2> QED
    BY <1>0, <2>1, <2>2, EntryAdvances DEF BeingReceived, Sayings
<1>4. PartsInv'
  BY <1>0, <1>1 DEF Placed, PartsInv, UpdateLoop, Sayings
<1> QED
  BY <1>0, <1>2, <1>3, <1>4, MovesProceeds DEF Moves

(* It hands the message to the bus.                                        *)
LEMMA StartTypingMoves ==
    ASSUME Placed, StartTypingIndicator, UNCHANGED <<Outside, whatsAppVars, voiceVars>>
    PROVE  Proceeds
<1>9. PICK m \in Messages : m = update.msg
  BY DEF Placed, PartsInv, StartTypingIndicator
<1>0. /\ UNCHANGED <<unread, recording, agent, worker, way, dispatcher, speech, call, copies,
                     channelOf, main, panicked>>
      /\ update.at = "indicating" /\ update' = UpdateLoop("polling", None)
      /\ HandleMessage(m)
  BY <1>9 DEF StartTypingIndicator, Outside, managerVars, agentVars, voiceVars, baseVars,
              worldVars, whatsAppVars
<1>1. update'.msg \notin Messages
  BY <1>0, NamesDiffer DEF UpdateLoop
<1>2. /\ inbound' \in Seq(Messages) /\ UNCHANGED <<subs, publishing>>
      /\ \A n : Holds(inbound', n) => Holds(inbound, n) \/ n = m
      /\ \A n : Holds(inbound, n) => Holds(inbound', n)
      /\ \A n : Once(inbound, n) /\ (n = m => ~Holds(inbound, m)) => Once(inbound', n)
  BY <1>0, EnqueueHolds DEF HandleMessage, Placed
<1>3. \A n \in Messages \ {m} : Rests(n) /\ worker'[n] = worker[n]
  BY <1>9, <1>0, <1>1, <1>2 DEF Rests
<1>4. Apart(m)' /\ Stage(m)' >= Stage(m) /\ (Early(m)' => Early(m))
  <2>1. Apart(m) /\ BeingReceived(m)
    BY <1>9 DEF BeingReceived, Placed
  <2>2. m \notin unread /\ ~Holds(inbound, m) /\ recording[m] = "none" /\ Once(inbound, m)
    BY <1>9, <2>1 DEF Apart
  <2>3. update'.msg # m /\ ~BeingReceived(m)'
    BY <1>0, <1>1, <2>2 DEF BeingReceived
  <2>4. m \notin unread' /\ Once(inbound', m)
    BY <1>0, <1>2, <2>2
  <2> QED
    BY <1>0, <2>1, <2>3, <2>4, EntryAdvances
<1>5. PartsInv'
  BY <1>0, <1>1, <1>2 DEF Placed, PartsInv, UpdateLoop
<1> QED
  BY <1>0, <1>2, <1>3, <1>4, <1>5, MovesProceeds DEF Moves, Sayings

(* The bridge's messages come to the bus at once.                          *)
LEMMA ReadMessageMoves ==
    ASSUME Placed, NEW m \in Messages, ReadMessage(m),
           UNCHANGED <<Outside, telegramVars, voiceVars>>
    PROVE  Proceeds
<1>0. /\ UNCHANGED <<update, recording, agent, worker, way, dispatcher, speech, call, copies,
                     channelOf, main, panicked>>
      /\ m \in unread /\ unread' = unread \ {m}
      /\ HandleMessage(m)
  BY DEF ReadMessage, NextFrom, Outside, managerVars, agentVars, voiceVars, telegramVars,
         whatsAppVars
<1>2. /\ inbound' \in Seq(Messages) /\ UNCHANGED <<subs, publishing>>
      /\ \A n : Holds(inbound', n) => Holds(inbound, n) \/ n = m
      /\ \A n : Holds(inbound, n) => Holds(inbound', n)
      /\ \A n : Once(inbound, n) /\ (n = m => ~Holds(inbound, m)) => Once(inbound', n)
  BY <1>0, EnqueueHolds DEF HandleMessage, Placed
<1>3. \A n \in Messages \ {m} : Rests(n) /\ worker'[n] = worker[n]
  BY <1>0, <1>2 DEF Rests
<1>4. Apart(m)' /\ Stage(m)' >= Stage(m) /\ (Early(m)' => Early(m))
  <2>1. Apart(m) /\ ~BeingReceived(m) /\ ~Holds(inbound, m) /\ Once(inbound, m)
    BY <1>0 DEF Placed, Apart
  <2>2. update'.msg # m /\ ~BeingReceived(m)'
    BY <1>0, <2>1 DEF BeingReceived
  <2>3. m \notin unread' /\ Once(inbound', m)
    BY <1>0, <1>2, <2>1
  <2> QED
    BY <1>0, <2>1, <2>2, <2>3, EntryAdvances
<1>5. PartsInv'
  BY <1>0, <1>2 DEF Placed, PartsInv
<1> QED
  BY <1>0, <1>2, <1>3, <1>4, <1>5, MovesProceeds DEF Moves, Sayings

(* A recording is begun,                                                   *)
LEMMA RecordMoves ==
    ASSUME Placed, NEW m \in Messages, Record(m),
           UNCHANGED <<Outside, telegramVars, whatsAppVars>>
    PROVE  Proceeds
<1>0. /\ UNCHANGED <<update, inbound, agent, worker, Sayings, main, panicked>>
      /\ m \in unread /\ unread' = unread \ {m}
      /\ recording' = [recording EXCEPT ![m] = "transcribing"]
  BY DEF Record, NextFrom, Outside, managerVars, agentVars, telegramVars, busVars, Sayings,
         whatsAppVars
<1>1. /\ recording' \in [Messages -> {"none", "transcribing"}]
      /\ \A n \in Messages \ {m} : recording'[n] = recording[n]
  BY <1>0 DEF Placed, PartsInv
<1>2. \A n \in Messages \ {m} : Rests(n) /\ worker'[n] = worker[n]
  BY <1>0, <1>1 DEF Rests
<1>3. Apart(m)' /\ Stage(m)' >= Stage(m) /\ (Early(m)' => Early(m))
  <2>1. Apart(m) /\ update.msg # m /\ ~Holds(inbound, m) /\ Once(inbound, m)
    BY <1>0 DEF Placed, Apart, BeingReceived
  <2> QED
    BY <1>0, <2>1, EntryAdvances DEF BeingReceived, Sayings
<1>4. PartsInv'
  BY <1>0, <1>1 DEF Placed, PartsInv, Sayings
<1> QED
  BY <1>0, <1>2, <1>3, <1>4, MovesProceeds DEF Moves

(* and leads to a message or to none.                                      *)
LEMMA RecordingMoves ==
    ASSUME Placed, NEW m \in Messages, NothingToSend(m) \/ ProcessRecording(m),
           UNCHANGED <<Outside, telegramVars, whatsAppVars>>
    PROVE  Proceeds
<1>0. /\ UNCHANGED <<unread, update, agent, worker, way, dispatcher, speech, call, copies,
                     channelOf, main, panicked>>
      /\ recording[m] = "transcribing" /\ recording' = [recording EXCEPT ![m] = "none"]
      /\ PublishInbound(m) \/ UNCHANGED busVars
  BY DEF NothingToSend, ProcessRecording, Outside, managerVars, agentVars, telegramVars,
     baseVars, worldVars, whatsAppVars
<1>1. /\ recording' \in [Messages -> {"none", "transcribing"}] /\ recording'[m] = "none"
      /\ \A n \in Messages \ {m} : recording'[n] = recording[n]
  BY <1>0 DEF Placed, PartsInv
<1>2. /\ inbound' \in Seq(Messages) /\ UNCHANGED <<subs, publishing>>
      /\ \A n : Holds(inbound', n) => Holds(inbound, n) \/ n = m
      /\ \A n : Holds(inbound, n) => Holds(inbound', n)
      /\ \A n : Once(inbound, n) /\ (n = m => ~Holds(inbound, m)) => Once(inbound', n)
  BY <1>0, EnqueueHolds DEF Placed
<1>3. \A n \in Messages \ {m} : Rests(n) /\ worker'[n] = worker[n]
  BY <1>0, <1>1, <1>2 DEF Rests
<1>4. Apart(m)' /\ Stage(m)' >= Stage(m) /\ (Early(m)' => Early(m))
  <2>1. Apart(m) /\ BeingReceived(m)
    BY <1>0 DEF BeingReceived, Placed
  <2>2. m \notin unread /\ ~Holds(inbound, m) /\ update.msg # m /\ Once(inbound, m)
    BY <1>0, <2>1 DEF Apart
  <2>3. update'.msg # m /\ ~BeingReceived(m)'
    BY <1>0, <1>1, <2>2 DEF BeingReceived
  <2>4. m \notin unread' /\ Once(inbound', m)
    BY <1>0, <1>2, <2>2
  <2> QED
    BY <1>0, <2>1, <2>3, <2>4, EntryAdvances
<1>5. PartsInv'
  BY <1>0, <1>1, <1>2 DEF Placed, PartsInv
<1> QED
  BY <1>0, <1>2, <1>3, <1>4, <1>5, MovesProceeds DEF Moves, Sayings
-----------------------------------------------------------------------------
(* Run and the workers.                                                    *)

(* Run takes a message from the bus,                                       *)
LEMMA RunConsumesMoves ==
    ASSUME Placed, RunConsumes
    PROVE  Proceeds
<1>1. /\ UNCHANGED <<unread, update, recording, worker, Sayings, main, panicked>>
      /\ agent.at = "select" /\ agent' = With("acquire", Head(inbound))
      /\ inbound # <<>> /\ inbound' = Tail(inbound) /\ inbound \in Seq(Messages)
  BY DEF RunConsumes, ConsumeInbound, channelVars, telegramVars, voiceVars, managerVars,
     baseVars, worldVars, whatsAppVars, Sayings, Placed, PartsInv
<1>2. PICK m \in Messages : m = Head(inbound)
  BY <1>1, TailHolds
<1>3. /\ inbound' \in Seq(Messages) /\ Holds(inbound, m)
      /\ \A n : Holds(inbound', n) => Holds(inbound, n)
      /\ \A n : Holds(inbound, n) /\ n # m => Holds(inbound', n)
      /\ \A n : Once(inbound, n) => Once(inbound', n)
      /\ Once(inbound, m) => ~Holds(inbound', m)
  BY <1>1, <1>2, TailHolds
<1>4. agent.msg \notin Messages /\ agent'.msg = m /\ agent'.at = "acquire"
  BY <1>1, <1>2 DEF Placed, PartsInv, With
<1>5. \A n \in Messages \ {m} : Rests(n) /\ worker'[n] = worker[n]
  BY <1>1, <1>3, <1>4 DEF Rests
<1>6. Apart(m)' /\ Stage(m)' >= Stage(m) /\ (Early(m)' => Early(m))
  <2>1. /\ Apart(m) /\ Once(inbound, m) /\ worker[m] = "none" /\ m \notin unread
        /\ ~BeingReceived(m) /\ call[m].at = "idle"
    BY <1>3 DEF Placed, Apart, BeingHandled
  <2>2. /\ ~Holds(inbound', m) /\ Once(inbound', m) /\ m \notin unread' /\ worker'[m] = "none"
        /\ ~BeingReceived(m)' /\ call'[m].at = "idle"
    BY <1>1, <1>3, <2>1 DEF BeingReceived, Sayings
  <2>3. Apart(m)'
    BY <1>1, <2>1, <2>2 DEF Apart
  <2>4. Stage(m) = Queued
    BY <1>3, <2>1 DEF Stage
  <2>5. Stage(m)' >= Queued
    BY <2>2 DEF Stage, Queued, Handled, Answered, Settled
  <2> QED
    BY <1>3, <2>3, <2>4, <2>5 DEF Early
<1>7. PartsInv'
  BY <1>1, <1>3, <1>4 DEF Placed, PartsInv, Sayings
<1> QED
  BY <1>1, <1>5, <1>6, <1>7, MovesProceeds DEF Moves

(* A worker takes its message up, or drops it, or goes on with it.         *)
LEMMA WorkerMoves ==
    ASSUME Placed, NEW m \in Messages, BeingHandled(m),
           UNCHANGED <<unread, update, recording, inbound, Sayings, main, panicked>>,
           NEW w \in {"none", "working"}, worker' = [worker EXCEPT ![m] = w],
           worker[m] \notin {"notifying", "publishing"}, call[m].at = "idle",
           \/ agent' = agent /\ agent.msg # m
           \/ agent.msg = m /\ agent'.at # "acquire" /\ agent'.msg = None
    PROVE  Proceeds
<1>1. /\ worker' \in [Messages -> WorkerStates]
      /\ worker'[m] = w /\ \A n \in Messages \ {m} : worker'[n] = worker[n]
  BY DEF Placed, PartsInv, WorkerStates
<1>2. /\ \A n \in Messages \ {m} : agent'.msg = n <=> agent.msg = n
      /\ agent'.msg # m /\ (agent'.at = "acquire") = (agent'.msg \in Messages)
  BY NamesDiffer DEF Placed, PartsInv
<1>3. \A n \in Messages \ {m} : Rests(n) /\ worker'[n] = worker[n]
  BY <1>1, <1>2 DEF Rests
<1>4. /\ Apart(m) /\ m \notin unread /\ ~BeingReceived(m) /\ ~Holds(inbound, m)
      /\ ~BeingReceived(m)'
  BY DEF Placed, Apart, BeingReceived
<1>5. call'[m].at = "idle" /\ m \notin unread'
  BY <1>4 DEF Sayings
<1>6. Apart(m)'
  BY <1>2, <1>4, <1>5 DEF Apart
<1>7. Stage(m) = Handled /\ Stage(m)' >= Handled
  BY <1>4, <1>5 DEF Stage, Handled, Answered, Settled
<1>8. PartsInv'
  BY <1>1, <1>2 DEF Placed, PartsInv, Sayings
<1>9. Early(m)' => Early(m)
  BY <1>2 DEF Early, BeingReceived
<1> QED
  BY <1>3, <1>6, <1>7, <1>8, <1>9, MovesProceeds DEF Moves

(* Run gives the message to a worker.                                      *)
LEMMA AcquireWorkerMoves ==
    ASSUME Placed, AcquireWorker
    PROVE  Proceeds
<1>1. PICK m \in Messages : m = agent.msg
  BY DEF AcquireWorker, Placed, PartsInv
<1>2. /\ UNCHANGED <<unread, update, recording, inbound, Sayings, main, panicked>>
      /\ agent'.at # "acquire" /\ agent'.msg = None
      /\ worker' = [worker EXCEPT ![m] = "working"]
  BY <1>1 DEF AcquireWorker, NextRound, At, channelVars, telegramVars, voiceVars, managerVars,
              whatsAppVars, busVars, baseVars, worldVars, Sayings
<1>3. worker[m] = "none" /\ call[m].at = "idle" /\ BeingHandled(m)
  BY <1>1 DEF BeingHandled, Placed, Apart
<1> QED
  BY <1>1, <1>2, <1>3, WorkerMoves

(* The message tool returns, or the turn ends without an answer.           *)
LEMMA TurnMoves ==
    ASSUME Placed, NEW m \in Messages, MessageToolReturns(m) \/ NoAnswer(m)
    PROVE  Proceeds
<1>1. UNCHANGED <<unread, update, recording, inbound, agent, Sayings, main, panicked>>
  BY DEF MessageToolReturns, NoAnswer, channelVars, telegramVars, voiceVars, whatsAppVars,
         managerVars, busVars, baseVars, worldVars, Sayings
<1>2. worker[m] \in {"sending", "working"} /\ BeingHandled(m) /\ agent.msg # m
  BY DEF MessageToolReturns, NoAnswer, BeingHandled, Placed, Apart
<1>3. call[m].at = "idle"
  BY DEF MessageToolReturns, NoAnswer, Returned, Idle, Placed, Apart
<1>4. PICK w \in {"none", "working"} : worker' = [worker EXCEPT ![m] = w]
  BY DEF MessageToolReturns, NoAnswer, AfterMessageTool, TurnEnds
<1> QED
  BY <1>1, <1>2, <1>3, <1>4, WorkerMoves
-----------------------------------------------------------------------------
(* What a worker says.                                                     *)

(* What every step leaves alone that moves a reply only.                   *)
Elsewhere == <<unread, update, recording, inbound, agent, channelOf, main, panicked>>

(* A turn that makes a reply has made none of those that follow it, and no *)
(* other is being sent or published.                                       *)
LEMMA BeforeMaking ==
    ASSUME Placed, NEW m \in Messages, NEW r \in Replies, NEW how, Reply(m, r, how)
    PROVE  /\ ReplyTo[r] = m /\ worker[m] = "working" /\ way[r] = "none"
           /\ call[m].at = "idle" /\ ~Early(m) /\ Stage(m) = Handled
           /\ \A q \in Replies : ReplyTo[q] = m => q \notin DOMAIN publishing /\ ~BeingSent(q)
           /\ \A q \in Replies : ReplyTo[q] = m /\ q > r => way[q] = "none"
           /\ ~UnderWay(r) /\ copies[r] = 0
<1>1. ReplyTo[r] = m /\ worker[m] = "working" /\ r \in Nat /\ Replies \subseteq Nat
  BY BusAssumption DEF Reply
<1>2. \A q \in Replies : ReplyTo[q] = m => ((way[q] = "none") = (q >= r))
  BY DEF Reply
<1>3. way[r] = "none" /\ \A q \in Replies : ReplyTo[q] = m /\ q > r => way[q] = "none"
  <2>1. r >= r
    BY <1>1
  <2>2. \A q \in Replies : q > r => q >= r
    BY <1>1
  <2> QED
    BY <1>1, <1>2, <2>1, <2>2
<1>4. Apart(m) /\ BeingHandled(m)
  BY <1>1 DEF Placed, BeingHandled
<1>5. call[m].at = "idle" /\ ~Early(m)
  BY <1>1, <1>4 DEF Apart, Early
<1>6. Stage(m) = Handled
  BY <1>4, <1>5 DEF Early, Stage
<1>7. ASSUME NEW q \in Replies, ReplyTo[q] = m
      PROVE  q \notin DOMAIN publishing /\ ~BeingSent(q)
  BY <1>1, <1>5, <1>7 DEF Placed, Good, MadeInv, BeingSent
<1>8. ~UnderWay(r) /\ copies[r] = 0
  BY <1>3 DEF Placed, Good, MadeInv, CopiesInv, Untold
<1> QED
  BY <1>1, <1>3, <1>5, <1>6, <1>7, <1>8

(* A reply is made, to be sent by the message tool or to be published.     *)
LEMMA MakingProceeds ==
    ASSUME Placed, NEW m \in Messages, NEW r \in Replies, NEW how, Reply(m, r, how),
           UNCHANGED <<Elsewhere, subs, dispatcher, speech, copies>>,
           NEW w, worker' = [worker EXCEPT ![m] = w],
           \/ /\ how = "sent" /\ w = "sending" /\ publishing' = publishing
              /\ call' = [call EXCEPT ![m] = Sending("send", r)]
           \/ /\ how = "published" /\ w \in {"notifying", "publishing"} /\ call' = call
              /\ publishing' = [q \in DOMAIN publishing \cup {r} |->
                                   IF q = r THEN Listed ELSE publishing[q]]
    PROVE  Proceeds
<1>1. /\ ReplyTo[r] = m /\ worker[m] = "working" /\ way[r] = "none"
      /\ call[m].at = "idle" /\ ~Early(m) /\ Stage(m) = Handled
      /\ \A q \in Replies : ReplyTo[q] = m => q \notin DOMAIN publishing /\ ~BeingSent(q)
      /\ \A q \in Replies : ReplyTo[q] = m /\ q > r => way[q] = "none"
      /\ ~UnderWay(r) /\ copies[r] = 0
  BY BeforeMaking
<1>2. /\ worker' \in [Messages -> WorkerStates] /\ worker'[m] = w
      /\ \A n \in Messages \ {m} : worker'[n] = worker[n]
      /\ w \in {"sending", "notifying", "publishing"}
  BY DEF Placed, PartsInv, WorkerStates
<1>3. /\ way' \in [Replies -> {"none", "sent", "published"}] /\ way'[r] = how
      /\ \A q \in Replies \ {r} : way'[q] = way[q]
      /\ way' = [way EXCEPT ![r] = how]
  BY DEF Reply, Placed, PartsInv
<1>4. /\ call' \in [Callers -> Calls] /\ \A c \in Callers \ {m} : call'[c] = call[c]
      /\ IF how = "sent" THEN call'[m] = Sending("send", r) ELSE call'[m] = call[m]
  <2>1. call \in [Callers -> Calls] /\ m \in Callers /\ Sending("send", r) \in Calls
    BY NamesDiffer DEF Placed, PartsInv, Sending, Calls
  <2> QED
    BY <2>1
<1>5. /\ \A q : q # r => (q \in DOMAIN publishing' <=> q \in DOMAIN publishing)
      /\ \A q \in DOMAIN publishing' : q # r => publishing'[q] = publishing[q]
      /\ DOMAIN publishing' \subseteq Replies
      /\ IF how = "sent" THEN r \notin DOMAIN publishing' ELSE r \in DOMAIN publishing'
  BY <1>1 DEF Placed, PartsInv
<1>6. \A n \in Messages \ {m} : n \in Callers \ {m} /\ Dispatcher \in Callers \ {m}
  BY NamesDiffer
<1>7. PartsInv'
  <2>1. Dispatcher \in Callers \ {m}
    BY NamesDiffer
  <2> QED
    BY <1>2, <1>3, <1>4, <1>5, <2>1 DEF Placed, PartsInv, Elsewhere
<1>8. \A n \in Messages : Rests(n)
  BY DEF Rests, Elsewhere
<1>9. ASSUME NEW n \in Messages PROVE Apart(n)'
  <2>1. CASE n = m
    <3>1. Apart(m) /\ ~BeingReceived(m) /\ m \notin unread /\ ~Holds(inbound, m) /\ agent.msg # m
      BY <1>1 DEF Placed, Early
    <3>2. ~BeingReceived(m)' /\ m \notin unread' /\ ~Holds(inbound', m) /\ agent'.msg # m
          /\ update'.msg # m
      BY <3>1 DEF Elsewhere, BeingReceived
    <3>3. Once(inbound', m)
      BY <3>1 DEF Apart, Elsewhere
    <3>4. call'[m].at # "idle" => worker'[m] = "sending" /\ ReplyTo[call'[m].msg] = m
      BY <1>1, <1>2, <1>4 DEF Sending
    <3> QED
      BY <2>1, <3>2, <3>3, <3>4 DEF Apart
  <2>2. CASE n # m
    BY <1>2, <1>4, <1>6, <1>8, <2>2, RestingApart DEF Placed
  <2> QED
    BY <2>1, <2>2
<1>10. ASSUME NEW q \in Replies \ {r} PROVE Stays(q)
  <2>1. ReplyTo[q] \in Messages /\ Dispatcher \in Callers \ {m} /\ ReplyTo[q] \in Callers
    BY NamesDiffer
  <2>2. ReplyTo[q] = m => q \notin DOMAIN publishing /\ ~BeingSent(q) /\ ~BeingSent(q)'
    BY <1>1, <1>4, NamesDiffer DEF BeingSent, Sending
  <2>3. ReplyTo[q] # m => /\ worker'[ReplyTo[q]] = worker[ReplyTo[q]]
                          /\ call'[ReplyTo[q]] = call[ReplyTo[q]]
                          /\ Last(q) => Last(q)'
    BY <1>1, <1>2, <1>3, <1>4, <2>1 DEF Last
  <2>4. BeingSent(q)' => BeingSent(q) /\ call'[ReplyTo[q]] = call[ReplyTo[q]]
    BY <2>2, <2>3 DEF BeingSent
  <2>5. \A s \in Subscribers : (Awaits(q, s)' <=> Awaits(q, s)) /\ (Lies(q, s)' <=> Lies(q, s))
    BY <1>5 DEF Awaits, Lies
  <2>6. Early(ReplyTo[q])' => Early(ReplyTo[q])
    BY DEF Early, BeingReceived, Elsewhere
  <2>7. call'[Dispatcher] = call[Dispatcher] /\ way'[q] = way[q]
    BY <1>3, <1>4, <2>1
  <2> QED
    BY <1>5, <2>2, <2>3, <2>4, <2>5, <2>6, <2>7 DEF Stays, Unaffected, Elsewhere
<1>11. Good(r)'
  <2>1. ~UnderWay(r)' /\ (UnderWay(r)' <=> UnderWay(r)) /\ ~Early(m)'
    BY <1>1 DEF UnderWay, Buffered, Early, BeingReceived, Elsewhere
  <2>2. Last(r)'
    BY <1>1, <1>3, NamesDiffer DEF Last
  <2>3. MadeInv(r)'
    BY <1>1, <1>2, <1>3, <1>4, <1>5, <2>1, <2>2 DEF MadeInv, BeingSent
  <2>4. /\ \A s \in Subscribers : ~Lies(r, s) /\ ~Lies(r, s)'
        /\ dispatcher'.msg # r /\ speech'[r] = "none"
    BY <1>1 DEF UnderWay, Buffered, Lies, Holds
  <2>5. InOneHand(r)'
    BY <2>4 DEF Placed, Good, InOneHand
  <2>6. CopiesInv(r)'
    <3>1. copies'[r] = 0
      BY <1>1
    <3> QED
      BY <3>1 DEF CopiesInv
  <2> QED
    BY <2>3, <2>5, <2>6 DEF Good
<1>12. \A q \in Replies : Good(q)'
  BY <1>10, <1>11, UnaffectedGood DEF Placed, Stays
<1>13. \A q \in Replies : UnderWay(q)' <=> UnderWay(q)
  <2>1. UnderWay(r)' <=> UnderWay(r)
    BY DEF UnderWay, Buffered
  <2> QED
    BY <1>10, <2>1, UnderWayStays
<1>14. \A n \in Messages : BeingHandled(n)' <=> BeingHandled(n)
  BY <1>1, <1>2 DEF BeingHandled, Elsewhere
<1>15. \A n \in Messages : Stage(n)' = Stage(n)
  BY <1>8, <1>13, <1>14, StageOfResting
<1>16. IsMade(r)
  <2>1. /\ \A q \in Replies : ReplyTo[q] = ReplyTo[r] => ((way[q] = "none") = (q >= r))
        /\ \E h \in {"sent", "published"} : way' = [way EXCEPT ![r] = h]
    BY <1>1 DEF Reply
  <2>2. UNCHANGED copies
    BY <1>1
  <2>3. Stage(ReplyTo[r]) = Handled
    BY <1>1, <1>3 DEF Reply
  <2> QED
    BY <2>1, <2>2, <2>3, <1>15 DEF IsMade
<1> QED
  BY <1>7, <1>9, <1>12, <1>16 DEF Proceeds, Placed, Step, Elsewhere

(* The message tool is called,                                             *)
LEMMA CallMessageToolMoves ==
    ASSUME Placed, NEW m \in Messages, CallMessageTool(m)
    PROVE  Proceeds
<1>1. PICK r \in Replies : Reply(m, r, "sent") /\ EnterSend(m, r)
  BY DEF CallMessageTool
<1>2. UNCHANGED <<Elsewhere, subs, dispatcher, speech, copies, publishing>>
  BY DEF CallMessageTool, channelVars, telegramVars, voiceVars, whatsAppVars, managerVars,
         busVars, worldVars, Elsewhere
<1> QED
  BY <1>1, <1>2, MakingProceeds DEF CallMessageTool, EnterSend

(* or something is published.                                              *)
LEMMA PublishMoves ==
    ASSUME Placed, NEW m \in Messages, Notify(m) \/ PublishAnswer(m)
    PROVE  Proceeds
<1>1. PICK r \in Replies : Reply(m, r, "published") /\ BeginPublish(r)
  BY DEF Notify, PublishAnswer
<1>2. UNCHANGED <<Elsewhere, subs, dispatcher, speech, copies, call>>
  BY <1>1 DEF Notify, PublishAnswer, BeginPublish, channelVars, telegramVars, voiceVars,
              whatsAppVars, managerVars, baseVars, worldVars, Elsewhere
<1>3. PICK w \in {"notifying", "publishing"} : worker' = [worker EXCEPT ![m] = w]
  BY DEF Notify, PublishAnswer
<1> QED
  BY <1>1, <1>2, <1>3, MakingProceeds DEF BeginPublish
-----------------------------------------------------------------------------
(* A reply on its way.                                                     *)

(* The turn of its message waits, or goes on, or is over.                  *)
Background == <<Elsewhere, worker, way>>

(* One reply moves on, and is shown or not.                                *)
Tells(r) ==
    /\ UNCHANGED Background
    /\ \A n \in Messages :
          call'[n].at # "idle" => call[n].at # "idle" /\ call'[n].msg = call[n].msg
    /\ \A q \in Replies \ {r} : Stays(q)
    /\ UnderWay(r)' => UnderWay(r) \/ r \in DOMAIN publishing
    /\ \/ copies' = copies
       \/ /\ copies' = [copies EXCEPT ![r] = @ + 1] /\ copies[r] < 2
          /\ UnderWay(r) \/ BeingSent(r)
    /\ Good(r)'

(* A reply under way is a published one, of a message that is handled or   *)
(* waits for nothing else.                                                 *)
LEMMA WhereReplyIs ==
    ASSUME Placed, NEW r \in Replies
    PROVE  /\ UnderWay(r) => way[r] = "published" /\ Stage(ReplyTo[r]) \in {Handled, Answered}
           /\ BeingSent(r) => way[r] = "sent" /\ Stage(ReplyTo[r]) = Handled /\ Last(r)
           /\ r \in DOMAIN publishing => way[r] = "published" /\ BeingHandled(ReplyTo[r])
<1>1. ReplyTo[r] \in Messages /\ MadeInv(r) /\ Apart(ReplyTo[r])
  BY NamesDiffer DEF Placed, Good
<1>2. CASE UnderWay(r)
  <2>1. way[r] = "published" /\ ~Early(ReplyTo[r]) /\ BeingAnswered(ReplyTo[r])
    BY <1>1, <1>2 DEF MadeInv, BeingAnswered
  <2>2. Stage(ReplyTo[r]) \in {Handled, Answered} /\ ~BeingSent(r)
    BY <1>1, <2>1 DEF MadeInv, Early, Stage
  <2> QED
    BY <1>1, <2>1, <2>2 DEF MadeInv, BeingHandled
<1>3. CASE BeingSent(r)
  <2>1. /\ way[r] = "sent" /\ Last(r) /\ ~Early(ReplyTo[r]) /\ BeingHandled(ReplyTo[r])
        /\ ~UnderWay(r) /\ r \notin DOMAIN publishing
    BY <1>1, <1>3 DEF MadeInv, Apart, BeingSent, BeingHandled
  <2> QED
    BY <2>1 DEF Early, Stage
<1>4. r \in DOMAIN publishing => way[r] = "published" /\ BeingHandled(ReplyTo[r])
  BY <1>1 DEF MadeInv, BeingHandled
<1> QED
  BY <1>2, <1>3, <1>4

(* Then everything proceeds.                                               *)
LEMMA TellsProceeds ==
    ASSUME Placed, NEW r \in Replies, Tells(r), PartsInv'
    PROVE  Proceeds
<1>0. ReplyTo[r] \in Messages /\ UNCHANGED <<Elsewhere, worker, way>>
  BY NamesDiffer DEF Tells, Background
<1>1. \A n \in Messages : Rests(n) /\ (BeingHandled(n)' <=> BeingHandled(n))
  BY <1>0 DEF Rests, Elsewhere, BeingHandled
<1>2. \A n \in Messages : Apart(n)'
  BY <1>0, <1>1, RestingApart DEF Tells, Placed
<1>3. \A q \in Replies : Good(q)'
  BY UnaffectedGood DEF Tells, Placed, Stays
<1>4. \A q \in Replies \ {r} : UnderWay(q)' <=> UnderWay(q)
  BY UnderWayStays DEF Tells
<1>5. ASSUME NEW n \in Messages
      PROVE  Stage(n)' \in {Stage(n), Settled} /\ (n # ReplyTo[r] => Stage(n)' = Stage(n))
  <2>1. BeingHandled(n) \/ \A q \in Replies : ReplyTo[q] = n => (UnderWay(q)' => UnderWay(q))
    BY <1>4, WhereReplyIs DEF Tells
  <2>2. n # ReplyTo[r] => \A q \in Replies : ReplyTo[q] = n => (UnderWay(q) => UnderWay(q)')
    BY <1>4
  <2> QED
    BY <1>1, <2>1, <2>2, StageOfResting
<1>6. Step
  <2>1. CASE copies' = copies
    <3>1. Recedes
      BY <1>0, <1>1, <1>5, <2>1 DEF Recedes, Rests
    <3> QED
      BY <3>1 DEF Step
  <2>2. CASE /\ copies' = [copies EXCEPT ![r] = @ + 1] /\ copies[r] < 2
             /\ UnderWay(r) \/ BeingSent(r)
    <3>1. \/ way[r] = "sent" /\ Stage(ReplyTo[r]) = Handled /\ Last(r)
          \/ way[r] = "published" /\ Stage(ReplyTo[r]) \in {Handled, Answered}
      BY <2>2, WhereReplyIs
    <3>2. IsShown(r)
      BY <1>0, <1>5, <2>2, <3>1 DEF IsShown
    <3> QED
      BY <1>0, <3>2 DEF Step, Elsewhere
  <2> QED
    BY <2>1, <2>2 DEF Tells
<1> QED
  BY <1>2, <1>3, <1>6 DEF Proceeds, Placed

(* What is not told stays.                                                 *)
LEMMA OthersStay ==
    ASSUME NEW q \in Replies, UNCHANGED Background, call'[ReplyTo[q]] = call[ReplyTo[q]],
           q \in DOMAIN publishing' <=> q \in DOMAIN publishing,
           \A s \in Subscribers : (Awaits(q, s)' <=> Awaits(q, s)) /\ (Lies(q, s)' <=> Lies(q, s)),
           \A s \in Subscribers : Once(subs[s].buffer, q) => Once(subs'[s].buffer, q),
           dispatcher'.msg = q <=> dispatcher.msg = q,
           dispatcher.msg = q => dispatcher' = dispatcher /\ call'[Dispatcher] = call[Dispatcher],
           speech'[q] = speech[q], copies'[q] = copies[q]
    PROVE  Stays(q)
<1>1. Early(ReplyTo[q])' <=> Early(ReplyTo[q])
  BY DEF Background, Elsewhere, Early, BeingReceived
<1> QED
  BY <1>1 DEF Stays, Unaffected, Last, BeingSent, Background, Elsewhere

(* It is still what it was made to be.                                     *)
LEMMA MadeStays ==
    ASSUME NEW r \in Replies, MadeInv(r), UNCHANGED Background,
           UnderWay(r)' => way[r] = "published",
           r \in DOMAIN publishing' <=> r \in DOMAIN publishing,
           BeingSent(r)' => BeingSent(r)
    PROVE  MadeInv(r)'
<1>1. Early(ReplyTo[r])' <=> Early(ReplyTo[r])
  BY DEF Background, Elsewhere, Early, BeingReceived
<1>2. Last(r)' <=> Last(r)
  BY DEF Last, Background
<1> QED
  BY <1>1, <1>2 DEF MadeInv, Background

(* A subscriber's buffer changes and the others do not.                    *)
LEMMA BufferChanges ==
    ASSUME PartsInv, NEW s \in Subscribers, NEW b \in Seq(Replies),
           subs' = [subs EXCEPT ![s].buffer = b]
    PROVE  /\ subs' \in [Subscribers -> Subscription]
           /\ subs'[s].buffer = b /\ \A t \in Subscribers \ {s} : subs'[t] = subs[t]
<1>1. subs \in [Subscribers -> Subscription]
  BY DEF PartsInv
<1> DEFINE u == [subs[s] EXCEPT !.buffer = b]
<1>2. u \in Subscription /\ u.buffer = b
  BY <1>1 DEF Subscription
<1>3. subs' = [subs EXCEPT ![s] = u]
  OBVIOUS
<1> HIDE DEF u
<1> QED
  BY <1>1, <1>2, <1>3

(* What is offered to a subscriber.                                        *)
LEMMA OfferOut ==
    ASSUME NEW q \in Seq(Replies), NEW r \in Replies
    PROVE  /\ Offer(q, OutboundSize, r) \in Seq(Replies)
           /\ \A n : Holds(Offer(q, OutboundSize, r), n) => Holds(q, n) \/ n = r
           /\ \A n : Holds(q, n) => Holds(Offer(q, OutboundSize, r), n)
           /\ \A n : Once(q, n) /\ (n = r => ~Holds(q, r)) => Once(Offer(q, OutboundSize, r), n)
<1>1. OutboundSize \in Nat
  BY BusAssumption
<1> QED
  BY <1>1, OfferHolds

(* A reply is sent to a subscriber,                                        *)
LEMMA PublishGoesOnMoves ==
    ASSUME Placed, NEW r \in Replies, PublishGoesOn(r)
    PROVE  Proceeds
<1>1. PICK s \in Subscribers : SendTo(r, s)
  BY DEF PublishGoesOn
<1> DEFINE b == Offer(subs[s].buffer, OutboundSize, r)
<1>2. /\ UNCHANGED <<Background, dispatcher, speech, copies, call>>
      /\ r \in DOMAIN publishing /\ s \in publishing[r]
      /\ subs' = [subs EXCEPT ![s].buffer = b]
      /\ publishing' = [publishing EXCEPT ![r] = @ \ {s}]
  BY <1>1 DEF PublishGoesOn, SendTo, channelVars, telegramVars, voiceVars, whatsAppVars,
         managerVars, agentVars, baseVars, worldVars, Background, Elsewhere
<1>3. subs[s].buffer \in Seq(Replies)
  BY DEF Placed, PartsInv, Subscription
<1>4. /\ b \in Seq(Replies)
      /\ \A n : Holds(b, n) => Holds(subs[s].buffer, n) \/ n = r
      /\ \A n : Holds(subs[s].buffer, n) => Holds(b, n)
      /\ \A n : Once(subs[s].buffer, n) /\ (n = r => ~Holds(subs[s].buffer, r)) => Once(b, n)
  BY <1>3, OfferOut DEF b
<1> HIDE DEF b
<1>5. /\ subs' \in [Subscribers -> Subscription]
      /\ subs'[s].buffer = b /\ \A t \in Subscribers \ {s} : subs'[t] = subs[t]
  BY <1>2, <1>4, BufferChanges DEF Placed
<1>6. /\ DOMAIN publishing' = DOMAIN publishing /\ publishing'[r] = publishing[r] \ {s}
      /\ \A n \in DOMAIN publishing \ {r} : publishing'[n] = publishing[n]
  BY <1>2
<1>7. \A n : \A t \in Subscribers : n # r \/ t # s => (Lies(n, t)' <=> Lies(n, t))
  BY <1>4, <1>5 DEF Lies
<1>8. \A n : \A t \in Subscribers : n # r \/ t # s => (Awaits(n, t)' <=> Awaits(n, t))
  BY <1>6 DEF Awaits
<1>9. \A n : \A t \in Subscribers :
         Once(subs[t].buffer, n) /\ (n = r => ~Awaits(n, s) \/ ~Lies(n, s))
            => Once(subs'[t].buffer, n)
  BY <1>2, <1>4, <1>5 DEF Lies, Awaits
<1>10. \A q \in Replies \ {r} : Stays(q)
  BY <1>2, <1>6, <1>7, <1>8, <1>9, OthersStay
<1>11. Good(r) /\ Awaits(r, s) /\ ~Awaits(r, s)' /\ way[r] = "published"
  BY <1>2, <1>6, WhereReplyIs DEF Placed, Awaits
<1>12. Good(r)'
  <2>1. MadeInv(r)'
    BY <1>2, <1>6, <1>11, MadeStays DEF Good, BeingSent
  <2>2. InOneHand(r)'
    <3>1. InOneHand(r) /\ ~Lies(r, s)
      BY <1>11 DEF Good, InOneHand
    <3>2. \A t \in Subscribers : Once(subs'[t].buffer, r) /\ ~(Awaits(r, t)' /\ Lies(r, t)')
      BY <1>7, <1>8, <1>9, <1>11, <3>1 DEF InOneHand
    <3>3. dispatcher.msg = r => ~Awaits(r, "dispatcher")' /\ ~Lies(r, "dispatcher")'
      BY <1>7, <1>8, <1>11, <3>1, BothServe DEF InOneHand, Servers
    <3>4. speech[r] # "none" => ~Awaits(r, "voice")' /\ ~Lies(r, "voice")'
      BY <1>7, <1>8, <1>11, <3>1, BothServe DEF InOneHand, Servers
    <3>5. ChannelFor(r)' = ChannelFor(r)
      BY <1>2 DEF ChannelFor, Background, Elsewhere
    <3> QED
      BY <1>2, <3>1, <3>2, <3>3, <3>4, <3>5 DEF InOneHand
  <2>3. CopiesInv(r)'
    <3>1. Server(r)' = Server(r) /\ ChannelFor(r)' = ChannelFor(r) /\ Server(r) \in Subscribers
      BY <1>2, BothServe DEF Server, ChannelFor, Servers, Background, Elsewhere
    <3>2. Awaits(r, Server(r))' \/ Lies(r, Server(r))' => Awaits(r, Server(r)) \/ Lies(r, Server(r))
      <4>1. CASE Server(r) = s
        BY <1>11, <4>1
      <4>2. CASE Server(r) # s
        <5>1. /\ Awaits(r, Server(r))' => Awaits(r, Server(r))
              /\ Lies(r, Server(r))' => Lies(r, Server(r))
          BY <1>7, <1>8, <3>1, <4>2 DEF Awaits, Lies
        <5> QED
          BY <5>1
      <4> QED
        BY <4>1, <4>2
    <3>3. Untold(r)' => Untold(r)
      BY <1>2, <3>1, <3>2 DEF Untold, Background
    <3> QED
      BY <1>2, <1>11, <3>3 DEF Good, CopiesInv, ToldOnceAtMost
  <2> QED
    BY <2>1, <2>2, <2>3 DEF Good
<1>13. PartsInv'
  BY <1>2, <1>5, <1>6 DEF Placed, PartsInv, Background, Elsewhere
<1>14. Tells(r)
  BY <1>2, <1>10, <1>12 DEF Tells
<1> QED
  BY <1>13, <1>14, TellsProceeds

(* and the worker goes on, or is done.                                     *)
LEMMA ReplyPublishedMoves ==
    ASSUME Placed, NEW r \in Replies, ReplyPublished(r)
    PROVE  Proceeds
<1>1. /\ UNCHANGED <<Elsewhere, way, subs, dispatcher, speech, copies, call>>
      /\ r \in DOMAIN publishing /\ publishing[r] = {}
      /\ publishing' = [q \in DOMAIN publishing \ {r} |-> publishing[q]]
  BY DEF ReplyPublished, EndPublish, channelVars, telegramVars, voiceVars, whatsAppVars,
         managerVars, baseVars, worldVars, Elsewhere
<1>2. PICK m \in Messages : m = ReplyTo[r]
  BY NamesDiffer
<1>3. PICK w \in {"none", "working"} : worker' = [worker EXCEPT ![m] = w]
  BY <1>2 DEF ReplyPublished, AfterPublish
<1>4. /\ worker' \in [Messages -> WorkerStates] /\ worker'[m] = w
      /\ \A n \in Messages \ {m} : worker'[n] = worker[n]
  BY <1>3 DEF Placed, PartsInv, WorkerStates
<1>5. /\ DOMAIN publishing' = DOMAIN publishing \ {r}
      /\ \A q \in DOMAIN publishing' : publishing'[q] = publishing[q]
  BY <1>1
<1>6. /\ worker[m] \in {"notifying", "publishing"} /\ Last(r) /\ way[r] = "published"
      /\ ~Early(m) /\ Apart(m) /\ call[m].at = "idle" /\ BeingHandled(m) /\ Stage(m) = Handled
  <2>1. /\ worker[m] \in {"notifying", "publishing"} /\ Last(r) /\ way[r] = "published"
        /\ ~Early(m) /\ Apart(m)
    BY <1>1, <1>2 DEF Placed, Good, MadeInv
  <2>2. call[m].at = "idle" /\ BeingHandled(m)
    BY <2>1 DEF Apart, BeingHandled
  <2> QED
    BY <2>1, <2>2 DEF Early, Stage
<1>7. \A n \in Messages : Rests(n) /\ (Early(n)' <=> Early(n))
  BY <1>1 DEF Rests, Early, BeingReceived, Elsewhere
<1>8. ASSUME NEW n \in Messages PROVE Apart(n)'
  <2>1. CASE n = m
    <3>1. ~BeingReceived(m)' /\ m \notin unread' /\ ~Holds(inbound', m) /\ agent'.msg # m
          /\ update'.msg # m /\ call'[m].at = "idle"
      BY <1>1, <1>6, <1>7 DEF Early, BeingReceived
    <3>2. Once(inbound', m)
      BY <1>6, <1>7 DEF Apart, Rests
    <3> QED
      BY <2>1, <3>1, <3>2 DEF Apart
  <2>2. CASE n # m
    BY <1>1, <1>4, <1>7, <2>2, RestingApart DEF Placed
  <2> QED
    BY <2>1, <2>2
<1>9. ASSUME NEW q \in Replies, ReplyTo[q] = m, q # r PROVE q \notin DOMAIN publishing
  <2>1. SUFFICES ASSUME q \in DOMAIN publishing PROVE FALSE
    OBVIOUS
  <2>2. Last(q) /\ way[q] = "published"
    BY <2>1 DEF Placed, Good, MadeInv
  <2>3. q > r \/ r > q
    BY <1>9, NamesDiffer
  <2> QED
    BY <1>2, <1>6, <1>9, <2>2, <2>3 DEF Last
<1>10. \A q : \A s \in Subscribers :
          (Awaits(q, s)' <=> Awaits(q, s)) /\ (Lies(q, s)' <=> Lies(q, s))
  BY <1>1, <1>5 DEF Awaits, Lies
<1>11. ASSUME NEW q \in Replies \ {r} PROVE Stays(q)
  <2>1. ReplyTo[q] \in Messages
    BY NamesDiffer
  <2>2. q \in DOMAIN publishing => worker'[ReplyTo[q]] = worker[ReplyTo[q]]
    BY <1>4, <1>9, <2>1
  <2> QED
    BY <1>1, <1>5, <1>7, <1>10, <2>1, <2>2
    DEF Stays, Unaffected, Last, BeingSent, Elsewhere
<1>12. UnderWay(r)' <=> UnderWay(r)
  BY <1>1 DEF UnderWay, Buffered
<1>13. Good(r)'
  <2>1. Good(r)
    BY DEF Placed
  <2>2. MadeInv(r)'
    BY <1>1, <1>2, <1>5, <1>6, <1>7, <1>12, <2>1 DEF Good, MadeInv, BeingSent
  <2>3. ChannelFor(r)' = ChannelFor(r) /\ Server(r)' = Server(r) /\ Server(r) \in Subscribers
    BY <1>1, BothServe DEF Server, ChannelFor, Servers, Elsewhere
  <2>4. InOneHand(r)'
    BY <1>1, <1>10, <2>1, <2>3, BothServe DEF Good, InOneHand, Servers
  <2>5. Untold(r)' => Untold(r)
    <3>1. /\ Awaits(r, Server(r))' => Awaits(r, Server(r))
          /\ Lies(r, Server(r))' => Lies(r, Server(r))
      BY <1>10, <2>3 DEF Awaits, Lies
    <3> QED
      BY <1>1, <2>3, <3>1 DEF Untold
  <2>6. CopiesInv(r)'
    BY <1>1, <2>1, <2>5 DEF Good, CopiesInv, ToldOnceAtMost
  <2> QED
    BY <2>2, <2>4, <2>6 DEF Good
<1>14. \A q \in Replies : Good(q)'
  BY <1>11, <1>13, UnaffectedGood DEF Placed, Stays
<1>15. \A q \in Replies : UnderWay(q)' <=> UnderWay(q)
  BY <1>11, <1>12, UnderWayStays
<1>16. ASSUME NEW n \in Messages \ {m} PROVE Stage(n)' = Stage(n)
  <2>1. BeingHandled(n)' <=> BeingHandled(n)
    BY <1>1, <1>4 DEF BeingHandled, Elsewhere
  <2> QED
    BY <1>7, <1>15, <2>1, StageOfResting
<1>17. Stage(m)' >= Stage(m)
  BY <1>6, <1>7 DEF Early, Stage, Handled, Answered, Settled
<1>18. PartsInv'
  BY <1>1, <1>4, <1>5 DEF Placed, PartsInv, Elsewhere
<1>19. GetsOn(m)
  BY <1>1, <1>16, <1>17 DEF GetsOn
<1> QED
  BY <1>1, <1>8, <1>14, <1>18, <1>19 DEF Proceeds, Placed, Step, Elsewhere
-----------------------------------------------------------------------------
(* The dispatcher and the channels.                                        *)

(* A subscriber takes what lies at the head of its channel.                *)
LEMMA ReceiveHolds ==
    ASSUME PartsInv, NEW s \in Subscribers, Receive(s), NEW r, r = Head(subs[s].buffer)
    PROVE  /\ r \in Replies /\ Lies(r, s)
           /\ subs' \in [Subscribers -> Subscription]
           /\ \A n : \A t \in Subscribers : n # r \/ t # s => (Lies(n, t)' <=> Lies(n, t))
           /\ \A n : \A t \in Subscribers : Once(subs[t].buffer, n) => Once(subs'[t].buffer, n)
           /\ Once(subs[s].buffer, r) => ~Lies(r, s)'
           /\ Lies(r, s)' => Lies(r, s)
           /\ UNCHANGED <<inbound, publishing>>
<1> DEFINE q == subs[s].buffer
<1>1. q \in Seq(Replies) /\ q # <<>>
  BY DEF PartsInv, Receive, Subscription
<1> DEFINE b == Tail(q)
<1>2. /\ b \in Seq(Replies) /\ r \in Replies /\ Holds(q, r)
      /\ \A n : Holds(b, n) => Holds(q, n)
      /\ \A n : Holds(q, n) /\ n # r => Holds(b, n)
      /\ \A n : Once(q, n) => Once(b, n)
      /\ Once(q, r) => ~Holds(b, r)
  <2>1. r = Head(q)
    OBVIOUS
  <2> HIDE DEF q
  <2> QED
    BY <1>1, <2>1, TailHolds
<1>3. subs' = [subs EXCEPT ![s].buffer = b] /\ UNCHANGED <<inbound, publishing>>
  BY DEF Receive
<1> HIDE DEF b
<1>4. /\ subs' \in [Subscribers -> Subscription]
      /\ subs'[s].buffer = b /\ \A t \in Subscribers \ {s} : subs'[t] = subs[t]
  BY <1>2, <1>3, BufferChanges
<1>5. \A n : \A t \in Subscribers : n # r \/ t # s => (Lies(n, t)' <=> Lies(n, t))
  BY <1>2, <1>4 DEF Lies
<1>6. \A n : \A t \in Subscribers : Once(subs[t].buffer, n) => Once(subs'[t].buffer, n)
  BY <1>2, <1>4
<1>7. /\ Lies(r, s) /\ Holds(subs'[s].buffer, r) => Lies(r, s)
      /\ Once(subs[s].buffer, r) => ~Holds(subs'[s].buffer, r)
  BY <1>2, <1>4 DEF Lies
<1> QED
  BY <1>2, <1>3, <1>4, <1>5, <1>6, <1>7 DEF Lies

(* Whom a reply is for does not change.                                    *)
LEMMA ServerStays ==
    ASSUME NEW r \in Replies, channelOf' = channelOf
    PROVE  Server(r)' = Server(r) /\ ChannelFor(r)' = ChannelFor(r) /\ Server(r) \in Subscribers
BY BothServe DEF Server, ChannelFor, Servers

(* The dispatcher takes a reply,                                           *)
LEMMA DispatcherReceivesMoves ==
    ASSUME Placed, DispatcherReceives
    PROVE  Proceeds
<1> DEFINE d == "dispatcher"
<1>0. Servers /\ PartsInv
  BY BothServe DEF Placed
<1>1. PICK r \in Replies : r = Head(subs[d].buffer)
  BY <1>0, ReceiveHolds DEF DispatcherReceives, Servers
<1>2. /\ Lies(r, d)
      /\ subs' \in [Subscribers -> Subscription]
      /\ \A n : \A t \in Subscribers : n # r \/ t # d => (Lies(n, t)' <=> Lies(n, t))
      /\ \A n : \A t \in Subscribers : Once(subs[t].buffer, n) => Once(subs'[t].buffer, n)
      /\ Once(subs[d].buffer, r) => ~Lies(r, d)'
      /\ Lies(r, d)' => Lies(r, d)
      /\ UNCHANGED <<inbound, publishing>>
  BY <1>0, <1>1, ReceiveHolds DEF DispatcherReceives, Servers
<1>3. /\ UNCHANGED <<Background, speech, copies, call>>
      /\ dispatcher.at = "select" /\ dispatcher' = With("lookup", r)
  BY <1>1, <1>2 DEF DispatcherReceives, channelVars, telegramVars, voiceVars, whatsAppVars,
              agentVars, baseVars, worldVars, Background, Elsewhere
<1>4. /\ dispatcher.msg \notin Replies /\ dispatcher'.msg = r /\ dispatcher'.at = "lookup"
      /\ call[Dispatcher].at = "idle"
  BY <1>0, <1>3 DEF PartsInv, With
<1>5. \A n : \A t \in Subscribers : Awaits(n, t)' <=> Awaits(n, t)
  BY <1>2 DEF Awaits
<1>6. \A q \in Replies \ {r} : Stays(q)
  BY <1>2, <1>3, <1>4, <1>5, OthersStay
<1>7. UnderWay(r) /\ Good(r) /\ ~Awaits(r, d) /\ ~Lies(r, d)'
  BY <1>0, <1>2 DEF UnderWay, Buffered, Lies, Holds, Placed, Good, InOneHand, Servers
<1>8. Good(r)'
  <2>1. MadeInv(r)'
    BY <1>2, <1>3, <1>7, WhereReplyIs, MadeStays DEF Good, BeingSent
  <2>2. Server(r)' = Server(r) /\ ChannelFor(r)' = ChannelFor(r) /\ Server(r) \in Subscribers
    BY <1>3, ServerStays DEF Background, Elsewhere
  <2>3. InOneHand(r)'
    BY <1>0, <1>2, <1>3, <1>4, <1>5, <1>7, <2>2 DEF InOneHand, Good, Servers
  <2>4. CopiesInv(r)'
    <3>1. Awaits(r, Server(r))' => Awaits(r, Server(r))
      BY <1>5, <2>2 DEF Awaits
    <3>2. Lies(r, Server(r))' => Lies(r, Server(r))
      BY <1>2, <2>2 DEF Lies
    <3>3. ChannelFor(r) # "voice" => Lies(r, Server(r))
      BY <1>2 DEF Server
    <3>4. Untold(r)' => Untold(r)
      BY <1>3, <2>2, <3>1, <3>2, <3>3 DEF Untold, Background
    <3> QED
      BY <1>3, <1>4, <1>7, <3>4 DEF Good, CopiesInv, ToldOnceAtMost
  <2> QED
    BY <2>1, <2>3, <2>4 DEF Good
<1>9. PartsInv'
  BY <1>0, <1>2, <1>3, <1>4 DEF PartsInv, With, Background, Elsewhere, Dispatching
<1>10. Tells(r)
  BY <1>3, <1>6, <1>7, <1>8 DEF Tells
<1> QED
  BY <1>9, <1>10, TellsProceeds

(* looks for its channel,                                                  *)
LEMMA LookupMoves ==
    ASSUME Placed, Lookup
    PROVE  Proceeds
<1>0. Servers /\ PartsInv
  BY BothServe DEF Placed
<1>1. PICK r \in Replies : r = dispatcher.msg
  BY DEF Lookup, Placed, PartsInv
<1>2. /\ UNCHANGED <<Background, speech, copies, subs, publishing>>
      /\ dispatcher.at = "lookup" /\ call[Dispatcher].at = "idle"
      /\ \/ /\ ChannelFor(r) # "voice" /\ dispatcher'.at = "sending" /\ dispatcher'.msg = r
            /\ call' = [call EXCEPT ![Dispatcher] = Sending("send", r)]
         \/ dispatcher'.at = "select" /\ dispatcher'.msg = None /\ call' = call
  <2>1. UNCHANGED <<Background, speech, copies, subs, publishing>> /\ dispatcher.at = "lookup"
    BY DEF Lookup, channelVars, telegramVars, voiceVars, whatsAppVars, agentVars, busVars,
           worldVars, Background, Elsewhere
  <2>2. call[Dispatcher].at = "idle"
    BY <1>0, <2>1 DEF PartsInv
  <2>3. CASE ChannelFor(r) \in Managed
    <3>1. dispatcher' = [dispatcher EXCEPT !.at = "sending"]
          /\ call' = [call EXCEPT ![Dispatcher] = Sending("send", r)]
      BY <1>1, <2>3 DEF Lookup, EnterSend
    <3>2. ChannelFor(r) # "voice"
      BY <2>3 DEF Managed
    <3>3. dispatcher'.at = "sending" /\ dispatcher'.msg = r
      BY <1>0, <1>1, <3>1 DEF PartsInv, Dispatching
    <3> QED
      BY <2>1, <2>2, <3>1, <3>2, <3>3
  <2>4. CASE ChannelFor(r) \notin Managed
    BY <1>1, <2>1, <2>2, <2>4 DEF Lookup, At
  <2> QED
    BY <2>3, <2>4
<1>3. /\ call' \in [Callers -> Calls] /\ \A n \in Messages : call'[n] = call[n]
      /\ call' = call \/ call'[Dispatcher] = Sending("send", r)
  <2>1. Sending("send", r) \in Calls /\ Dispatcher \in Callers /\ Messages \subseteq Callers
    BY DEF Calls, Sending, Callers
  <2>2. call \in [Callers -> Calls]
    BY <1>0 DEF PartsInv
  <2> QED
    BY <1>2, <2>1, <2>2, NamesDiffer
<1>4. \A n : \A t \in Subscribers : (Awaits(n, t)' <=> Awaits(n, t)) /\ (Lies(n, t)' <=> Lies(n, t))
  BY <1>2 DEF Awaits, Lies
<1>5. \A q \in Replies : call'[ReplyTo[q]] = call[ReplyTo[q]]
  BY <1>3, NamesDiffer
<1>6. \A q \in Replies \ {r} : Stays(q)
  BY <1>1, <1>2, <1>4, <1>5, NamesDiffer, OthersStay
<1>7. Good(r) /\ UnderWay(r)
  BY <1>1 DEF Placed, UnderWay
<1>8. Good(r)'
  <2>1. MadeInv(r)'
    BY <1>2, <1>5, <1>7, WhereReplyIs, MadeStays DEF Good, BeingSent
  <2>2. Server(r)' = Server(r) /\ ChannelFor(r)' = ChannelFor(r) /\ Server(r) \in Subscribers
    BY <1>2, ServerStays DEF Background, Elsewhere
  <2>3. InOneHand(r)'
    BY <1>0, <1>1, <1>2, <1>4, <1>7, <2>2, NamesDiffer DEF InOneHand, Good, Servers
  <2>4. CopiesInv(r)'
    <3>1. /\ Awaits(r, Server(r))' => Awaits(r, Server(r))
          /\ Lies(r, Server(r))' => Lies(r, Server(r))
      BY <1>4, <2>2 DEF Awaits, Lies
    <3>2. Untold(r)' => Untold(r)
      BY <1>1, <1>2, <1>5, <2>2, <3>1, NamesDiffer DEF Untold, Background
    <3>3. ToldOnceAtMost(r)' => ToldOnceAtMost(r)
      BY <1>1, <1>2, <1>3, <1>5, NamesDiffer DEF ToldOnceAtMost, Sending
    <3> QED
      BY <1>2, <1>7, <3>2, <3>3 DEF Good, CopiesInv
  <2> QED
    BY <2>1, <2>3, <2>4 DEF Good
<1>9. PartsInv'
  <2>1. call'[Dispatcher].at # "idle" => call'[Dispatcher] = Sending("send", r)
    BY <1>2, <1>3
  <2>2. call'[Dispatcher].at # "idle" =>
           dispatcher'.at = "sending" /\ call'[Dispatcher].msg = dispatcher'.msg
    BY <1>2, <2>1 DEF Sending
  <2>3. dispatcher' \in Dispatching
    BY <1>0, SMTT(20) DEF Lookup, At, PartsInv, Dispatching
  <2> QED
    BY <1>0, <1>1, <1>2, <1>3, <2>2, <2>3, NamesDiffer DEF PartsInv, Background, Elsewhere
<1>10. Tells(r)
  BY <1>2, <1>3, <1>6, <1>7, <1>8 DEF Tells
<1> QED
  BY <1>9, <1>10, TellsProceeds

(* and is done with it when Send returns.                                  *)
LEMMA SendReturnsMoves ==
    ASSUME Placed, SendReturns
    PROVE  Proceeds
<1>0. Servers /\ PartsInv
  BY BothServe DEF Placed
<1>1. PICK r \in Replies : r = dispatcher.msg
  BY DEF SendReturns, Placed, PartsInv
<1>2. /\ UNCHANGED <<Background, speech, copies, subs, publishing, call>>
      /\ call[Dispatcher] = Idle /\ dispatcher'.at = "select" /\ dispatcher'.msg \notin Replies
  BY NamesDiffer DEF SendReturns, Returned, AfterSend, At, channelVars, telegramVars,
                    voiceVars, whatsAppVars, agentVars, busVars, baseVars, worldVars,
                    Background, Elsewhere
<1>3. call[Dispatcher].at = "idle"
  BY <1>2 DEF Idle
<1>4. \A n : \A t \in Subscribers : (Awaits(n, t)' <=> Awaits(n, t)) /\ (Lies(n, t)' <=> Lies(n, t))
  BY <1>2 DEF Awaits, Lies
<1>5. \A q \in Replies \ {r} : Stays(q)
  BY <1>1, <1>2, <1>4, OthersStay
<1>6. Good(r) /\ UnderWay(r)
  BY <1>1 DEF Placed, UnderWay
<1>7. Good(r)'
  <2>1. MadeInv(r)'
    BY <1>2, <1>6, WhereReplyIs, MadeStays DEF Good, BeingSent
  <2>2. Server(r)' = Server(r) /\ ChannelFor(r)' = ChannelFor(r) /\ Server(r) \in Subscribers
    BY <1>2, ServerStays DEF Background, Elsewhere
  <2>3. InOneHand(r)'
    BY <1>0, <1>2, <1>4, <1>6, <2>2 DEF InOneHand, Good, Servers
  <2>4. CopiesInv(r)'
    <3>1. /\ Awaits(r, Server(r))' => Awaits(r, Server(r))
          /\ Lies(r, Server(r))' => Lies(r, Server(r))
      BY <1>4, <2>2 DEF Awaits, Lies
    <3>2. Untold(r)' => Untold(r)
      BY <1>2, <2>2, <3>1 DEF Untold, Background
    <3> QED
      BY <1>2, <1>6, <3>2 DEF Good, CopiesInv, ToldOnceAtMost
  <2> QED
    BY <2>1, <2>3, <2>4 DEF Good
<1>8. PartsInv'
  <2>1. dispatcher' \in Dispatching
    BY DEF SendReturns, AfterSend, At, Dispatching
  <2> QED
    BY <1>0, <1>2, <1>3, <2>1 DEF PartsInv, Background, Elsewhere
<1>9. Tells(r)
  BY <1>2, <1>5, <1>6, <1>7 DEF Tells
<1> QED
  BY <1>8, <1>9, TellsProceeds

(* A call of Send is at work for a reply that nobody else has.             *)
LEMMA CallIsAlone ==
    ASSUME Placed, NEW c \in Callers, call[c].at # "idle", NEW r, r = call[c].msg
    PROVE  /\ r \in Replies /\ call[c] = Sending(call[c].at, r)
           /\ way[r] # "none" /\ speech[r] = "none"
           /\ ~Awaits(r, Server(r)) /\ ~Lies(r, Server(r))
           /\ IF c = ReplyTo[r] THEN BeingSent(r) /\ dispatcher.msg # r /\ c # Dispatcher
              ELSE /\ c = Dispatcher /\ dispatcher.msg = r /\ dispatcher.at = "sending"
                   /\ ~BeingSent(r) /\ UnderWay(r) /\ ChannelFor(r) # "voice"
<1>1. call[c] \in [at : {"send", "plain", "stop", "forget"}, msg : Replies]
  BY DEF Placed, PartsInv, Calls, Idle
<1>2. r \in Replies /\ call[c] = Sending(call[c].at, r) /\ ReplyTo[r] \in Messages
  BY <1>1, NamesDiffer DEF Sending
<1>3. Good(r)
  BY <1>2 DEF Placed
<1>4. CASE c = Dispatcher
  <2>1. c # ReplyTo[r] /\ dispatcher.msg = r /\ dispatcher.at = "sending"
    BY <1>2, <1>4, NamesDiffer DEF Placed, PartsInv
  <2>2. UnderWay(r)
    BY <2>1 DEF UnderWay
  <2>3. way[r] = "published" /\ ~BeingSent(r)
    BY <1>2, <1>3, <2>2 DEF Good, MadeInv
  <2>4. /\ ChannelFor(r) # "voice" /\ speech[r] = "none"
        /\ ~Awaits(r, "dispatcher") /\ ~Lies(r, "dispatcher")
    BY <1>2, <1>3, <2>1 DEF Good, InOneHand, Placed, PartsInv
  <2>5. ~Awaits(r, Server(r)) /\ ~Lies(r, Server(r))
    BY <2>4 DEF Server
  <2> QED
    BY <1>2, <1>4, <2>1, <2>2, <2>3, <2>4, <2>5
<1>5. CASE c # Dispatcher
  <2>1. c \in Messages
    BY <1>5 DEF Callers
  <2>2. c = ReplyTo[r] /\ BeingSent(r)
    BY <2>1 DEF Placed, Apart, BeingSent
  <2>3. way[r] = "sent" /\ ~UnderWay(r) /\ r \notin DOMAIN publishing
    BY <1>3, <2>2 DEF Good, MadeInv
  <2>4. /\ dispatcher.msg # r /\ speech[r] = "none" /\ \A s \in Subscribers : ~Lies(r, s)
    BY <2>3 DEF UnderWay, Buffered, Lies, Holds
  <2>5. ~Awaits(r, Server(r)) /\ ~Lies(r, Server(r))
    BY <2>3, <2>4, BothServe DEF Server, Servers, Awaits
  <2> QED
    BY <1>2, <1>5, <2>2, <2>3, <2>4, <2>5
<1> QED
  BY <1>4, <1>5

(* What a call of Send does.                                               *)
LEMMA CallMoves ==
    ASSUME Placed, NEW c \in Callers, call[c].at # "idle",
           UNCHANGED <<Background, subs, publishing, dispatcher, speech>>,
           NEW r, r = call[c].msg,
           NEW u \in Calls, call' = [call EXCEPT ![c] = u],
           u = Idle \/ \E at \in {"plain", "stop", "forget"} : u = Sending(at, r),
           u.at = "plain" => call[c].at = "send",
           \/ copies' = copies
           \/ copies' = [copies EXCEPT ![r] = @ + 1] /\ call[c].at \in {"send", "plain"}
    PROVE  Proceeds
<1>1. /\ r \in Replies /\ call[c] = Sending(call[c].at, r)
      /\ way[r] # "none" /\ speech[r] = "none"
      /\ ~Awaits(r, Server(r)) /\ ~Lies(r, Server(r))
      /\ IF c = ReplyTo[r] THEN BeingSent(r) /\ dispatcher.msg # r /\ c # Dispatcher
         ELSE /\ c = Dispatcher /\ dispatcher.msg = r /\ dispatcher.at = "sending"
              /\ ~BeingSent(r) /\ UnderWay(r) /\ ChannelFor(r) # "voice"
  BY CallIsAlone
<1>2. /\ call' \in [Callers -> Calls] /\ call'[c] = u /\ \A d \in Callers \ {c} : call'[d] = call[d]
      /\ PartsInv
  BY DEF Placed, PartsInv
<1>3. u.at \in {"idle", "plain", "stop", "forget"} /\ (u.at # "idle" => u.msg = r)
  BY DEF Idle, Sending
<1>4. /\ copies' \in [Replies -> Nat] /\ \A q \in Replies \ {r} : copies'[q] = copies[q]
      /\ copies[r] \in Nat
      /\ \/ copies'[r] = copies[r]
         \/ copies'[r] = copies[r] + 1 /\ call[c].at \in {"send", "plain"}
  <2>1. copies \in [Replies -> Nat] /\ r \in Replies
    BY <1>1, <1>2 DEF PartsInv
  <2>2. CASE copies' = copies
    BY <2>1, <2>2
  <2>3. CASE copies' = [copies EXCEPT ![r] = @ + 1] /\ call[c].at \in {"send", "plain"}
    BY <2>1, <2>3
  <2> QED
    BY <2>2, <2>3
<1>5. \A n : \A t \in Subscribers : (Awaits(n, t)' <=> Awaits(n, t)) /\ (Lies(n, t)' <=> Lies(n, t))
  BY DEF Awaits, Lies
<1>6. ASSUME NEW n \in Messages
      PROVE  call'[n].at # "idle" => call[n].at # "idle" /\ call'[n].msg = call[n].msg
  <2>1. n \in Callers
    BY NamesDiffer
  <2> QED
    BY <1>2, <1>3, <2>1
<1>7. ASSUME NEW q \in Replies \ {r} PROVE Stays(q)
  <2>1. ReplyTo[q] \in Callers /\ Dispatcher \in Callers /\ ReplyTo[q] # Dispatcher
        /\ ReplyTo[q] \in Messages
    BY NamesDiffer
  <2>2. dispatcher.msg = q => call'[Dispatcher] = call[Dispatcher]
    BY <1>1, <1>2, <2>1
  <2>3. BeingSent(q)' => BeingSent(q) /\ call'[ReplyTo[q]] = call[ReplyTo[q]]
    <3>1. CASE ReplyTo[q] = c
      BY <1>2, <1>3, <3>1 DEF BeingSent
    <3>2. CASE ReplyTo[q] # c
      BY <1>2, <2>1, <3>2 DEF BeingSent
    <3> QED
      BY <3>1, <3>2
  <2>4. Early(ReplyTo[q])' <=> Early(ReplyTo[q])
    BY DEF Background, Elsewhere, Early, BeingReceived
  <2> QED
    BY <1>4, <1>5, <2>2, <2>3, <2>4 DEF Stays, Unaffected, Last, Background, Elsewhere
<1>8. Good(r) /\ Dispatcher \in Callers /\ ReplyTo[r] \in Callers /\ ReplyTo[r] # Dispatcher
      /\ ReplyTo[r] \in Messages
  BY <1>1, NamesDiffer DEF Placed
<1>9. UnderWay(r)' <=> UnderWay(r)
  BY DEF UnderWay, Buffered
<1>10. BeingSent(r)' => BeingSent(r)
  BY <1>6, <1>8 DEF BeingSent
<1>11. Server(r)' = Server(r) /\ ChannelFor(r)' = ChannelFor(r) /\ Server(r) \in Subscribers
  BY <1>1, ServerStays DEF Background, Elsewhere
<1>12. /\ call[c].at = "send" => copies[r] = 0
       /\ call[c].at = "plain" => copies[r] <= 1
       /\ copies[r] <= 2
  <2>1. CopiesInv(r)
    BY <1>8 DEF Good
  <2>2. call[c].at = "send" => Untold(r)
    BY <1>1 DEF Untold
  <2>3. call[c].at = "plain" => ToldOnceAtMost(r)
    BY <1>1 DEF ToldOnceAtMost
  <2> QED
    BY <2>1, <2>2, <2>3 DEF CopiesInv
<1>13. Good(r)'
  <2>1. MadeInv(r)'
    BY <1>1, <1>8, <1>9, <1>10, WhereReplyIs, MadeStays DEF Good
  <2>2. InOneHand(r)'
    BY <1>1, <1>5, <1>8, <1>11, BothServe DEF InOneHand, Good, Servers
  <2>3. CopiesInv(r)'
    <3>1. ~Awaits(r, Server(r))' /\ ~Lies(r, Server(r))'
      BY <1>1, <1>5, <1>11 DEF Awaits, Lies
    <3>2. /\ ~(call'[ReplyTo[r]].at = "send" /\ call'[ReplyTo[r]].msg = r)
          /\ dispatcher.msg = r => call'[Dispatcher].at # "send" /\ dispatcher.at = "sending"
      <4>1. CASE c = ReplyTo[r]
        BY <1>1, <1>2, <1>3, <4>1
      <4>2. CASE c # ReplyTo[r]
        BY <1>1, <1>2, <1>3, <1>8, <4>2 DEF BeingSent
      <4> QED
        BY <4>1, <4>2
    <3>3. ~Untold(r)'
      BY <1>1, <3>1, <3>2 DEF Untold, Background
    <3>4. ToldOnceAtMost(r)' => u.at = "plain"
      <4>1. CASE c = ReplyTo[r]
        BY <1>1, <1>2, <4>1 DEF ToldOnceAtMost
      <4>2. CASE c # ReplyTo[r]
        BY <1>1, <1>2, <1>8, <4>2 DEF ToldOnceAtMost, BeingSent
      <4> QED
        BY <4>1, <4>2
    <3> QED
      BY <1>4, <1>12, <3>3, <3>4 DEF CopiesInv
  <2> QED
    BY <2>1, <2>2, <2>3 DEF Good
<1>14. PartsInv'
  <2>1. call'[Dispatcher].at # "idle" =>
           call[Dispatcher].at # "idle" /\ call'[Dispatcher].msg = call[Dispatcher].msg
    BY <1>2, <1>3, <1>8
  <2> QED
    BY <1>2, <1>4, <2>1 DEF PartsInv, Background, Elsewhere
<1>15. \/ copies' = copies
       \/ copies' = [copies EXCEPT ![r] = @ + 1] /\ copies[r] < 2 /\ (UnderWay(r) \/ BeingSent(r))
  BY <1>1, <1>4, <1>12
<1>16. Tells(r)
  BY <1>6, <1>7, <1>9, <1>13, <1>15 DEF Tells
<1> QED
  BY <1>1, <1>14, <1>16, TellsProceeds
(* A service is asked to show a reply, and the chat's indicator to stop.   *)
LEMMA TelegramMoves ==
    ASSUME Placed, NEW c \in Callers, TelegramSending(c),
           UNCHANGED <<Outside, whatsAppVars, voiceVars>>
    PROVE  Proceeds
<1> DEFINE r == call[c].msg
<1>1. /\ UNCHANGED <<Background, subs, publishing, dispatcher, speech>>
      /\ call[c].at \in {"send", "plain", "stop", "forget"}
  BY DEF TelegramSending, TelegramSendRefused, TelegramSend, StopTyping, ForgetTyping, Outside,
         managerVars, agentVars, telegramVars, whatsAppVars, voiceVars, busVars, worldVars,
         Background, Elsewhere
<1>2. call[c] \in [at : {"send", "plain", "stop", "forget"}, msg : Replies]
  BY <1>1 DEF Placed, PartsInv, Calls, Idle
<1>3. /\ call[c].at # "idle" /\ Idle \in Calls
      /\ \A at \in {"plain", "stop", "forget"} :
            /\ [call[c] EXCEPT !.at = at] = Sending(at, r) /\ Sending(at, r) \in Calls
            /\ Sending(at, r).at = at
  BY <1>2 DEF Calls, Sending
<1>4. Idle.at = "idle"
  BY DEF Idle
<1>5. PICK u \in Calls :
        /\ call' = [call EXCEPT ![c] = u]
        /\ u = Idle \/ \E at \in {"plain", "stop", "forget"} : u = Sending(at, r)
        /\ u.at = "plain" => call[c].at = "send"
        /\ \/ copies' = copies
           \/ copies' = [copies EXCEPT ![r] = @ + 1] /\ call[c].at \in {"send", "plain"}
  <2>1. CASE TelegramSendRefused(c)
    BY <1>3, <1>4, <2>1 DEF TelegramSendRefused, worldVars
  <2>2. CASE TelegramSend(c)
    <3>1. PICK sent \in BOOLEAN, shown \in BOOLEAN :
            /\ IF shown THEN Show(r) ELSE UNCHANGED copies
            /\ call' = [call EXCEPT ![c].at = IF @ = "send" THEN AfterHTML(sent) ELSE "stop"]
      BY <2>2 DEF TelegramSend
    <3> DEFINE at == IF call[c].at = "send" THEN AfterHTML(sent) ELSE "stop"
    <3>2. at \in {"plain", "stop"} /\ (at = "plain" => call[c].at = "send")
      BY DEF AfterHTML
    <3>3. call' = [call EXCEPT ![c] = [call[c] EXCEPT !.at = at]]
      BY <3>1
    <3> HIDE DEF at
    <3>4. call' = [call EXCEPT ![c] = Sending(at, r)]
      BY <1>3, <3>2, <3>3
    <3>5. copies' = copies \/ copies' = [copies EXCEPT ![r] = @ + 1]
      BY <3>1 DEF Show
    <3>6. call[c].at \in {"send", "plain"}
      BY <2>2 DEF TelegramSend
    <3> QED
      BY <1>3, <3>2, <3>4, <3>5, <3>6
  <2>3. CASE StopTyping(c)
    <3>1. \/ call' = [call EXCEPT ![c] = Idle]
          \/ call' = [call EXCEPT ![c] = [call[c] EXCEPT !.at = "forget"]]
      BY <2>3 DEF StopTyping
    <3>2. copies' = copies
      BY <2>3 DEF StopTyping, worldVars
    <3> QED
      BY <1>3, <1>4, <3>1, <3>2
  <2>4. CASE ForgetTyping(c)
    BY <1>3, <1>4, <2>4 DEF ForgetTyping, worldVars
  <2> QED
    BY <2>1, <2>2, <2>3, <2>4 DEF TelegramSending
<1>6. PICK n : n = call[c].msg
  OBVIOUS
<1> QED
  BY <1>1, <1>3, <1>5, <1>6, CallMoves

(* The bridge is asked once.                                               *)
LEMMA WhatsAppMoves ==
    ASSUME Placed, NEW c \in Callers, WhatsAppSend(c),
           UNCHANGED <<Outside, telegramVars, voiceVars>>
    PROVE  Proceeds
<1>1. /\ UNCHANGED <<Background, subs, publishing, dispatcher, speech>>
      /\ call[c].at = "send" /\ call' = [call EXCEPT ![c] = Idle]
      /\ copies' = copies \/ copies' = [copies EXCEPT ![call[c].msg] = @ + 1]
  BY DEF WhatsAppSend, Show, Outside, managerVars, agentVars, telegramVars,
         whatsAppVars, voiceVars, busVars, Background, Elsewhere
<1>2. Idle \in Calls /\ Idle.at = "idle"
  BY DEF Calls, Idle
<1>3. PICK n : n = call[c].msg
  OBVIOUS
<1> QED
  BY <1>1, <1>2, <1>3, CallMoves

(* The voice pipeline speaks a reply,                                      *)
LEMMA SpeakMoves ==
    ASSUME Placed, NEW r \in Replies, SpeakResponse(r),
           UNCHANGED <<Outside, telegramVars, whatsAppVars>>
    PROVE  Proceeds
<1>0. PartsInv /\ Good(r)
  BY DEF Placed
<1>1. /\ UNCHANGED <<Background, subs, publishing, dispatcher, call>>
      /\ speech[r] \in {"speaking", "again"}
  BY DEF SpeakResponse, Outside, managerVars, agentVars, telegramVars, whatsAppVars, busVars,
         Background, Elsewhere
<1>2. /\ speech' \in [Replies -> {"none", "speaking", "again"}]
      /\ speech'[r] \in {"none", "again"} /\ (speech'[r] = "again" => speech[r] = "speaking")
      /\ \A q \in Replies \ {r} : speech'[q] = speech[q]
  <2>1. PICK w \in {"none", "again"} :
           speech' = [speech EXCEPT ![r] = w] /\ (w = "again" => speech[r] = "speaking")
    BY DEF SpeakResponse
  <2>2. speech \in [Replies -> {"none", "speaking", "again"}]
    BY <1>0 DEF PartsInv
  <2> QED
    BY <2>1, <2>2
<1>3. /\ copies' \in [Replies -> Nat] /\ \A q \in Replies \ {r} : copies'[q] = copies[q]
      /\ copies[r] \in Nat /\ copies'[r] \in {copies[r], copies[r] + 1}
      /\ copies' = copies \/ copies' = [copies EXCEPT ![r] = @ + 1]
  <2>1. copies \in [Replies -> Nat]
    BY <1>0 DEF PartsInv
  <2>2. copies' = copies \/ copies' = [copies EXCEPT ![r] = @ + 1]
    BY DEF SpeakResponse, Show
  <2> QED
    BY <2>1, <2>2
<1>4. \A n : \A t \in Subscribers : (Awaits(n, t)' <=> Awaits(n, t)) /\ (Lies(n, t)' <=> Lies(n, t))
  BY <1>1 DEF Awaits, Lies
<1>5. \A q \in Replies \ {r} : Stays(q)
  BY <1>1, <1>2, <1>3, <1>4, OthersStay
<1>6. /\ UnderWay(r) /\ ChannelFor(r) = "voice" /\ ~Awaits(r, "voice") /\ ~Lies(r, "voice")
      /\ way[r] = "published" /\ ~BeingSent(r)
  BY <1>0, <1>1, WhereReplyIs DEF UnderWay, Good, InOneHand
<1>7. Server(r)' = Server(r) /\ ChannelFor(r)' = ChannelFor(r) /\ Server(r) \in Subscribers
  BY <1>1, ServerStays DEF Background, Elsewhere
<1>8. dispatcher.msg = r => call[Dispatcher].at = "idle"
  BY <1>0, <1>6 DEF Good, InOneHand, PartsInv
<1>9. /\ speech[r] = "speaking" => copies[r] = 0
      /\ speech[r] = "again" => copies[r] <= 1
  BY <1>0 DEF Good, CopiesInv, Untold, ToldOnceAtMost
<1>10. Good(r)'
  <2>1. MadeInv(r)'
    BY <1>0, <1>1, <1>6, MadeStays DEF Good, BeingSent
  <2>2. InOneHand(r)'
    BY <1>0, <1>1, <1>4, <1>6, <1>7, BothServe DEF InOneHand, Good, Servers
  <2>3. ~Untold(r)'
    <3>1. ~Awaits(r, Server(r))' /\ ~Lies(r, Server(r))'
      BY <1>4, <1>6, <1>7 DEF Server, Awaits, Lies
    <3> QED
      BY <1>1, <1>2, <1>6, <1>7, <3>1 DEF Untold, BeingSent, Background
  <2>4. ToldOnceAtMost(r)' => speech[r] = "speaking"
    BY <1>1, <1>2, <1>6, <1>8 DEF ToldOnceAtMost, BeingSent
  <2>5. CopiesInv(r)'
    BY <1>1, <1>3, <1>9, <2>3, <2>4 DEF CopiesInv
  <2> QED
    BY <2>1, <2>2, <2>5 DEF Good
<1>11. PartsInv'
  BY <1>0, <1>1, <1>2, <1>3 DEF PartsInv, Background, Elsewhere
<1>12. Tells(r)
  BY <1>1, <1>3, <1>5, <1>6, <1>9, <1>10 DEF Tells
<1> QED
  BY <1>11, <1>12, TellsProceeds

(* of those it has taken from the bus.                                     *)
LEMMA VoiceReceivesMoves ==
    ASSUME Placed, HandleOutboundReceives, UNCHANGED <<Outside, telegramVars, whatsAppVars>>
    PROVE  Proceeds
<1> DEFINE d == "voice"
<1>0. Servers /\ PartsInv
  BY BothServe DEF Placed
<1>1. PICK r \in Replies : r = Head(subs[d].buffer)
  BY <1>0, ReceiveHolds DEF HandleOutboundReceives, Servers
<1>2. /\ Lies(r, d)
      /\ subs' \in [Subscribers -> Subscription]
      /\ \A n : \A t \in Subscribers : n # r \/ t # d => (Lies(n, t)' <=> Lies(n, t))
      /\ \A n : \A t \in Subscribers : Once(subs[t].buffer, n) => Once(subs'[t].buffer, n)
      /\ Once(subs[d].buffer, r) => ~Lies(r, d)'
      /\ Lies(r, d)' => Lies(r, d)
      /\ UNCHANGED <<inbound, publishing>>
  BY <1>0, <1>1, ReceiveHolds DEF HandleOutboundReceives, Servers
<1>3. /\ UNCHANGED <<Background, dispatcher, copies, call>>
      /\ speech' = IF ChannelFor(r) = "voice" THEN [speech EXCEPT ![r] = "speaking"] ELSE speech
  BY <1>1, <1>2 DEF HandleOutboundReceives, Outside, managerVars, telegramVars, whatsAppVars,
              agentVars, baseVars, worldVars, Background, Elsewhere
<1>4. /\ speech' \in [Replies -> {"none", "speaking", "again"}]
      /\ \A q \in Replies \ {r} : speech'[q] = speech[q]
      /\ speech'[r] = speech[r] \/ (speech'[r] = "speaking" /\ ChannelFor(r) = "voice")
      /\ ChannelFor(r) = "voice" => speech'[r] = "speaking"
  BY <1>0, <1>3 DEF PartsInv
<1>5. \A n : \A t \in Subscribers : Awaits(n, t)' <=> Awaits(n, t)
  BY <1>2 DEF Awaits
<1>6. \A q \in Replies \ {r} : Stays(q)
  BY <1>2, <1>3, <1>4, <1>5, OthersStay
<1>7. UnderWay(r) /\ Good(r) /\ ~Awaits(r, d) /\ ~Lies(r, d)' /\ speech[r] = "none"
  BY <1>0, <1>2 DEF UnderWay, Buffered, Lies, Holds, Placed, Good, InOneHand, Servers
<1>8. Good(r)'
  <2>1. MadeInv(r)'
    BY <1>2, <1>3, <1>7, WhereReplyIs, MadeStays DEF Good, BeingSent
  <2>2. Server(r)' = Server(r) /\ ChannelFor(r)' = ChannelFor(r) /\ Server(r) \in Subscribers
    BY <1>3, ServerStays DEF Background, Elsewhere
  <2>3. InOneHand(r)'
    BY <1>0, <1>2, <1>3, <1>4, <1>5, <1>7, <2>2 DEF InOneHand, Good, Servers
  <2>4. CopiesInv(r)'
    <3>1. Awaits(r, Server(r))' => Awaits(r, Server(r))
      BY <1>5, <2>2 DEF Awaits
    <3>2. Lies(r, Server(r))' => Lies(r, Server(r))
      BY <1>2, <2>2 DEF Lies
    <3>3. ChannelFor(r) = "voice" => Lies(r, Server(r))
      BY <1>2 DEF Server
    <3>4. Untold(r)' => Untold(r)
      BY <1>3, <1>4, <2>2, <3>1, <3>2, <3>3 DEF Untold, Background
    <3>5. ToldOnceAtMost(r)' => ToldOnceAtMost(r)
      BY <1>3, <1>4, <1>7 DEF ToldOnceAtMost
    <3> QED
      BY <1>3, <1>7, <3>4, <3>5 DEF Good, CopiesInv
  <2> QED
    BY <2>1, <2>3, <2>4 DEF Good
<1>9. PartsInv'
  BY <1>0, <1>2, <1>3, <1>4 DEF PartsInv, Background, Elsewhere
<1>10. Tells(r)
  BY <1>3, <1>6, <1>7, <1>8 DEF Tells
<1> QED
  BY <1>9, <1>10, TellsProceeds
-----------------------------------------------------------------------------
(* Steps that move nothing, or take some replies off the bus.              *)
LEMMA QuietProceeds ==
    ASSUME Placed, PartsInv', UNCHANGED <<worker, call, copies, way>>,
           \A n \in Messages : Rests(n),
           \A r \in Replies : Unaffected(r)
    PROVE  Proceeds
<1>1. \A n \in Messages : Apart(n)'
  BY RestingApart DEF Placed
<1>2. \A r \in Replies : Good(r)'
  BY UnaffectedGood DEF Placed
<1>3. \A r \in Replies : UnderWay(r)' => UnderWay(r)
  BY DEF UnderWay, Buffered, Unaffected, Lies, Holds
<1>4. \A n \in Messages : BeingHandled(n)' <=> BeingHandled(n)
  BY DEF BeingHandled, Rests
<1>5. \A n \in Messages : Stage(n)' \in {Stage(n), Settled}
  BY <1>3, <1>4, StageOfResting
<1>6. Recedes
  BY <1>5 DEF Recedes, Rests
<1> QED
  BY <1>1, <1>2, <1>6 DEF Proceeds, Placed, Step

(* A subscriber leaves, with what its channel held.                        *)
LEMMA LeavingMoves ==
    ASSUME Placed, NEW s \in Subscribers, Unsubscribe(s),
           UNCHANGED <<unread, update, recording, agent, worker, way, speech, copies, channelOf,
                       call>>,
           \/ dispatcher' = dispatcher
           \/ dispatcher.at = "select" /\ dispatcher' = At("gone")
    PROVE  Proceeds
<1>0. PartsInv
  BY DEF Placed
<1>1. /\ subs' = [subs EXCEPT ![s] = [state |-> "closed", buffer |-> <<>>]]
      /\ UNCHANGED <<inbound, publishing>>
  BY DEF Unsubscribe
<1>2. /\ subs' \in [Subscribers -> Subscription]
      /\ subs'[s].buffer = <<>> /\ \A t \in Subscribers \ {s} : subs'[t] = subs[t]
  <2>1. subs \in [Subscribers -> Subscription]
    BY <1>0 DEF PartsInv
  <2>2. [state |-> "closed", buffer |-> <<>>] \in Subscription
    BY DEF Subscription
  <2> QED
    BY <1>1, <2>1, <2>2
<1>3. \A n : ~Holds(<<>>, n) /\ Once(<<>>, n)
  BY DEF Holds, Once
<1>4. \A n : \A t \in Subscribers : /\ Lies(n, t)' => Lies(n, t)
                                    /\ Once(subs[t].buffer, n) => Once(subs'[t].buffer, n)
  BY <1>2, <1>3 DEF Lies
<1>5. \A n : \A t \in Subscribers : Awaits(n, t)' <=> Awaits(n, t)
  BY <1>1 DEF Awaits
<1>6. /\ \A r \in Replies : dispatcher'.msg = r <=> dispatcher.msg = r
      /\ \A r \in Replies : dispatcher.msg = r => dispatcher' = dispatcher
      /\ dispatcher' \in Dispatching
      /\ (dispatcher'.at \in {"lookup", "sending"}) = (dispatcher'.msg \in Replies)
      /\ dispatcher' = dispatcher \/ call[Dispatcher].at = "idle"
  BY <1>0, NamesDiffer DEF PartsInv, At, Dispatching
<1>7. \A r \in Replies : Unaffected(r)
  BY <1>1, <1>4, <1>5, <1>6 DEF Unaffected, Early, BeingReceived, Last, BeingSent
<1>8. PartsInv'
  BY <1>0, <1>1, <1>2, <1>6 DEF PartsInv
<1>9. \A n \in Messages : Rests(n)
  BY <1>1 DEF Rests
<1> QED
  BY <1>7, <1>8, <1>9, QuietProceeds

(* A subscriber comes.                                                     *)
LEMMA ComingMoves ==
    ASSUME Placed, NEW s \in Subscribers, SubscribeOutbound(s),
           UNCHANGED <<unread, update, recording, agent, worker, way, speech, copies, channelOf,
                       call>>,
           \/ dispatcher' = dispatcher
           \/ dispatcher.at = "spawned" /\ dispatcher' = At("select")
    PROVE  Proceeds
<1>0. PartsInv
  BY DEF Placed
<1>1. /\ subs' = [subs EXCEPT ![s] = [subs[s] EXCEPT !.state = "listed"]]
      /\ UNCHANGED <<inbound, publishing>>
  BY DEF SubscribeOutbound
<1>2. /\ subs' \in [Subscribers -> Subscription]
      /\ \A t \in Subscribers : subs'[t].buffer = subs[t].buffer
  <2>1. subs \in [Subscribers -> Subscription]
    BY <1>0 DEF PartsInv
  <2>2. /\ [subs[s] EXCEPT !.state = "listed"] \in Subscription
        /\ [subs[s] EXCEPT !.state = "listed"].buffer = subs[s].buffer
    BY <2>1 DEF Subscription
  <2> QED
    BY <1>1, <2>1, <2>2
<1>3. \A n : \A t \in Subscribers : (Awaits(n, t)' <=> Awaits(n, t)) /\ (Lies(n, t)' <=> Lies(n, t))
  BY <1>1, <1>2 DEF Awaits, Lies
<1>4. /\ \A r \in Replies : dispatcher'.msg = r <=> dispatcher.msg = r
      /\ \A r \in Replies : dispatcher.msg = r => dispatcher' = dispatcher
      /\ dispatcher' \in Dispatching
      /\ (dispatcher'.at \in {"lookup", "sending"}) = (dispatcher'.msg \in Replies)
      /\ dispatcher' = dispatcher \/ call[Dispatcher].at = "idle"
  BY <1>0, NamesDiffer DEF PartsInv, At, Dispatching
<1>5. \A r \in Replies : Unaffected(r)
  BY <1>1, <1>2, <1>3, <1>4 DEF Unaffected, Early, BeingReceived, Last, BeingSent
<1>6. PartsInv'
  BY <1>0, <1>1, <1>2, <1>4 DEF PartsInv
<1>7. \A n \in Messages : Rests(n)
  BY <1>1 DEF Rests
<1> QED
  BY <1>5, <1>6, <1>7, QuietProceeds

(* Other steps leave all messages and replies where they are.              *)
LEMMA QuietMoves ==
    ASSUME Placed,
           UNCHANGED <<unread, recording, inbound, subs, publishing, worker, way, speech, copies,
                       channelOf, call>>,
           \/ update' = update
           \/ update.at # "indicating" /\ update'.at # "indicating" /\ update'.msg = None,
           \/ agent' = agent
           \/ agent.at # "acquire" /\ agent'.at # "acquire" /\ agent'.msg = None,
           \/ dispatcher' = dispatcher
           \/ dispatcher.at = "off" /\ dispatcher' = At("spawned")
    PROVE  Proceeds
<1>0. PartsInv
  BY DEF Placed
<1>1. \A n : \A t \in Subscribers : (Awaits(n, t)' <=> Awaits(n, t)) /\ (Lies(n, t)' <=> Lies(n, t))
  BY DEF Awaits, Lies
<1>2. /\ \A r \in Replies : dispatcher'.msg = r <=> dispatcher.msg = r
      /\ \A r \in Replies : dispatcher.msg = r => dispatcher' = dispatcher
      /\ dispatcher' \in Dispatching
      /\ (dispatcher'.at \in {"lookup", "sending"}) = (dispatcher'.msg \in Replies)
      /\ dispatcher' = dispatcher \/ call[Dispatcher].at = "idle"
  BY <1>0, NamesDiffer DEF PartsInv, At, Dispatching
<1>3. /\ \A n \in Messages : update'.msg = n <=> update.msg = n
      /\ (update'.at = "indicating") = (update'.msg \in Messages)
  BY <1>0, NamesDiffer DEF PartsInv
<1>4. /\ \A n \in Messages : agent'.msg = n <=> agent.msg = n
      /\ (agent'.at = "acquire") = (agent'.msg \in Messages)
  BY <1>0, NamesDiffer DEF PartsInv
<1>5. \A n \in Messages : Rests(n) /\ (Early(n)' <=> Early(n))
  BY <1>3, <1>4 DEF Rests, Early, BeingReceived
<1>6. \A r \in Replies : Unaffected(r)
  BY <1>1, <1>2, <1>5, NamesDiffer DEF Unaffected, Last, BeingSent
<1>7. PartsInv'
  BY <1>0, <1>2, <1>3, <1>4 DEF PartsInv
<1> QED
  BY <1>5, <1>6, <1>7, QuietProceeds
-----------------------------------------------------------------------------
(* gatewayCmd moves no message.                                            *)
LEMMA MainMoves ==
    ASSUME Placed, StartInv,
           MainStep \/ Signal \/ BridgeLost \/ UNCHANGED vars
           \/ \E c \in Configured : SummaryEnds(c)
    PROVE  Proceeds
<1>1. /\ UNCHANGED <<unread, recording, inbound, subs, publishing, worker, way, speech, copies,
                     channelOf, call>>
      /\ \/ update' = update
         \/ update.at # "indicating" /\ update'.at # "indicating" /\ update'.msg = None
      /\ \/ agent' = agent
         \/ agent.at # "acquire" /\ agent'.at # "acquire" /\ agent'.msg = None
      /\ \/ dispatcher' = dispatcher
         \/ dispatcher.at = "off" /\ dispatcher' = At("spawned")
  <2>1. CASE StartAll \/ StartAgentAndVoice
    BY <2>1 DEF StartAll, StartAgentAndVoice, VoiceStart, At, StartInv,
                managerVars, agentVars, channelVars, telegramVars, voiceVars, busVars,
                baseVars, worldVars
  <2>2. CASE StartTelegram
    BY <2>2 DEF StartTelegram, TelegramStart, UpdateLoop, StartInv, agentVars,
                voiceVars, busVars, worldVars
  <2>3. CASE \/ StartWhatsApp \/ StopTelegram \/ StopWhatsApp
             \/ AllStarted \/ StopAll \/ StopServices \/ Exit
    BY <2>3 DEF StartWhatsApp, StopTelegram, StopWhatsApp, AllStarted, StopAll,
                StopServices, VoiceStop, Exit, managerVars, agentVars, channelVars,
                telegramVars, voiceVars, busVars, baseVars, worldVars
  <2>4. CASE Signal \/ BridgeLost \/ UNCHANGED vars \/ \E c \in Configured : SummaryEnds(c)
    BY <2>4 DEF Signal, BridgeLost, ConnectionBreaks, SummaryEnds, vars, Outside,
                managerVars, agentVars, channelVars, telegramVars, voiceVars, busVars,
                baseVars, worldVars
  <2> QED
    BY <2>1, <2>2, <2>3, <2>4 DEF MainStep
<1> QED
  BY <1>1, QuietMoves

(* The dispatcher moves a reply, or comes, or leaves.                      *)
LEMMA DispatcherMoves ==
    ASSUME Placed, DispatcherStep
    PROVE  Proceeds
<1>0. "dispatcher" \in Subscribers
  BY BothServe DEF Servers
<1>1. CASE DispatcherSubscribes
  <2>1. SubscribeOutbound("dispatcher") /\ dispatcher.at = "spawned" /\ dispatcher' = At("select")
    BY <1>1 DEF DispatcherSubscribes
  <2>2. UNCHANGED <<unread, update, recording, agent, worker, way, speech, copies, channelOf, call>>
    BY <1>1 DEF DispatcherSubscribes, agentVars, channelVars, telegramVars, voiceVars,
                baseVars, worldVars
  <2> QED
    BY <1>0, <2>1, <2>2, ComingMoves
<1>2. CASE DispatcherEnds
  <2>1. Unsubscribe("dispatcher") /\ dispatcher.at = "select" /\ dispatcher' = At("gone")
    BY <1>2 DEF DispatcherEnds
  <2>2. UNCHANGED <<unread, update, recording, agent, worker, way, speech, copies, channelOf, call>>
    BY <1>2 DEF DispatcherEnds, agentVars, channelVars, telegramVars, voiceVars, baseVars,
                worldVars
  <2> QED
    BY <1>0, <2>1, <2>2, LeavingMoves
<1> QED
  BY <1>1, <1>2, DispatcherReceivesMoves, LookupMoves, SendReturnsMoves DEF DispatcherStep

(* Run and the workers move a message, or say something in return.         *)
LEMMA AgentMoves ==
    ASSUME Placed,
           \/ RunStep
           \/ \E m \in Messages : WorkerStep(m)
           \/ \E r \in Replies : PublishStep(r)
    PROVE  Proceeds
<1>1. CASE RunBegins \/ RunIsWoken
  <2>1. /\ UNCHANGED <<unread, update, recording, inbound, subs, publishing, worker, way, speech,
                       copies, dispatcher, channelOf, call>>
        /\ agent.at # "acquire" /\ agent'.at # "acquire" /\ agent'.msg = None
    BY <1>1 DEF RunBegins, RunIsWoken, NextRound, At, managerVars, channelVars,
                telegramVars, voiceVars, busVars, baseVars, worldVars
  <2> QED
    BY <2>1, QuietMoves
<1>2. CASE RunConsumes \/ AcquireWorker
  BY <1>2, RunConsumesMoves, AcquireWorkerMoves
<1>3. ASSUME NEW m \in Messages, WorkerStep(m) PROVE Proceeds
  BY <1>3, CallMessageToolMoves, TurnMoves, PublishMoves DEF WorkerStep
<1>4. ASSUME NEW r \in Replies, PublishStep(r) PROVE Proceeds
  BY <1>4, PublishGoesOnMoves, ReplyPublishedMoves DEF PublishStep
<1> QED
  BY <1>1, <1>2, <1>3, <1>4 DEF RunStep

(* The channels move a message or a reply.                                 *)
LEMMA ChannelMoves ==
    ASSUME Placed, TelegramStep \/ WhatsAppStep \/ \E c \in Callers : SendStep(c)
    PROVE  Proceeds
<1>1. CASE \/ WhatsAppStep
           \/ TelegramStep /\ (UpdateLoopEnds \/ \E m \in Messages : IndicatorEnds(m))
  <2>1. /\ UNCHANGED <<unread, recording, inbound, subs, publishing, worker, way, speech, copies,
                       dispatcher, channelOf, call, agent>>
        /\ \/ update' = update
           \/ update.at # "indicating" /\ update'.at # "indicating" /\ update'.msg = None
    BY <1>1 DEF WhatsAppStep, ReadFails, ListenEnds, TelegramStep, UpdateLoopEnds, UpdateLoop,
                IndicatorEnds, Outside, managerVars, agentVars,
                telegramVars, voiceVars, busVars, baseVars, worldVars
  <2> QED
    BY <2>1, QuietMoves
<1>2. CASE TelegramStep /\ StartTypingIndicator
  BY <1>2, StartTypingMoves DEF TelegramStep
<1>3. ASSUME NEW c \in Callers, SendStep(c) PROVE Proceeds
  BY <1>3, TelegramMoves, WhatsAppMoves DEF SendStep
<1> QED
  BY <1>1, <1>2, <1>3 DEF TelegramStep, TelegramLoop

(* The voice pipeline moves one, or comes, or leaves.                      *)
LEMMA VoiceMoves ==
    ASSUME Placed, VoicePart
    PROVE  Proceeds
<1>0. "voice" \in Subscribers
  BY BothServe DEF Servers
<1>1. UNCHANGED <<Outside, telegramVars, whatsAppVars>>
  BY DEF VoicePart
<1>2. UNCHANGED <<update, agent, worker, way, dispatcher>>
  BY <1>1 DEF Outside, managerVars, agentVars, telegramVars
<1>3. CASE RecordLoopEnds
  BY <1>2, <1>3, QuietMoves DEF RecordLoopEnds, busVars, baseVars, worldVars
<1>4. CASE HandleOutboundStarts
  BY <1>0, <1>2, <1>4, ComingMoves DEF HandleOutboundStarts, baseVars, worldVars
<1>5. CASE HandleOutboundEnds
  BY <1>0, <1>2, <1>5, LeavingMoves DEF HandleOutboundEnds, baseVars, worldVars
<1>6. CASE HandleOutboundReceives
  BY <1>1, <1>6, VoiceReceivesMoves
<1>7. ASSUME NEW m \in Messages, NothingToSend(m) \/ ProcessRecording(m) PROVE Proceeds
  BY <1>1, <1>7, RecordingMoves
<1>8. ASSUME NEW r \in Replies, SpeakResponse(r) PROVE Proceeds
  BY <1>1, <1>8, SpeakMoves
<1> QED
  BY <1>3, <1>4, <1>5, <1>6, <1>7, <1>8 DEF VoicePart, VoiceStep

(* That is all that happens.                                               *)
LEMMA NextMoves ==
    ASSUME WayInv, [Next]_vars
    PROVE  Proceeds /\ (Alive' => Alive)
<1>1. Placed /\ StartInv
  BY DEF WayInv, Placed
<1>2. ASSUME NEW m \in Messages, Arrives(m) PROVE Proceeds
  BY <1>1, <1>2, PollUpdatesMoves, ReadMessageMoves, RecordMoves DEF Arrives
<1>3. Proceeds
  BY <1>1, <1>2, MainMoves, DispatcherMoves, AgentMoves, ChannelMoves, VoiceMoves
  DEF Next, SystemStep
<1>4. Alive' => Alive
  BY DEF Next, vars, Alive, channelVars, whatsAppVars
<1> QED
  BY <1>3, <1>4

(* What is to be started is off when it is started.                        *)
LEMMA StartKept ==
    ASSUME StartInv, [Next]_vars
    PROVE  StartInv'
<1>1. CASE /\ UNCHANGED <<main, mu, starting>>
           /\ dispatcher.at = "off" => dispatcher'.at = "off"
           /\ update.at = "off" => update'.at = "off"
           /\ agent.at = "off" => agent'.at = "off"
  BY <1>1 DEF StartInv
<1>2. CASE MainStep
  <2>1. CASE StartAll
    BY <2>1 DEF StartAll, StartInv, agentVars, channelVars, telegramVars, managerVars
  <2>2. CASE StartTelegram
    BY <2>2 DEF StartTelegram, StartInv, agentVars
  <2>3. CASE StartWhatsApp \/ StopTelegram \/ StopWhatsApp
    BY <2>3 DEF StartWhatsApp, StopTelegram, StopWhatsApp, StartInv, agentVars,
                channelVars, telegramVars
  <2>4. CASE AllStarted \/ StartAgentAndVoice
    BY <2>4 DEF AllStarted, StartAgentAndVoice, StartInv, agentVars, channelVars,
                telegramVars, managerVars
  <2>5. CASE StopServices \/ StopAll \/ Exit
    BY <2>5 DEF StopServices, StopAll, Exit, StartInv, agentVars, channelVars,
                telegramVars, managerVars
  <2> QED
    BY <1>2, <2>1, <2>2, <2>3, <2>4, <2>5 DEF MainStep
<1>3. CASE Signal
  BY <1>3 DEF Signal, StartInv, managerVars, agentVars, channelVars, telegramVars
<1>4. CASE DispatcherStep
  BY <1>1, <1>4 DEF DispatcherStep, DispatcherSubscribes, DispatcherReceives, Lookup,
                    SendReturns, DispatcherEnds, agentVars, channelVars, telegramVars
<1>5. CASE \/ RunStep
           \/ \E m \in Messages : WorkerStep(m)
           \/ \E r \in Replies : PublishStep(r)
  BY <1>1, <1>5 DEF RunStep, RunBegins, RunIsWoken, RunConsumes, AcquireWorker, WorkerStep,
                    CallMessageTool, MessageToolReturns, NoAnswer, Notify, PublishAnswer,
                    PublishStep, PublishGoesOn, ReplyPublished, agentVars, managerVars,
                    channelVars, telegramVars
<1>6. CASE TelegramStep
  BY <1>1, <1>6 DEF TelegramStep, TelegramLoop, UpdateLoopEnds, StartTypingIndicator,
                    IndicatorEnds, Outside, managerVars, agentVars
<1>7. ASSUME NEW c \in Callers, SendStep(c) PROVE StartInv'
  BY <1>1, <1>7 DEF SendStep, TelegramSending, TelegramSendRefused, TelegramSend, StopTyping,
                    ForgetTyping, Outside, managerVars, agentVars, telegramVars
<1>8. ASSUME NEW m \in Messages, Arrives(m) PROVE StartInv'
  BY <1>1, <1>8 DEF Arrives, PollUpdates, Outside, managerVars, agentVars, telegramVars
<1>9. CASE WhatsAppStep \/ BridgeLost \/ VoicePart \/ UNCHANGED vars
           \/ \E c \in Configured : SummaryEnds(c)
  BY <1>1, <1>9 DEF WhatsAppStep, BridgeLost, VoicePart, SummaryEnds, vars, Outside,
                    managerVars, agentVars, channelVars, telegramVars
<1> QED
  BY <1>2, <1>3, <1>4, <1>5, <1>6, <1>7, <1>8, <1>9 DEF Next, SystemStep

(* Every message is unread at first, and nothing is said.                  *)
LEMMA WayInit == Init => WayInv
<1> SUFFICES ASSUME Init PROVE WayInv
  OBVIOUS
<1>1. /\ unread = Messages /\ inbound = <<>> /\ publishing = <<>> /\ DOMAIN publishing = {}
      /\ channelOf \in [Messages -> {"telegram", "whatsapp", "voice", "none"}]
      /\ subs = [s \in Subscribers |-> [state |-> "none", buffer |-> <<>>]]
      /\ copies = [r \in Replies |-> 0] /\ way = [r \in Replies |-> "none"]
      /\ call = [c \in Callers |-> Idle]
      /\ recording = [m \in Messages |-> "none"] /\ worker = [m \in Messages |-> "none"]
      /\ speech = [r \in Replies |-> "none"]
      /\ update.at = "off" /\ update.msg = None /\ agent.at = "off" /\ agent.msg = None
      /\ dispatcher = [at |-> "off", msg |-> None]
  BY GatewayAssumption DEF Init, BusInit, NoSubscription, BaseInit, VoiceInit, TelegramInit,
                           UpdateLoop, At
<1>2. \A n : ~Holds(<<>>, n) /\ Once(<<>>, n)
  BY DEF Holds, Once
<1>3. \A c \in Callers : call[c] = Idle /\ call[c].at = "idle"
  BY <1>1 DEF Idle
<1>4. PartsInv
  <2>1. <<>> \in Seq(Messages) /\ <<>> \in Seq(Replies) /\ Idle \in Calls
    BY DEF Calls
  <2>2. subs \in [Subscribers -> Subscription]
    BY <1>1, <2>1 DEF Subscription
  <2>3. worker \in [Messages -> WorkerStates] /\ call \in [Callers -> Calls]
    BY <1>1, <2>1 DEF WorkerStates
  <2>4. dispatcher \in Dispatching
    BY <1>1 DEF Dispatching
  <2>5. call[Dispatcher].at = "idle"
    BY <1>3, NamesDiffer
  <2> QED
    BY <1>1, <2>1, <2>2, <2>3, <2>4, <2>5, NamesDiffer DEF PartsInv
<1>5. StartInv
  BY DEF Init, TelegramInit, UpdateLoop, At, StartInv
<1>6. ASSUME NEW n \in Messages PROVE Apart(n)
  <2>1. ~BeingReceived(n) /\ ~Holds(inbound, n) /\ ~BeingHandled(n) /\ update.msg # n
    BY <1>1, <1>2, NamesDiffer DEF BeingReceived, BeingHandled
  <2>2. call[n].at = "idle" /\ agent.msg # n /\ Once(inbound, n)
    BY <1>1, <1>2, <1>3, NamesDiffer
  <2> QED
    BY <2>1, <2>2 DEF Apart
<1>7. ASSUME NEW r \in Replies PROVE Good(r)
  <2>1. \A s \in Subscribers : ~Awaits(r, s) /\ ~Lies(r, s) /\ Once(subs[s].buffer, r)
    BY <1>1, <1>2 DEF Awaits, Lies
  <2>2. /\ dispatcher.msg # r /\ speech[r] = "none" /\ way[r] = "none" /\ copies[r] = 0
        /\ call[ReplyTo[r]].at = "idle"
    BY <1>1, <1>3, NamesDiffer
  <2>3. ~UnderWay(r)
    BY <2>1, <2>2 DEF UnderWay, Buffered, Lies, Holds
  <2>4. MadeInv(r)
    BY <1>1, <2>2, <2>3 DEF MadeInv, BeingSent
  <2>5. InOneHand(r)
    BY <2>1, <2>2 DEF InOneHand
  <2>6. CopiesInv(r)
    BY <2>2 DEF CopiesInv
  <2> QED
    BY <2>4, <2>5, <2>6 DEF Good
<1> QED
  BY <1>4, <1>5, <1>6, <1>7 DEF WayInv

(* Every step keeps every message and every reply on its way.              *)
LEMMA WayKept == WayInv /\ [Next]_vars => WayInv'
BY NextMoves, StartKept DEF WayInv, Proceeds, Placed

(* The fate of a message is the place where it is.                         *)
LEMMA FateIsStage ==
    ASSUME NEW n \in Messages
    PROVE  /\ Fate(n) = IF n \in unread \/ Alive THEN Stage(n) ELSE Settled
           /\ Fate(n)' = IF n \in unread' \/ Alive' THEN Stage(n)' ELSE Settled
<1>1. Fate(n) = IF n \in unread \/ Alive THEN Stage(n) ELSE Settled
  BY DEF Fate, Stage, Holds
<1>2. Fate(n)' = IF n \in unread' \/ Alive' THEN Stage(n)' ELSE Settled
  BY DEF Fate, Stage, Holds
<1> QED
  BY <1>1, <1>2

(* Every step is one of the ledger's.                                      *)
LEMMA StepIsOfTheLedger == WayInv /\ [Next]_vars => [Ledger!Next]_(Ledger!vars)
<1> SUFFICES ASSUME WayInv, [Next]_vars PROVE Ledger!Next
  BY DEF Ledger!vars
<1>1. Step /\ (Alive' => Alive)
  BY NextMoves DEF Proceeds
<1> DEFINE fate == [m \in Messages |-> Fate(m)]
<1>2. \A n \in Messages : fate[n] = Fate(n) /\ fate'[n] = Fate(n)'
  OBVIOUS
<1>3. CASE Recedes
  <2>1. ASSUME NEW n \in Messages
        PROVE  fate'[n] \in {fate[n], Settled} /\ (fate[n] = Unread => fate'[n] = Unread)
               /\ fate'[n] \in Unread..Settled
    <3>1. Stage(n)' \in {Stage(n), Settled} /\ (n \in unread' <=> n \in unread)
      BY <1>3 DEF Recedes
    <3>2. /\ (n \in unread => Stage(n) = Unread) /\ (n \in unread' => Stage(n)' = Unread)
          /\ (n \notin unread => Stage(n) # Unread)
      BY DEF Stage, Unread, Received, Queued, Handled, Answered, Settled
    <3> QED
      BY <1>1, <1>2, <3>1, <3>2, FateIsStage, StageTyped DEF Unread, Settled
  <2>2. UNCHANGED <<way, copies>>
    BY <1>3 DEF Recedes
  <2>3. fate' \in [Messages -> Unread..Settled]
    BY <2>1
  <2> QED
    BY <2>1, <2>2, <2>3 DEF Ledger!Next, Ledger!GiveUp, Ledger!Unread, Ledger!Settled,
                            Unread, Settled
<1>4. CASE UNCHANGED <<fate, way, copies>>
  <2>1. \A n \in Messages : fate[n] \in Unread..Settled
    BY <1>2, FateIsStage, StageTyped DEF Unread, Settled
  <2> QED
    BY <1>4, <2>1 DEF Ledger!Next, Ledger!GiveUp, Ledger!Unread, Ledger!Settled, Unread,
                      Settled
<1>5. CASE ~Alive
  <2>1. UNCHANGED vars
    BY <1>5 DEF Next
  <2>2. UNCHANGED <<unread, main, panicked, update, recording, inbound, agent, worker, way,
                    copies, subs, dispatcher, speech>>
    BY <2>1 DEF vars, channelVars, telegramVars, voiceVars, whatsAppVars, managerVars,
                agentVars, busVars, baseVars, worldVars
  <2>3. \A n \in Messages : Stage(n)' = Stage(n)
    BY <2>2 DEF Stage, BeingReceived, BeingHandled, BeingAnswered, UnderWay, Buffered
  <2> QED
    BY <1>3, <2>2, <2>3 DEF Recedes
<1>6. ASSUME Alive, UNCHANGED <<main, panicked>>
      PROVE  /\ \A n \in Messages : fate[n] = Stage(n) /\ fate'[n] = Stage(n)'
             /\ \A n \in Messages : fate[n] \in 0..5 /\ fate'[n] \in 0..5
  <2>1. Alive'
    BY <1>6 DEF Alive
  <2> QED
    BY <1>2, <1>6, <2>1, FateIsStage, StageTyped
<1>7. ASSUME Alive, UNCHANGED <<main, panicked>>, NEW m \in Messages, GetsOn(m)
      PROVE  Ledger!Next
  <2>1. /\ fate'[m] >= fate[m] /\ fate'[m] \in 0..5 /\ fate[m] \in 0..5
        /\ \A n \in Messages \ {m} : fate'[n] = fate[n]
        /\ UNCHANGED <<way, copies>>
    BY <1>6, <1>7 DEF GetsOn
  <2>2. CASE fate'[m] = fate[m]
    <3>1. fate' = fate
      BY <2>1, <2>2
    <3> QED
      BY <1>4, <2>1, <3>1
  <2>3. CASE fate'[m] > fate[m]
    <3>1. fate' = [fate EXCEPT ![m] = fate'[m]]
      BY <2>1
    <3>2. Ledger!Advance(m)
      BY <2>1, <2>3, <3>1 DEF Ledger!Advance, Ledger!Unread, Ledger!Settled, Unread, Settled
    <3> QED
      BY <3>2 DEF Ledger!Next
  <2> QED
    BY <2>1, <2>2, <2>3
<1>8. ASSUME Alive, UNCHANGED <<main, panicked>>, NEW r \in Replies, IsMade(r)
      PROVE  Ledger!Next
  <2>1. ReplyTo[r] \in Messages
    BY NamesDiffer
  <2>2. fate[ReplyTo[r]] = Handled /\ fate' = fate
    BY <1>6, <1>8, <2>1 DEF IsMade
  <2>3. Ledger!Make(r)
    BY <1>8, <2>2 DEF IsMade, Ledger!Make, Ledger!IsNext, Ledger!Handled, Handled
  <2> QED
    BY <2>3 DEF Ledger!Next
<1>9. ASSUME Alive, UNCHANGED <<main, panicked>>, NEW r \in Replies, IsShown(r)
      PROVE  Ledger!Next
  <2>1. ReplyTo[r] \in Messages
    BY NamesDiffer
  <2>2. /\ fate[ReplyTo[r]] = Stage(ReplyTo[r])
        /\ fate'[ReplyTo[r]] \in {fate[ReplyTo[r]], Settled}
        /\ \A n \in Messages \ {ReplyTo[r]} : fate'[n] = fate[n]
    BY <1>6, <1>9, <2>1 DEF IsShown
  <2>3. \/ UNCHANGED fate
        \/ fate' = [fate EXCEPT ![ReplyTo[r]] = Settled]
    BY <2>1, <2>2
  <2>4. /\ \/ way[r] = "sent" /\ fate[ReplyTo[r]] = Handled /\ Last(r)
           \/ way[r] = "published" /\ fate[ReplyTo[r]] \in {Handled, Answered}
        /\ copies[r] < 2
        /\ copies' = [copies EXCEPT ![r] = @ + 1]
        /\ UNCHANGED way
    BY <1>9, <2>2 DEF IsShown
  <2>5. Ledger!Show(r)
    BY <2>3, <2>4 DEF Last, Ledger!Show, Ledger!IsLast, Ledger!Handled, Ledger!Answered,
                      Ledger!Settled, Handled, Answered, Settled
  <2> QED
    BY <2>5 DEF Ledger!Next
<1> QED
  BY <1>1, <1>3, <1>5, <1>7, <1>8, <1>9 DEF Step

(* The ledger begins with everything unread, and nothing said.             *)
LEMMA LedgerInit == Init => Ledger!Init
<1> SUFFICES ASSUME Init PROVE Ledger!Init
  OBVIOUS
<1>1. \A m \in Messages : Fate(m) = Unread
  BY DEF Init, BaseInit, Fate
<1>2. copies = [r \in Replies |-> 0] /\ way = [r \in Replies |-> "none"]
  BY DEF Init, BaseInit
<1> QED
  BY <1>1, <1>2 DEF Ledger!Init, Ledger!Unread, Unread

(* Whatever goes on at once, a message goes one way, to one worker; each   *)
(* reply of its turn is shown at most twice, and one that the message tool *)
(* sends is shown before the turn makes the next.                          *)
THEOREM GatewayImplementsDelivery == Spec => ImplementsDelivery
<1>1. Spec => [](WayInv)
  BY WayInit, WayKept, PTL DEF Spec
<1> QED
  BY <1>1, LedgerInit, StepIsOfTheLedger, PTL DEF Spec, ImplementsDelivery, Ledger!Spec
-----------------------------------------------------------------------------
(* An offer keeps within the size of the buffer.                           *)
LEMMA OfferFits ==
    ASSUME NEW S, NEW q \in Seq(S), NEW k \in Nat, NEW m \in S, Len(q) <= k
    PROVE  Len(Offer(q, k, m)) <= k
BY DEF Offer

(* The bus's buffers are never longer than they were made.                 *)
BoundsInv ==
    /\ Len(inbound) <= InboundSize
    /\ \A s \in Subscribers : Len(subs[s].buffer) <= OutboundSize

(* What a step may do to the buffers.                                      *)
LEMMA BoundsKept ==
    ASSUME PartsInv, BoundsInv,
           \/ inbound' = inbound
           \/ inbound # <<>> /\ inbound' = Tail(inbound)
           \/ \E m \in Messages : inbound' = Offer(inbound, InboundSize, m),
           \/ subs' = subs
           \/ \E s \in Subscribers : SubscribeOutbound(s) \/ Unsubscribe(s) \/ Receive(s)
           \/ \E r \in Replies, s \in Subscribers : SendTo(r, s)
    PROVE  BoundsInv'
<1>0. /\ inbound \in Seq(Messages) /\ subs \in [Subscribers -> Subscription]
      /\ InboundSize \in Nat /\ OutboundSize \in Nat
  BY BusAssumption DEF PartsInv
<1>1. Len(inbound') <= InboundSize
  <2>1. CASE inbound # <<>> /\ inbound' = Tail(inbound)
    BY <1>0, <2>1 DEF BoundsInv
  <2>2. ASSUME NEW m \in Messages, inbound' = Offer(inbound, InboundSize, m)
        PROVE  Len(inbound') <= InboundSize
    BY <1>0, <2>2, OfferFits DEF BoundsInv
  <2> QED
    BY <2>1, <2>2 DEF BoundsInv
<1>2. ASSUME NEW s \in Subscribers, NEW u \in Subscription, subs' = [subs EXCEPT ![s] = u],
             Len(u.buffer) <= OutboundSize
      PROVE  \A t \in Subscribers : Len(subs'[t].buffer) <= OutboundSize
  <2>1. subs'[s] = u /\ \A t \in Subscribers \ {s} : subs'[t] = subs[t]
    BY <1>0, <1>2
  <2> QED
    BY <1>2, <2>1 DEF BoundsInv
<1>3. ASSUME NEW s \in Subscribers, NEW b \in Seq(Replies), subs' = [subs EXCEPT ![s].buffer = b],
             Len(b) <= OutboundSize
      PROVE  \A t \in Subscribers : Len(subs'[t].buffer) <= OutboundSize
  <2>1. subs'[s].buffer = b /\ \A t \in Subscribers \ {s} : subs'[t] = subs[t]
    BY <1>3, BufferChanges
  <2> QED
    BY <1>3, <2>1 DEF BoundsInv
<1>4. ASSUME NEW s \in Subscribers, SubscribeOutbound(s)
      PROVE  \A t \in Subscribers : Len(subs'[t].buffer) <= OutboundSize
  <2>1. subs' = [subs EXCEPT ![s] = [subs[s] EXCEPT !.state = "listed"]]
    BY <1>4 DEF SubscribeOutbound
  <2>2. [subs[s] EXCEPT !.state = "listed"] \in Subscription
        /\ [subs[s] EXCEPT !.state = "listed"].buffer = subs[s].buffer
    BY <1>0 DEF Subscription
  <2> QED
    BY <1>2, <2>1, <2>2 DEF BoundsInv
<1>5. ASSUME NEW s \in Subscribers, Unsubscribe(s)
      PROVE  \A t \in Subscribers : Len(subs'[t].buffer) <= OutboundSize
  <2>1. [state |-> "closed", buffer |-> <<>>] \in Subscription /\ Len(<<>>) <= OutboundSize
    BY <1>0 DEF Subscription
  <2> QED
    BY <1>2, <1>5, <2>1 DEF Unsubscribe
<1>6. ASSUME NEW s \in Subscribers, Receive(s)
      PROVE  \A t \in Subscribers : Len(subs'[t].buffer) <= OutboundSize
  <2>1. subs[s].buffer # <<>> /\ subs[s].buffer \in Seq(Replies)
        /\ Len(subs[s].buffer) <= OutboundSize
    BY <1>0, <1>6 DEF Receive, BoundsInv, Subscription
  <2>2. Tail(subs[s].buffer) \in Seq(Replies) /\ Len(Tail(subs[s].buffer)) <= OutboundSize
    BY <1>0, <2>1
  <2> QED
    BY <1>3, <1>6, <2>2 DEF Receive
<1>7. ASSUME NEW r \in Replies, NEW s \in Subscribers, SendTo(r, s)
      PROVE  \A t \in Subscribers : Len(subs'[t].buffer) <= OutboundSize
  <2>1. subs[s].buffer \in Seq(Replies) /\ Len(subs[s].buffer) <= OutboundSize
    BY <1>0 DEF BoundsInv, Subscription
  <2>2. /\ Offer(subs[s].buffer, OutboundSize, r) \in Seq(Replies)
        /\ Len(Offer(subs[s].buffer, OutboundSize, r)) <= OutboundSize
    <3>1. Len(Offer(subs[s].buffer, OutboundSize, r)) <= OutboundSize
      BY <1>0, <2>1 DEF Offer
    <3> QED
      BY <2>1, <3>1, OfferOut
  <2> QED
    BY <1>3, <1>7, <2>2 DEF SendTo
<1> QED
  BY <1>1, <1>4, <1>5, <1>6, <1>7 DEF BoundsInv

(* Where the goroutines are, and what they share, apart from the messages. *)
PlacesInv ==
    /\ update.at \in {"off", "polling", "indicating", "gone"}
    /\ stopThinking \in Messages \cup {None}
    /\ indicator \in [Messages -> {"none", "typing", "cancelled"}]
    /\ WhatsAppTypeOK
    /\ voiceRunning \in BOOLEAN /\ stopClosed \in BOOLEAN
    /\ recorder \in {"off", "recording", "gone"}
    /\ speaker \in {"off", "spawned", "listening", "gone"}
    /\ main \in {"starting", "channels", "agent", "up", "cancelled", "waitAgent",
                 "stopping", "exited"}
    /\ mu \in {"free", "StartAll", "StopAll"}
    /\ starting \subseteq Managed
    /\ agent.at \in {"off", "spawned", "select", "acquire", "gone"}
    /\ agentRunning \in BOOLEAN
    /\ summarizing \subseteq Configured

AllTypes == WayInv /\ SubscriptionsInv /\ BoundsInv /\ PlacesInv

(* So it is at first.                                                      *)
LEMMA AllTypesInit == Init => AllTypes
<1> SUFFICES ASSUME Init PROVE AllTypes
  OBVIOUS
<1>1. BoundsInv
  BY BusAssumption DEF Init, BusInit, NoSubscription, BoundsInv
<1>2. PlacesInv
  <2>1. WhatsAppTypeOK
    <3>1. conn = "none" /\ listener = "off" /\ failedReads \in 0..MaxFailedReads
      BY WhatsAppAssumption DEF Init, WhatsAppInit
    <3>2. panicked \in BOOLEAN
      BY Zenon DEF Init, WhatsAppInit
    <3> QED
      BY <3>1, <3>2 DEF WhatsAppTypeOK
  <2>2. /\ voiceRunning \in BOOLEAN /\ stopClosed \in BOOLEAN /\ agentRunning \in BOOLEAN
    BY Zenon DEF Init, VoiceInit
  <2>3. /\ recorder = "off" /\ speaker = "off" /\ main = "starting" /\ mu = "free"
        /\ starting = {} /\ summarizing = {} /\ agent.at = "off" /\ update.at = "off"
        /\ stopThinking = None /\ indicator = [m \in Messages |-> "none"]
    BY DEF Init, TelegramInit, VoiceInit, UpdateLoop, At
  <2> QED
    BY <2>1, <2>2, <2>3 DEF PlacesInv
<1> QED
  BY <1>1, <1>2, WayInit, NobodyPublishes DEF AllTypes

(* No step of the gateway makes a buffer too long.                         *)
LEMMA BusNext ==
    ASSUME WayInv, BoundsInv, [Next]_vars
    PROVE  BoundsInv'
<1>1. \/ inbound' = inbound
      \/ inbound # <<>> /\ inbound' = Tail(inbound)
      \/ \E m \in Messages : inbound' = Offer(inbound, InboundSize, m)
  <2>1. CASE MainStep \/ Signal \/ BridgeLost \/ UNCHANGED vars
             \/ \E c \in Configured : SummaryEnds(c)
    BY <2>1 DEF MainStep, StartAll, StartTelegram, StartWhatsApp, AllStarted,
                StartAgentAndVoice, StopServices, StopAll, StopTelegram, StopWhatsApp,
                Exit, Signal, BridgeLost, ConnectionBreaks, SummaryEnds, vars, busVars
  <2>2. CASE DispatcherStep
    BY <2>2 DEF DispatcherStep, DispatcherSubscribes, DispatcherReceives, Lookup, SendReturns,
       DispatcherEnds, SubscribeOutbound, Unsubscribe, Receive, busVars
  <2>3. CASE \/ RunStep
             \/ \E m \in Messages : WorkerStep(m)
             \/ \E r \in Replies : PublishStep(r)
    BY <2>3 DEF RunStep, RunBegins, RunIsWoken, RunConsumes, AcquireWorker, WorkerStep,
                CallMessageTool, MessageToolReturns, NoAnswer, Notify, PublishAnswer,
                PublishStep, PublishGoesOn, ReplyPublished, ConsumeInbound, BeginPublish, SendTo,
                EndPublish, busVars
  <2>4. CASE TelegramStep
    <3>1. update.at = "indicating" => update.msg \in Messages
      BY DEF WayInv, PartsInv
    <3> QED
      BY <2>4, <3>1 DEF TelegramStep, TelegramLoop, UpdateLoopEnds, StartTypingIndicator,
         IndicatorEnds, HandleMessage, PublishInbound, busVars
  <2>5. CASE WhatsAppStep \/ \E c \in Callers : SendStep(c)
    BY <2>5 DEF WhatsAppStep, ReadFails, ListenEnds, SendStep, TelegramSending,
                TelegramSendRefused, TelegramSend, StopTyping, ForgetTyping, WhatsAppSend,
                busVars
  <2>6. CASE VoicePart
    BY <2>6 DEF VoicePart, VoiceStep, RecordLoopEnds, HandleOutboundStarts,
                HandleOutboundReceives, HandleOutboundEnds, NothingToSend,
                ProcessRecording, SpeakResponse, PublishInbound, SubscribeOutbound,
                Unsubscribe, Receive, busVars
  <2>7. ASSUME NEW m \in Messages, Arrives(m)
        PROVE  inbound' = inbound \/ inbound' = Offer(inbound, InboundSize, m)
    BY <2>7 DEF Arrives, PollUpdates, ReadMessage, Record, HandleMessage, PublishInbound,
                busVars
  <2> QED
    BY <2>1, <2>2, <2>3, <2>4, <2>5, <2>6, <2>7 DEF Next, SystemStep
<1>2. OnTheBus
  BY PartsUseTheBus
<1>3. \/ subs' = subs
      \/ \E s \in Subscribers : SubscribeOutbound(s) \/ Unsubscribe(s) \/ Receive(s)
      \/ \E r \in Replies, s \in Subscribers : SendTo(r, s)
  BY <1>2 DEF OnTheBus, BeginPublish, EndPublish
<1> QED
  BY <1>1, <1>3, BoundsKept DEF WayInv

(* Every goroutine goes from one of its places to another.                 *)
LEMMA PlacesKept ==
    ASSUME WayInv, PlacesInv, [Next]_vars
    PROVE  PlacesInv'
<1>0. /\ PlacesInv /\ WhatsAppTypeOK /\ PartsInv
      /\ Configured' = Configured /\ Managed' = Managed
  <2>1. channelOf' = channelOf
    <3>1. CASE MainStep \/ DispatcherStep \/ Signal
      BY <3>1 DEF MainStep, StartAll, StartTelegram, StartWhatsApp, AllStarted,
                  StartAgentAndVoice, StopServices, StopAll, StopTelegram, StopWhatsApp,
                  Exit, Signal, DispatcherStep, DispatcherSubscribes, DispatcherReceives,
                  Lookup, SendReturns, DispatcherEnds, baseVars, worldVars
    <3>2. CASE \/ RunStep
               \/ \E m \in Messages : WorkerStep(m)
               \/ \E r \in Replies : PublishStep(r)
               \/ \E c \in Configured : SummaryEnds(c)
      BY <3>2 DEF RunStep, RunBegins, RunIsWoken, RunConsumes, AcquireWorker, WorkerStep,
                  SummaryEnds, CallMessageTool, MessageToolReturns, NoAnswer,
                  Notify, PublishAnswer, PublishStep, PublishGoesOn, ReplyPublished,
                  baseVars, worldVars
    <3>3. CASE TelegramStep \/ WhatsAppStep \/ BridgeLost \/ UNCHANGED vars
      BY <3>3 DEF TelegramStep, TelegramLoop, UpdateLoopEnds, StartTypingIndicator,
         IndicatorEnds, WhatsAppStep, ReadFails, ListenEnds, BridgeLost, ConnectionBreaks,
         vars, baseVars, worldVars
    <3>4. CASE VoicePart
      BY <3>4 DEF VoicePart, VoiceStep, RecordLoopEnds, HandleOutboundStarts,
                  HandleOutboundReceives, HandleOutboundEnds, NothingToSend,
                  ProcessRecording, SpeakResponse, baseVars, worldVars
    <3>5. ASSUME NEW c \in Callers, SendStep(c) PROVE channelOf' = channelOf
      BY <3>5 DEF SendStep, TelegramSending, TelegramSendRefused,
         TelegramSend, StopTyping, ForgetTyping, WhatsAppSend, baseVars, worldVars
    <3>6. ASSUME NEW m \in Messages, Arrives(m) PROVE channelOf' = channelOf
      BY <3>6 DEF Arrives, PollUpdates, ReadMessage, Record
    <3> QED
      BY <3>1, <3>2, <3>3, <3>4, <3>5, <3>6 DEF Next, SystemStep
  <2> QED
    BY <2>1 DEF Configured, Managed, PlacesInv, WayInv
<1>1. CASE MainStep
  <2>1. CASE StartAll
    BY <1>0, <2>1 DEF StartAll, PlacesInv, WhatsAppTypeOK, agentVars, managerVars, channelVars,
       telegramVars, whatsAppVars, voiceVars
  <2>2. CASE StartTelegram
    BY <1>0, <2>2 DEF StartTelegram, TelegramStart, UpdateLoop, PlacesInv, WhatsAppTypeOK,
                      agentVars, whatsAppVars, voiceVars
  <2>3. CASE StartWhatsApp
    BY <1>0, <2>3 DEF StartWhatsApp, WhatsAppStart, PlacesInv, WhatsAppTypeOK, agentVars,
       whatsAppVars, voiceVars, telegramVars
  <2>4. CASE StopTelegram
    BY <1>0, <2>4 DEF StopTelegram, PlacesInv, WhatsAppTypeOK, agentVars,
       channelVars, whatsAppVars, voiceVars, telegramVars
  <2>5. CASE StopWhatsApp
    BY <1>0, <2>5 DEF StopWhatsApp, WhatsAppStop, PlacesInv, WhatsAppTypeOK, agentVars,
       voiceVars, telegramVars
  <2>6. CASE AllStarted \/ StopAll \/ Exit
    BY <1>0, <2>6 DEF AllStarted, StopAll, Exit, PlacesInv, WhatsAppTypeOK, agentVars,
                      managerVars, channelVars, telegramVars, whatsAppVars, voiceVars
  <2>7. CASE StartAgentAndVoice
    <3>1. voiceRunning' \in BOOLEAN /\ stopClosed' \in BOOLEAN /\ agentRunning' \in BOOLEAN
      BY <1>0, <2>7, Zenon DEF StartAgentAndVoice, VoiceStart, PlacesInv, voiceVars
    <3>2. /\ recorder' \in {recorder, "recording"} /\ speaker' \in {speaker, "spawned"}
          /\ main' = "up" /\ agent'.at = "spawned"
          /\ UNCHANGED <<mu, starting, summarizing, telegramVars, whatsAppVars>>
      BY <2>7 DEF StartAgentAndVoice, VoiceStart, At, managerVars, voiceVars
    <3> QED
      BY <1>0, <3>1, <3>2 DEF PlacesInv, WhatsAppTypeOK, telegramVars, whatsAppVars
  <2>8. CASE StopServices
    <3>1. voiceRunning' \in BOOLEAN /\ stopClosed' \in BOOLEAN /\ agentRunning' \in BOOLEAN
      BY <1>0, <2>8, Zenon DEF StopServices, VoiceStop, PlacesInv, voiceVars
    <3>2. UNCHANGED <<recorder, speaker, mu, starting, agent, summarizing,
                      telegramVars, whatsAppVars>>
          /\ main' = "waitAgent"
      BY <2>8 DEF StopServices, VoiceStop, managerVars, voiceVars
    <3> QED
      BY <1>0, <3>1, <3>2 DEF PlacesInv, WhatsAppTypeOK, telegramVars, whatsAppVars
  <2> QED
    BY <1>1, <2>1, <2>2, <2>3, <2>4, <2>5, <2>6, <2>7, <2>8 DEF MainStep
<1>2. CASE Signal
  BY <1>0, <1>2 DEF Signal, PlacesInv, WhatsAppTypeOK, agentVars, managerVars, channelVars,
       telegramVars, whatsAppVars, voiceVars
<1>3. CASE DispatcherStep
  BY <1>0, <1>3 DEF DispatcherStep, DispatcherSubscribes, DispatcherReceives, Lookup,
                    SendReturns, DispatcherEnds, PlacesInv, WhatsAppTypeOK, agentVars,
                    channelVars, telegramVars, whatsAppVars, voiceVars
<1>4. CASE RunStep
  <2>1. agent'.at \in {"off", "spawned", "select", "acquire", "gone"} /\ agentRunning' \in BOOLEAN
    <3>1. agentRunning' \in BOOLEAN
      BY <1>0, <1>4, Zenon DEF RunStep, RunBegins, RunIsWoken, RunConsumes, AcquireWorker,
                               PlacesInv
    <3>2. \A b : NextRound(b).at \in {"select", "gone"}
      BY DEF NextRound, At
    <3>3. \A m : With("acquire", m).at = "acquire"
      BY DEF With
    <3> QED
      BY <1>4, <3>1, <3>2, <3>3 DEF RunStep, RunBegins, RunIsWoken, RunConsumes, AcquireWorker
  <2>2. UNCHANGED <<main, mu, starting, summarizing, channelVars>>
    BY <1>4 DEF RunStep, RunBegins, RunIsWoken, RunConsumes, AcquireWorker, managerVars
  <2> QED
    BY <1>0, <2>1, <2>2 DEF PlacesInv, WhatsAppTypeOK, channelVars, telegramVars,
                            whatsAppVars, voiceVars
<1>5. ASSUME NEW m \in Messages, WorkerStep(m) PROVE PlacesInv'
  <2>1. summarizing' \in {summarizing, summarizing \cup {channelOf[m]}}
        /\ UNCHANGED <<main, mu, starting, agent, agentRunning, channelVars>>
    BY <1>5 DEF WorkerStep, CallMessageTool, MessageToolReturns, NoAnswer, Notify,
                PublishAnswer, AfterMessageTool, TurnEnds, MaySummarize, agentVars, managerVars
  <2>2. channelOf[m] \in Configured
    BY DEF Configured
  <2> QED
    BY <1>0, <2>1, <2>2 DEF PlacesInv, WhatsAppTypeOK, channelVars, telegramVars,
                            whatsAppVars, voiceVars
<1>6. ASSUME UNCHANGED <<Outside, whatsAppVars, voiceVars>>,
             update'.at \in {"off", "polling", "indicating", "gone"},
             stopThinking' \in Messages \cup {None},
             indicator' \in [Messages -> {"none", "typing", "cancelled"}]
      PROVE  PlacesInv'
  BY <1>0, <1>6 DEF PlacesInv, WhatsAppTypeOK, Outside, managerVars, agentVars,
                    whatsAppVars, voiceVars
<1>7. CASE TelegramStep
  <2>1. update.at = "indicating" => update.msg \in Messages
    BY <1>0 DEF PartsInv
  <2> QED
    BY <1>0, <1>6, <1>7, <2>1 DEF TelegramStep, TelegramLoop, UpdateLoopEnds,
                                  StartTypingIndicator, IndicatorEnds, UpdateLoop,
                                  PlacesInv
<1>8. \A m : m \in Messages => Cancelled(m) \in [Messages -> {"none", "typing", "cancelled"}]
  BY <1>0 DEF Cancelled, PlacesInv
<1>9. ASSUME NEW c \in Callers, SendStep(c) PROVE PlacesInv'
  <2>1. CASE TelegramSending(c) /\ UNCHANGED <<Outside, whatsAppVars, voiceVars>>
    BY <1>0, <1>6, <1>8, <2>1 DEF TelegramSending, TelegramSendRefused,
         TelegramSend, StopTyping, ForgetTyping, telegramVars, PlacesInv
  <2>2. CASE WhatsAppSend(c) /\ UNCHANGED <<Outside, telegramVars, voiceVars>>
    BY <1>0, <2>2 DEF WhatsAppSend, PlacesInv, WhatsAppTypeOK, Outside, managerVars, agentVars,
       telegramVars, whatsAppVars, voiceVars
  <2> QED
    BY <1>9, <2>1, <2>2 DEF SendStep
<1>10. ASSUME NEW m \in Messages, Arrives(m) PROVE PlacesInv'
  <2>1. CASE PollUpdates(m) /\ UNCHANGED <<Outside, whatsAppVars, voiceVars>>
    BY <1>0, <1>6, <1>8, <2>1 DEF PollUpdates, UpdateLoop, PlacesInv
  <2>2. CASE ReadMessage(m) /\ UNCHANGED <<Outside, telegramVars, voiceVars>>
    BY <1>0, <2>2 DEF ReadMessage, PlacesInv, WhatsAppTypeOK, Outside, managerVars, agentVars,
       telegramVars, whatsAppVars, voiceVars
  <2>3. CASE Record(m) /\ UNCHANGED <<Outside, telegramVars, whatsAppVars>>
    BY <1>0, <2>3 DEF Record, PlacesInv, WhatsAppTypeOK, Outside, managerVars, agentVars,
       telegramVars, whatsAppVars
  <2> QED
    BY <1>10, <2>1, <2>2, <2>3 DEF Arrives
<1>11. CASE WhatsAppStep \/ BridgeLost
  <2>1. panicked' \in BOOLEAN
    BY <1>0, <1>11, Zenon DEF WhatsAppStep, ReadFails, ListenEnds, BridgeLost, ConnectionBreaks,
       WhatsAppTypeOK
  <2>2. /\ conn' \in {conn, "broken"} /\ listener' \in {listener, "gone"}
        /\ failedReads' \in 0..MaxFailedReads
    BY <1>0, <1>11, WhatsAppAssumption DEF WhatsAppStep, ReadFails, ListenEnds, BridgeLost,
       ConnectionBreaks, WhatsAppTypeOK
  <2>3. UNCHANGED <<Outside, telegramVars, voiceVars>>
    BY <1>11 DEF WhatsAppStep, BridgeLost
  <2> QED
    BY <1>0, <2>1, <2>2, <2>3
    DEF PlacesInv, WhatsAppTypeOK, Outside, managerVars, agentVars, telegramVars, voiceVars
<1>12. CASE VoicePart
  BY <1>0, <1>12 DEF VoicePart, VoiceStep, RecordLoopEnds, HandleOutboundStarts,
                     HandleOutboundReceives, HandleOutboundEnds, NothingToSend,
                     ProcessRecording, SpeakResponse, PlacesInv, WhatsAppTypeOK, Outside,
                     managerVars, agentVars, telegramVars, whatsAppVars
<1>13. CASE \/ UNCHANGED vars
            \/ \E c \in Configured : SummaryEnds(c)
            \/ \E r \in Replies : PublishStep(r)
  BY <1>0, <1>13 DEF SummaryEnds, PublishStep, PublishGoesOn, ReplyPublished, vars, PlacesInv,
                     WhatsAppTypeOK, managerVars, agentVars, channelVars, telegramVars,
                     whatsAppVars, voiceVars
<1> QED
  BY <1>1, <1>2, <1>3, <1>4, <1>5, <1>7, <1>9, <1>10, <1>11, <1>12, <1>13 DEF Next, SystemStep

(* What a variable of the gateway holds.                                   *)
THEOREM GatewayTypeCorrect == Spec => []TypeOK
<1>1. AllTypes /\ [Next]_vars => AllTypes'
  BY WayKept, BusNext, PlacesKept, BusKeeps, PartsUseTheBus DEF AllTypes
<1>2. AllTypes => TypeOK
  <2> SUFFICES ASSUME AllTypes PROVE TypeOK
    OBVIOUS
  <2>1. PartsInv /\ PlacesInv /\ SubscriptionsInv /\ BoundsInv /\ \A r \in Replies : CopiesInv(r)
    BY DEF AllTypes, WayInv, Good
  <2>2. BusTypeOK
    BY <2>1 DEF PartsInv, SubscriptionsInv, BoundsInv, BusTypeOK, Subscription
  <2>3. BaseTypeOK
    <3>1. copies \in [Replies -> 0..2]
      BY <2>1 DEF PartsInv, CopiesInv
    <3> QED
      BY <2>1, <3>1 DEF PartsInv, Calls, BaseTypeOK
  <2>4. TelegramTypeOK /\ WhatsAppTypeOK
    BY <2>1 DEF PartsInv, PlacesInv, TelegramTypeOK
  <2>5. VoiceTypeOK
    BY <2>1 DEF PartsInv, PlacesInv, VoiceTypeOK
  <2> QED
    BY <2>1, <2>2, <2>3, <2>4, <2>5
    DEF PartsInv, PlacesInv, Dispatching, WorkerStates, TypeOK
<1> QED
  BY AllTypesInit, <1>1, <1>2, PTL DEF Spec
====
