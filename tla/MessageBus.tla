------------------------------ MODULE MessageBus ------------------------------
(***************************************************************************)
(* pkg/bus/bus.go: the inbound queue that the agent loop drains, and the   *)
(* outbound subscriptions.  Both are bounded, and what does not fit is     *)
(* dropped.  A publisher holds the read lock from the reading of the list  *)
(* of subscriptions to its last send; Subscribe and Unsubscribe take the   *)
(* write lock.  Users' messages go in, and the replies of turns go out.    *)
(* Close has no caller in the program.                                     *)
(***************************************************************************)
EXTENDS Naturals, Sequences, FiniteSets, TLC

CONSTANTS
    Messages,       \* what users say, numbered
    Replies,        \* what is said to them in return, numbered
    Subscribers,    \* the goroutines that subscribe to what is sent out
    InboundSize,    \* 1024 in the code
    OutboundSize    \* 1024 in the code

ASSUME BusAssumption ==
    /\ Messages \subseteq Nat /\ Replies \subseteq Nat
    /\ InboundSize \in Nat /\ OutboundSize \in Nat

VARIABLES
    inbound,        \* mb.inbound
    subs,           \* per subscriber: whether listed in outboundSubs, or closed, and its buffer
    publishing      \* the replies whose publishers hold the read lock, and to whom each has still to go

busVars == <<inbound, subs, publishing>>

NoSubscription == [state |-> "none", buffer |-> <<>>]

BusInit ==
    /\ inbound = <<>>
    /\ subs = [s \in Subscribers |-> NoSubscription]
    /\ publishing = <<>>

BusTypeOK ==
    /\ inbound \in Seq(Messages)
    /\ Len(inbound) <= InboundSize
    /\ subs \in [Subscribers -> [state : {"none", "listed", "closed"}, buffer : Seq(Replies)]]
    /\ \A s \in Subscribers : Len(subs[s].buffer) <= OutboundSize
    /\ DOMAIN publishing \subseteq Replies
    /\ \A r \in DOMAIN publishing : publishing[r] \subseteq Subscribers

\* Append, unless the buffer is full: then the item is dropped.
Offer(buffer, size, item) == IF Len(buffer) < size THEN Append(buffer, item) ELSE buffer

PublishInbound(m) ==
    /\ inbound' = Offer(inbound, InboundSize, m)
    /\ UNCHANGED <<subs, publishing>>

\* The receiving branch of ConsumeInbound's select.
ConsumeInbound ==
    /\ inbound # <<>>
    /\ inbound' = Tail(inbound)
    /\ UNCHANGED <<subs, publishing>>

Listed == {s \in Subscribers : subs[s].state = "listed"}

\* PublishOutbound in three steps: the read lock and the list, a send that never
\* blocks to each of the list, the release of the lock.
BeginPublish(r) ==
    /\ r \notin DOMAIN publishing
    /\ publishing' = [q \in DOMAIN publishing \cup {r} |->
                         IF q = r THEN Listed ELSE publishing[q]]
    /\ UNCHANGED <<inbound, subs>>

SendTo(r, s) ==
    /\ r \in DOMAIN publishing
    /\ s \in publishing[r]
    /\ subs[s].state = "listed"
    /\ subs' = [subs EXCEPT ![s].buffer = Offer(@, OutboundSize, r)]
    /\ publishing' = [publishing EXCEPT ![r] = @ \ {s}]
    /\ UNCHANGED inbound

EndPublish(r) ==
    /\ r \in DOMAIN publishing
    /\ publishing[r] = {}
    /\ publishing' = [q \in DOMAIN publishing \ {r} |-> publishing[q]]
    /\ UNCHANGED <<inbound, subs>>

\* No publisher holds the read lock: the write lock can be had.
WriteLockFree == DOMAIN publishing = {}

SubscribeOutbound(s) ==
    /\ WriteLockFree
    /\ subs' = [subs EXCEPT ![s].state = "listed"]
    /\ UNCHANGED <<inbound, publishing>>

\* A mutated form: Unsubscribe without the write lock.
UnsubscribeUnlocked(s) ==
    /\ subs' = [subs EXCEPT ![s] = [state |-> "closed", buffer |-> <<>>]]
    /\ UNCHANGED <<inbound, publishing>>

\* Takes the channel out of the list and closes it: what it still holds has no reader.
Unsubscribe(s) ==
    /\ WriteLockFree
    /\ subs' = [subs EXCEPT ![s] = [state |-> "closed", buffer |-> <<>>]]
    /\ UNCHANGED <<inbound, publishing>>

\* The subscriber takes what is at the head of its channel.
Receive(s) ==
    /\ subs[s].buffer # <<>>
    /\ subs' = [subs EXCEPT ![s].buffer = Tail(@)]
    /\ UNCHANGED <<inbound, publishing>>

Buffered(r) == \E s \in Subscribers : \E i \in DOMAIN subs[s].buffer : subs[s].buffer[i] = r

(***************************************************************************)
(* Whoever is in the middle of the list of subscriptions has only open     *)
(* channels ahead: a send on a closed channel would end the process.       *)
(* Subscribers come late, and leave while workers publish.                 *)
(***************************************************************************)
NoSendOnClosed ==
    \A r \in DOMAIN publishing : \A s \in publishing[r] : subs[s].state = "listed"
=============================================================================
