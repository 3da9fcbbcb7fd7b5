------------------------------ MODULE DeviceHub ------------------------------
(***************************************************************************)
(* The devices of the gateway: the WebSocket connections of the API server *)
(* (pkg/api/websocket.go), the registration requests that tie a device to  *)
(* a connection (handleDevices in pkg/api/server.go), the device registry  *)
(* (pkg/sync/registry.go), and RequestCapability, which asks a device for  *)
(* something over its connection and waits for the answer.                 *)
(*                                                                         *)
(* Server.mu guards wsClients, each client's mu guards its capReqs, and    *)
(* the registry has a lock of its own; no two are ever held together.      *)
(* Everything happens in goroutines of its own: a read and a write pump    *)
(* per connection, an HTTP handler per registration, a caller per          *)
(* capability request.  Request IDs are taken to be distinct: callers make *)
(* them up.  Frames that are not capability requests are left out, except  *)
(* that they may fill the send buffer.                                     *)
(***************************************************************************)
EXTENDS Naturals, Sequences, FiniteSets

CONSTANTS
    Conns,        \* WebSocket connections, each with its client ID
    Devices,      \* device IDs
    Posts,        \* POST requests to /api/v1/devices
    Requests,     \* calls of RequestCapability
    None

ASSUME HubAssumption == None \notin Conns \cup Devices \cup Posts \cup Requests

VARIABLES
    client,       \* the wsClient of each connection
    registry,     \* the entry of each device, and the POST that wrote it
    post,         \* the handler of each POST
    request       \* each caller of RequestCapability

vars == <<client, registry, post, request>>

-----------------------------------------------------------------------------
(* A client is listed in wsClients until removeWSClient takes it out; then *)
(* its context is cancelled, its pending requests are failed, its socket   *)
(* is closed and its device is marked offline.                             *)
Stages == {"away", "listed", "deleted", "cancelled", "failed", "closed", "gone"}

Client == [stage : Stages, done : BOOLEAN, closed : BOOLEAN,
           deviceID : Devices \cup {None},
           capReqs : SUBSET Requests,      \* IDs with a channel to answer on
           send : Seq(Requests),           \* frames for the write pump
           asked : SUBSET Requests,        \* what the device is working on
           answer : Requests \cup {None}]  \* what the read pump hands over

Entry == [status : {"absent", "online", "offline"}, by : Posts \cup {None}]

Post == [phase : {"idle", "validated", "registered", "done"},
         conn : Conns \cup {None}, device : Devices \cup {None}, bound : BOOLEAN]

Request == [phase : {"idle", "found", "listed", "sending", "waiting", "retract",
                     "answered", "refused"},
            conn : Conns \cup {None},
            channel : {"empty", "answer", "disconnected"}]

NewClient == [stage |-> "away", done |-> FALSE, closed |-> FALSE,
              deviceID |-> None, capReqs |-> {}, send |-> << >>, asked |-> {},
              answer |-> None]

Init ==
    /\ client = [c \in Conns |-> NewClient]
    /\ registry = [d \in Devices |-> [status |-> "absent", by |-> None]]
    /\ post = [p \in Posts |-> [phase |-> "idle", conn |-> None, device |-> None,
                                bound |-> FALSE]]
    /\ request = [r \in Requests |-> [phase |-> "idle", conn |-> None,
                                      channel |-> "empty"]]

Listed(c) == client[c].stage = "listed"

-----------------------------------------------------------------------------
(* handleWebSocket.                                                        *)
Connect(c) ==
    /\ client[c].stage = "away"
    /\ client' = [client EXCEPT ![c].stage = "listed"]
    /\ UNCHANGED <<registry, post, request>>

(* A variant with a bug: the requests are failed before the cancellation.  *)
NextStageFailsFirst(stage) ==
    CASE stage = "deleted" -> "failed"
      [] stage = "failed" -> "cancelled"
      [] stage = "cancelled" -> "closed"
      [] stage = "closed" -> "gone"

(* The order of the steps of removeWSClient.                               *)
NextStage(stage) ==
    CASE stage = "deleted" -> "cancelled"
      [] stage = "cancelled" -> "failed"
      [] stage = "failed" -> "closed"
      [] stage = "closed" -> "gone"

(* A pump ends, the welcome cannot be queued, or the server stops: whoever *)
(* finds the client in wsClients first removes it.                         *)
Remove(c) ==
    /\ Listed(c)
    /\ client' = [client EXCEPT ![c].stage = "deleted"]
    /\ UNCHANGED <<registry, post, request>>

Removing(c) == client[c].stage \in {"deleted", "cancelled", "failed", "closed"}

(* MarkOffline of the registry: unknown devices are left alone.            *)
MarkOffline(d) ==
    registry' = [e \in Devices |-> IF e = d /\ registry[e].status = "online"
                                   THEN [registry[e] EXCEPT !.status = "offline"]
                                   ELSE registry[e]]

(* failPendingCapabilityRequests: every channel taken out of capReqs gets  *)
(* an answer, unless it has one.                                           *)
FailPending(c) ==
    request' = [r \in Requests |->
                  IF r \in client[c].capReqs /\ request[r].channel = "empty"
                  THEN [request[r] EXCEPT !.channel = "disconnected"]
                  ELSE request[r]]

RemovalStep(c) ==
    /\ Removing(c)
    /\ LET next == NextStage(client[c].stage) IN
       /\ client' = [client EXCEPT
             ![c].stage = next,
             ![c].done = @ \/ next = "cancelled",
             ![c].closed = @ \/ next = "closed",
             ![c].capReqs = IF next = "failed" THEN {} ELSE @]
       /\ IF next = "failed" THEN FailPending(c) ELSE UNCHANGED request
       /\ IF next = "gone" THEN MarkOffline(client[c].deviceID)
          ELSE UNCHANGED registry
    /\ UNCHANGED post

-----------------------------------------------------------------------------
(* handleDevices, POST: the binding is validated, the device registered,   *)
(* and the connection bound, under the lock only in between.               *)
Validate(p, c, d) ==
    /\ post[p].phase = "idle"
    /\ Listed(c) /\ client[c].deviceID \in {None, d}
    /\ post' = [post EXCEPT ![p].phase = "validated", ![p].conn = c,
                            ![p].device = d]
    /\ UNCHANGED <<client, registry, request>>

Register(p) ==
    /\ post[p].phase = "validated"
    /\ registry' = [registry EXCEPT ![post[p].device] =
                      [status |-> "online", by |-> p]]
    /\ post' = [post EXCEPT ![p].phase = "registered"]
    /\ UNCHANGED <<client, request>>

(* A variant with a bug: the second look at wsClients is missing.          *)
StillConnectedAssumed(c) == TRUE

StillConnected(c) == Listed(c)

Bind(p) ==
    LET c == post[p].conn IN
    /\ post[p].phase = "registered"
    /\ client' = IF StillConnected(c)
                 THEN [client EXCEPT ![c].deviceID = post[p].device] ELSE client
    /\ post' = [post EXCEPT ![p].phase = "done", ![p].bound = StillConnected(c)]
    /\ UNCHANGED <<registry, request>>

(* The POST names no connection.                                           *)
RegisterUnbound(p, d) ==
    /\ post[p].phase = "idle"
    /\ registry' = [registry EXCEPT ![d] = [status |-> "online", by |-> p]]
    /\ post' = [post EXCEPT ![p].phase = "done", ![p].device = d]
    /\ UNCHANGED <<client, request>>

(* handleDeviceByID, DELETE.                                               *)
Unregister(d) ==
    /\ registry[d].status # "absent"
    /\ registry' = [registry EXCEPT ![d] = [status |-> "absent", by |-> None]]
    /\ UNCHANGED <<client, post, request>>

(* PruneStale, by the gateway's ticker: d was registered too long ago.     *)
PruneStale(d) ==
    /\ registry[d].status = "online"
    /\ MarkOffline(d)
    /\ UNCHANGED <<client, post, request>>

-----------------------------------------------------------------------------
(* RequestCapability: find the client, list the channel, send, wait.       *)
FindClient(r, c) ==
    /\ request[r].phase = "idle"
    /\ Listed(c) /\ client[c].deviceID # None
    /\ request' = [request EXCEPT ![r].phase = "found", ![r].conn = c]
    /\ UNCHANGED <<client, registry, post>>

ListChannel(r) ==
    LET c == request[r].conn IN
    /\ request[r].phase = "found"
    /\ client' = [client EXCEPT ![c].capReqs = @ \cup {r}]
    /\ request' = [request EXCEPT ![r].phase = "listed"]
    /\ UNCHANGED <<registry, post>>

(* enqueueClientMessage looks at the client's context first ...            *)
CheckDone(r) ==
    /\ request[r].phase = "listed"
    /\ request' = [request EXCEPT ![r].phase = IF client[request[r].conn].done
                                               THEN "retract" ELSE "sending"]
    /\ UNCHANGED <<client, registry, post>>

(* ... and then takes whichever of the buffer, the context and 50 ms is    *)
(* ready; other frames may have filled the buffer.                         *)
Enqueue(r) ==
    LET c == request[r].conn IN
    /\ request[r].phase = "sending"
    /\ client' = [client EXCEPT ![c].send = Append(@, r)]
    /\ request' = [request EXCEPT ![r].phase = "waiting"]
    /\ UNCHANGED <<registry, post>>

NotEnqueued(r) ==
    /\ request[r].phase = "sending"
    /\ request' = [request EXCEPT ![r].phase = "retract"]
    /\ UNCHANGED <<client, registry, post>>

(* The caller's context ends before the answer is taken.                   *)
TimeOut(r) ==
    /\ request[r].phase = "waiting"
    /\ request' = [request EXCEPT ![r].phase = "retract"]
    /\ UNCHANGED <<client, registry, post>>

(* A variant with a bug: the entry is left in capReqs.                     *)
RetractOnly(r) ==
    /\ request[r].phase = "retract"
    /\ request' = [request EXCEPT ![r].phase = "refused"]
    /\ UNCHANGED <<client, registry, post>>

Retract(r) ==
    LET c == request[r].conn IN
    /\ request[r].phase = "retract"
    /\ client' = [client EXCEPT ![c].capReqs = @ \ {r}]
    /\ request' = [request EXCEPT ![r].phase = "refused"]
    /\ UNCHANGED <<registry, post>>

TakeAnswer(r) ==
    /\ request[r].phase = "waiting"
    /\ request[r].channel # "empty"
    /\ request' = [request EXCEPT ![r].phase = "answered", ![r].channel = "empty"]
    /\ UNCHANGED <<client, registry, post>>

-----------------------------------------------------------------------------
(* The write pump writes a frame, and the device's client receives it.  In *)
(* its select a frame may still win against the cancelled context.         *)
WriteFrame(c) ==
    /\ client[c].send # << >> /\ ~client[c].closed
    /\ client' = [client EXCEPT ![c].send = Tail(@),
                                ![c].asked = @ \cup {Head(client[c].send)}]
    /\ UNCHANGED <<registry, post, request>>

(* Variants with a bug: the entry is not deleted; a client being removed   *)
(* drops the answer after the entry is.                                    *)
HandleResponseKeepsEntry(c, r) ==
    [client[c] EXCEPT !.asked = @ \ {r},
                      !.answer = IF r \in client[c].capReqs THEN r ELSE None]

HandleResponseDropsLate(c, r) ==
    [client[c] EXCEPT !.asked = @ \ {r}, !.capReqs = @ \ {r},
                      !.answer = IF r \in client[c].capReqs /\ Listed(c) THEN r
                                 ELSE None]

(* handleWSCapabilityResponse under the lock: an answer nobody waits for   *)
(* any more is dropped.                                                    *)
HandleResponse(c, r) ==
    [client[c] EXCEPT !.asked = @ \ {r}, !.capReqs = @ \ {r},
                      !.answer = IF r \in client[c].capReqs THEN r ELSE None]

(* The device answers r, and the read pump, unless it is still handing     *)
(* over an earlier answer, reads it.                                       *)
ReadResponse(c, r) ==
    /\ r \in client[c].asked /\ ~client[c].closed
    /\ client[c].answer = None
    /\ client' = [client EXCEPT ![c] = HandleResponse(c, r)]
    /\ UNCHANGED <<registry, post, request>>

(* ... and, with no lock held, sends it on the request's channel of one.   *)
HandOver(c) ==
    LET r == client[c].answer IN
    /\ r # None
    /\ request[r].channel = "empty"
    /\ request' = [request EXCEPT ![r].channel = "answer"]
    /\ client' = [client EXCEPT ![c].answer = None]
    /\ UNCHANGED <<registry, post>>

-----------------------------------------------------------------------------
Next ==
    \/ \E c \in Conns :
          \/ Connect(c) \/ Remove(c) \/ RemovalStep(c)
          \/ WriteFrame(c) \/ HandOver(c)
          \/ \E r \in Requests : ReadResponse(c, r) \/ FindClient(r, c)
          \/ \E p \in Posts, d \in Devices : Validate(p, c, d)
    \/ \E p \in Posts :
          \/ Register(p) \/ Bind(p)
          \/ \E d \in Devices : RegisterUnbound(p, d)
    \/ \E d \in Devices : Unregister(d) \/ PruneStale(d)
    \/ \E r \in Requests :
          \/ ListChannel(r) \/ CheckDone(r) \/ Enqueue(r) \/ NotEnqueued(r)
          \/ TimeOut(r) \/ Retract(r) \/ TakeAnswer(r)

Spec == Init /\ [][Next]_vars

(* Goroutines that can go on are scheduled.  No fairness on the device,    *)
(* the network, the write pump or the caller's deadline.                   *)
Fairness ==
    /\ \A c \in Conns : WF_vars(RemovalStep(c)) /\ WF_vars(HandOver(c))
    /\ \A r \in Requests : WF_vars(TakeAnswer(r)) /\ WF_vars(Retract(r))

FairSpec == Spec /\ Fairness

-----------------------------------------------------------------------------
(* The types of the variables.                                             *)
TypeOK ==
    /\ client \in [Conns -> Client]
    /\ registry \in [Devices -> Entry]
    /\ post \in [Posts -> Post]
    /\ request \in [Requests -> Request]

(* RequestCapability may be called without a deadline: a caller is never   *)
(* left waiting on a connection that has failed its pending requests,      *)
(* although the removal of the client races the listing of the channel,    *)
(* the check of the context, the queueing of the frame and an answer the   *)
(* read pump is about to hand over.                                        *)
NobodyWaitsForTheGone ==
    \A r \in Requests :
        request[r].phase = "waiting" /\ client[request[r].conn].stage \in {"failed", "closed", "gone"}
            => \/ request[r].channel # "empty"
               \/ client[request[r].conn].answer = r

(* The channel of a request holds one answer, and handing over a second one*)
(* would block the read pump for good: whoever answers a request has first *)
(* taken its entry out of capReqs, so that there is one answer.            *)
ReadPumpNeverBlocks ==
    \A c \in Conns : client[c].answer # None =>
        request[client[c].answer].channel = "empty"

(* No entry of capReqs outlives its call, whichever of the answer, the     *)
(* deadline, the refused frame and the removal of the client comes first.  *)
NoEntryOutlivesItsCall ==
    \A c \in Conns : \A r \in client[c].capReqs :
        /\ request[r].conn = c
        /\ request[r].phase \in {"listed", "sending", "waiting", "retract"}

(* When a connection is gone, the device it was bound to is not online on  *)
(* the strength of a registration through that connection, although the    *)
(* handler registers and binds in separate steps.                          *)
DeviceOfGoneConnectionIsOffline ==
    \A p \in Posts :
        LET c == post[p].conn
            d == post[p].device
        IN  /\ post[p].bound
            /\ client[c].stage = "gone" /\ client[c].deviceID = d
            /\ registry[d].by = p
            => registry[d].status # "online"

(* A call on a connection that is lost returns, with an answer or with the *)
(* news that the device disconnected, even if its context never ends.      *)
CallsOnLostConnectionsReturn ==
    \A r \in Requests, c \in Conns :
        request[r].phase = "waiting" /\ request[r].conn = c /\ ~Listed(c)
            ~> request[r].phase \in {"answered", "refused"}

(* server.go 449: the binding is validated before the registry is touched, *)
(* so that a failed association cannot partially register an orphaned      *)
(* device.                                                                 *)
FailedAssociationRegistersNothing ==
    \A p \in Posts :
        post[p].phase = "done" /\ post[p].conn # None /\ ~post[p].bound
            => ~(registry[post[p].device] = [status |-> "online", by |-> p])
=============================================================================
