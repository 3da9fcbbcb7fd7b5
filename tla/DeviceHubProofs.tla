--------------------------- MODULE DeviceHubProofs ---------------------------
(***************************************************************************)
(* Proofs about DeviceHub, for any connections, devices, registrations and *)
(* requests.                                                               *)
(***************************************************************************)
EXTENDS DeviceHub, TLAPS

(* The order of removeWSClient's steps stays within the stages.            *)
LEMMA NextStageType ==
    ASSUME NEW stage \in {"deleted", "cancelled", "failed", "closed"}
    PROVE  NextStage(stage) \in {"cancelled", "failed", "closed", "gone"}
BY DEF NextStage

(* MarkOffline makes entries of the entries of the registry.               *)
LEMMA MarkOfflineType ==
    ASSUME NEW d, registry \in [Devices -> Entry], MarkOffline(d)
    PROVE  registry' \in [Devices -> Entry]
BY DEF MarkOffline, Entry

(* The initial state has the types.                                        *)
LEMMA InitType == Init => TypeOK
<1> SUFFICES ASSUME Init PROVE TypeOK
  OBVIOUS
<1>1. NewClient \in Client
  BY DEF NewClient, Client, Stages
<1>2. client \in [Conns -> Client]
  BY <1>1 DEF Init
<1>3. /\ registry \in [Devices -> Entry]
      /\ post \in [Posts -> Post]
      /\ request \in [Requests -> Request]
  <2>1. [status |-> "absent", by |-> None] \in Entry
    BY DEF Entry
  <2>2. [phase |-> "idle", conn |-> None, device |-> None, bound |-> FALSE] \in Post
    BY DEF Post
  <2>3. [phase |-> "idle", conn |-> None, channel |-> "empty"] \in Request
    BY DEF Request
  <2> QED
    BY <2>1, <2>2, <2>3 DEF Init
<1> QED
  BY <1>2, <1>3 DEF TypeOK

(* A connection's client stays one when a field gets a new value of its    *)
(* type; what the devices and pumps do to it is no more than that.         *)
LEMMA ClientUpdates ==
    ASSUME NEW cl \in Client
    PROVE  /\ \A s \in Stages, done, closed \in BOOLEAN, q \in SUBSET Requests :
                [cl EXCEPT !.stage = s, !.done = done, !.closed = closed,
                           !.capReqs = q] \in Client
           /\ \A s \in Stages : [cl EXCEPT !.stage = s] \in Client
           /\ \A d \in Devices \cup {None} : [cl EXCEPT !.deviceID = d] \in Client
           /\ \A q \in SUBSET Requests : [cl EXCEPT !.capReqs = q] \in Client
           /\ \A q \in Seq(Requests) : [cl EXCEPT !.send = q] \in Client
           /\ \A q \in Seq(Requests), a \in SUBSET Requests :
                [cl EXCEPT !.send = q, !.asked = a] \in Client
           /\ \A r \in Requests \cup {None} : [cl EXCEPT !.answer = r] \in Client
           /\ \A a, q \in SUBSET Requests, r \in Requests \cup {None} :
                [cl EXCEPT !.asked = a, !.capReqs = q, !.answer = r] \in Client
BY DEF Client

(* Every step of the server, the devices and the callers keeps the types.  *)
LEMMA NextType == TypeOK /\ [Next]_vars => TypeOK'
<1> SUFFICES ASSUME TypeOK, [Next]_vars PROVE TypeOK'
  OBVIOUS
<1>1. ASSUME NEW c \in Conns, Connect(c) \/ Remove(c) PROVE TypeOK'
  <2>1. "listed" \in Stages /\ "deleted" \in Stages
    BY DEF Stages
  <2>2. client' \in [Conns -> Client]
    <3>1. client[c] \in Client
      BY DEF TypeOK
    <3>2. /\ [client[c] EXCEPT !.stage = "listed"] \in Client
          /\ [client[c] EXCEPT !.stage = "deleted"] \in Client
      BY <2>1, <3>1, ClientUpdates
    <3> QED
      BY <1>1, <3>2 DEF Connect, Remove, TypeOK
  <2> QED
    BY <1>1, <2>2 DEF Connect, Remove, TypeOK
<1>2. ASSUME NEW c \in Conns, RemovalStep(c) PROVE TypeOK'
  <2>1. NextStage(client[c].stage) \in Stages
    BY <1>2, NextStageType DEF RemovalStep, Removing, Stages
  <2>2. client' \in [Conns -> Client]
    <3>1. client[c] \in Client
      BY DEF TypeOK
    <3>2. /\ client[c].done \in BOOLEAN /\ client[c].closed \in BOOLEAN
          /\ client[c].capReqs \in SUBSET Requests
      BY <3>1 DEF Client
    <3> DEFINE next == NextStage(client[c].stage)
               done == client[c].done \/ next = "cancelled"
               closed == client[c].closed \/ next = "closed"
               left == IF next = "failed" THEN {} ELSE client[c].capReqs
    <3>3. done \in BOOLEAN /\ closed \in BOOLEAN /\ left \in SUBSET Requests
      BY <3>2
    <3>4. client' = [client EXCEPT
                       ![c] = [client[c] EXCEPT !.stage = next, !.done = done,
                                                !.closed = closed, !.capReqs = left]]
      BY <1>2 DEF RemovalStep, TypeOK
    <3> HIDE DEF next, done, closed, left
    <3>5. [client[c] EXCEPT !.stage = next, !.done = done, !.closed = closed,
                            !.capReqs = left] \in Client
      BY <2>1, <3>1, <3>3, ClientUpdates DEF next
    <3> QED
      BY <3>4, <3>5 DEF TypeOK
  <2>3. request' \in [Requests -> Request]
    <3>1. \A r \in Requests : [request[r] EXCEPT !.channel = "disconnected"] \in Request
      BY DEF TypeOK, Request
    <3> QED
      BY <1>2, <3>1 DEF RemovalStep, FailPending, TypeOK
  <2>4. registry' \in [Devices -> Entry]
    BY <1>2, MarkOfflineType DEF RemovalStep, TypeOK
  <2> QED
    BY <1>2, <2>2, <2>3, <2>4 DEF RemovalStep, TypeOK
<1>3. ASSUME NEW p \in Posts, NEW c \in Conns, NEW d \in Devices, Validate(p, c, d)
      PROVE  TypeOK'
  <2>1. [post[p] EXCEPT !.phase = "validated", !.conn = c, !.device = d] \in Post
    BY DEF TypeOK, Post
  <2> QED
    BY <1>3, <2>1 DEF Validate, TypeOK
<1>4. ASSUME NEW p \in Posts, Register(p) PROVE TypeOK'
  <2>1. registry' \in [Devices -> Entry]
    BY <1>4 DEF Register, TypeOK, Entry
  <2>2. post' \in [Posts -> Post]
    BY <1>4 DEF Register, TypeOK, Post
  <2> QED
    BY <1>4, <2>1, <2>2 DEF Register, TypeOK
<1>5. ASSUME NEW p \in Posts, Bind(p) PROVE TypeOK'
  <2>1. post[p].device \in Devices \cup {None}
    BY DEF TypeOK, Post
  <2>2. client' \in [Conns -> Client]
    BY <1>5, <2>1, ClientUpdates DEF Bind, TypeOK
  <2>3. post' \in [Posts -> Post]
    <3>1. StillConnected(post[p].conn) \in BOOLEAN
      BY DEF StillConnected, Listed
    <3>2. \A b \in BOOLEAN : [post[p] EXCEPT !.phase = "done", !.bound = b] \in Post
      BY DEF TypeOK, Post
    <3> QED
      BY <1>5, <3>1, <3>2 DEF Bind, TypeOK
  <2> QED
    BY <1>5, <2>2, <2>3 DEF Bind, TypeOK
<1>6. ASSUME NEW p \in Posts, NEW d \in Devices, RegisterUnbound(p, d)
      PROVE  TypeOK'
  <2>1. registry' \in [Devices -> Entry]
    BY <1>6 DEF RegisterUnbound, TypeOK, Entry
  <2>2. post' \in [Posts -> Post]
    <3>1. \A e \in Post : [e EXCEPT !.phase = "done", !.device = d] \in Post
      BY DEF Post
    <3> QED
      BY <1>6, <3>1 DEF RegisterUnbound, TypeOK
  <2> QED
    BY <1>6, <2>1, <2>2 DEF RegisterUnbound, TypeOK
<1>7. ASSUME NEW d \in Devices, Unregister(d) \/ PruneStale(d) PROVE TypeOK'
  BY <1>7, MarkOfflineType DEF Unregister, PruneStale, TypeOK, Entry
<1>8. ASSUME NEW r \in Requests, NEW c \in Conns, FindClient(r, c) PROVE TypeOK'
  <2>1. request' \in [Requests -> Request]
    <3>1. \A e \in Request : [e EXCEPT !.phase = "found", !.conn = c] \in Request
      BY DEF Request
    <3> QED
      BY <1>8, <3>1 DEF FindClient, TypeOK
  <2> QED
    BY <1>8, <2>1 DEF FindClient, TypeOK
<1>9. ASSUME NEW r \in Requests, ListChannel(r) \/ Retract(r) PROVE TypeOK'
  <2>1. client' \in [Conns -> Client]
    <3>1. \A c \in Conns : /\ client[c].capReqs \cup {r} \in SUBSET Requests
                           /\ client[c].capReqs \ {r} \in SUBSET Requests
      BY DEF TypeOK, Client
    <3>2. \A c \in Conns :
             /\ [client[c] EXCEPT !.capReqs = client[c].capReqs \cup {r}] \in Client
             /\ [client[c] EXCEPT !.capReqs = client[c].capReqs \ {r}] \in Client
      BY <3>1, ClientUpdates DEF TypeOK
    <3> QED
      BY <1>9, <3>2 DEF ListChannel, Retract, TypeOK
  <2>2. request' \in [Requests -> Request]
    BY <1>9 DEF ListChannel, Retract, TypeOK, Request
  <2> QED
    BY <1>9, <2>1, <2>2 DEF ListChannel, Retract, TypeOK
<1>10. ASSUME NEW r \in Requests,
              CheckDone(r) \/ NotEnqueued(r) \/ TimeOut(r) \/ TakeAnswer(r)
       PROVE  TypeOK'
  BY <1>10 DEF CheckDone, NotEnqueued, TimeOut, TakeAnswer, TypeOK, Request
<1>11. ASSUME NEW r \in Requests, Enqueue(r) PROVE TypeOK'
  <2>1. client' \in [Conns -> Client]
    <3>1. \A c \in Conns : Append(client[c].send, r) \in Seq(Requests)
      BY DEF TypeOK, Client
    <3> QED
      BY <1>11, <3>1, ClientUpdates DEF Enqueue, TypeOK
  <2>2. request' \in [Requests -> Request]
    BY <1>11 DEF Enqueue, TypeOK, Request
  <2> QED
    BY <1>11, <2>1, <2>2 DEF Enqueue, TypeOK
<1>12. ASSUME NEW c \in Conns, WriteFrame(c) PROVE TypeOK'
  <2>1. client[c] \in Client /\ client[c].send \in Seq(Requests) /\ client[c].send # << >>
    BY <1>12 DEF WriteFrame, TypeOK, Client
  <2>2. /\ Tail(client[c].send) \in Seq(Requests)
        /\ client[c].asked \cup {Head(client[c].send)} \in SUBSET Requests
    <3>1. Head(client[c].send) \in Requests /\ Tail(client[c].send) \in Seq(Requests)
      BY <2>1
    <3> QED
      BY <2>1, <3>1 DEF Client
  <2>3. client' \in [Conns -> Client]
    BY <1>12, <2>1, <2>2, ClientUpdates DEF WriteFrame, TypeOK
  <2> QED
    BY <1>12, <2>3 DEF WriteFrame, TypeOK
<1>13. ASSUME NEW c \in Conns, NEW r \in Requests, ReadResponse(c, r) PROVE TypeOK'
  <2>1. HandleResponse(c, r) \in Client
    <3>1. /\ client[c] \in Client
          /\ client[c].asked \ {r} \in SUBSET Requests
          /\ client[c].capReqs \ {r} \in SUBSET Requests
          /\ (IF r \in client[c].capReqs THEN r ELSE None) \in Requests \cup {None}
      BY DEF TypeOK, Client
    <3> QED
      BY <3>1, ClientUpdates DEF HandleResponse
  <2> QED
    BY <1>13, <2>1 DEF ReadResponse, TypeOK
<1>14. ASSUME NEW c \in Conns, HandOver(c) PROVE TypeOK'
  <2>1. client' \in [Conns -> Client]
    BY <1>14, ClientUpdates DEF HandOver, TypeOK
  <2>2. request' \in [Requests -> Request]
    <3>1. \A q \in Request : [q EXCEPT !.channel = "answer"] \in Request
      BY DEF Request
    <3> QED
      BY <1>14, <3>1 DEF HandOver, TypeOK
  <2> QED
    BY <1>14, <2>1, <2>2 DEF HandOver, TypeOK
<1>15. CASE UNCHANGED vars
  BY <1>15 DEF vars, TypeOK
<1> QED
  BY <1>1, <1>2, <1>3, <1>4, <1>5, <1>6, <1>7, <1>8, <1>9, <1>10, <1>11, <1>12,
     <1>13, <1>14, <1>15 DEF Next

(* The variables of the hub keep their types (TypeOK).                     *)
THEOREM HubTypeCorrect == Spec => []TypeOK
BY InitType, NextType, PTL DEF Spec

-----------------------------------------------------------------------------
(* The channel of a request.  Before the caller lists it nobody can answer *)
(* it; while it is listed it is empty, and no answer is on its way; whoever*)
(* takes the entry out holds the only answer.                              *)
InFlight == {"listed", "sending", "waiting", "retract"}

Unlisted == {"idle", "found"}

FreshRequests ==
    \A r \in Requests :
        /\ request[r].phase \in Unlisted => request[r].channel = "empty"
        /\ request[r].phase # "idle" => request[r].conn \in Conns

ListedEntries ==
    \A c \in Conns : \A r \in client[c].capReqs :
        /\ request[r].conn = c
        /\ request[r].phase \in InFlight
        /\ request[r].channel = "empty"
        /\ client[c].answer # r

AnswersHeld ==
    \A c \in Conns : client[c].answer # None =>
        /\ request[client[c].answer].conn = c
        /\ request[client[c].answer].phase \notin Unlisted
        /\ request[client[c].answer].channel = "empty"

HandInv == FreshRequests /\ ListedEntries /\ AnswersHeld

(* What leaves the callers, the entries and the answers alone leaves       *)
(* HandInv alone.                                                          *)
LEMMA HandUntouched ==
    ASSUME TypeOK, HandInv, request' = request,
           \A c \in Conns : /\ client'[c].capReqs = client[c].capReqs
                            /\ client'[c].answer = client[c].answer
    PROVE  HandInv'
BY DEF HandInv, FreshRequests, ListedEntries, AnswersHeld

(* What only moves one caller on, among the phases of a listed request,    *)
(* leaves HandInv alone.                                                   *)
LEMMA HandMovesOn ==
    ASSUME TypeOK, HandInv, NEW r \in Requests, NEW ph \in InFlight,
           request[r].phase \in InFlight, client' = client,
           request' = [request EXCEPT ![r].phase = ph]
    PROVE  HandInv'
BY DEF HandInv, FreshRequests, ListedEntries, AnswersHeld, InFlight, Unlisted,
       TypeOK, Request

(* Nothing that leaves the callers of the entries alone, and at most takes *)
(* entries and answers away, disturbs the entries.                         *)
LEMMA ListedKept ==
    ASSUME TypeOK, ListedEntries,
           \A b \in Conns : client'[b].answer \in {None, client[b].answer},
           \A b \in Conns : \A q \in client'[b].capReqs :
               /\ q \in client[b].capReqs
               /\ request'[q].conn = request[q].conn
               /\ request'[q].phase = request[q].phase
               /\ request'[q].channel = request[q].channel
    PROVE  ListedEntries'
<1>1. \A b \in Conns : \A q \in client[b].capReqs : q # None
  BY HubAssumption DEF TypeOK, Client
<1> SUFFICES ASSUME NEW b \in Conns, NEW q \in client'[b].capReqs
             PROVE  /\ request'[q].conn = b
                    /\ request'[q].phase \in InFlight
                    /\ request'[q].channel = "empty"
                    /\ client'[b].answer # q
  BY DEF ListedEntries
<1> QED
  BY <1>1 DEF ListedEntries

(* Nor what at most takes answers away, and leaves their requests alone but*)
(* for a step on from a phase in which they may be answered.               *)
LEMMA AnswersKept ==
    ASSUME TypeOK, AnswersHeld,
           \A b \in Conns : client'[b].answer \in {None, client[b].answer},
           \A b \in Conns : \A q \in Requests : client'[b].answer = q =>
               /\ request'[q].conn = request[q].conn
               /\ request'[q].channel = request[q].channel
               /\ request[q].phase \notin Unlisted => request'[q].phase \notin Unlisted
    PROVE  AnswersHeld'
<1> SUFFICES ASSUME NEW b \in Conns, client'[b].answer # None
             PROVE  /\ request'[client'[b].answer].conn = b
                    /\ request'[client'[b].answer].phase \notin Unlisted
                    /\ request'[client'[b].answer].channel = "empty"
  BY DEF AnswersHeld
<1>1. client'[b].answer = client[b].answer /\ client[b].answer \in Requests
  BY DEF TypeOK, Client
<1> QED
  BY <1>1 DEF AnswersHeld

(* Nobody has called anything in the initial state.                        *)
LEMMA HandInit == Init => HandInv
BY DEF Init, NewClient, HandInv, FreshRequests, ListedEntries, AnswersHeld,
       Unlisted

(* Every step keeps HandInv: the entry of a request is taken out before it *)
(* is answered, by the read pump as by the removal of the client.          *)
LEMMA HandNext == TypeOK /\ HandInv /\ [Next]_vars => HandInv'
<1> SUFFICES ASSUME TypeOK, HandInv, [Next]_vars PROVE HandInv'
  OBVIOUS
<1> USE DEF TypeOK
<1>1. ASSUME NEW c \in Conns, Connect(c) \/ Remove(c) \/ WriteFrame(c)
      PROVE  HandInv'
  <2>1. request' = request
    BY <1>1 DEF Connect, Remove, WriteFrame
  <2>2. ASSUME NEW b \in Conns
        PROVE  /\ client'[b].capReqs = client[b].capReqs
               /\ client'[b].answer = client[b].answer
    <3>1. client[b] \in Client
      OBVIOUS
    <3>2. CASE Connect(c) \/ Remove(c)
      <4>1. PICK st \in Stages : client' = [client EXCEPT ![c].stage = st]
        BY <3>2 DEF Connect, Remove, Stages
      <4>2. client'[b] = client[b] \/ client'[b] = [client[b] EXCEPT !.stage = st]
        BY <4>1
      <4> QED
        BY <3>1, <4>2 DEF Client
    <3>3. CASE WriteFrame(c)
      <4> DEFINE sent == Tail(client[c].send)
                 got == client[c].asked \cup {Head(client[c].send)}
      <4>1. client' = [client EXCEPT ![c].send = sent, ![c].asked = got]
        BY <3>3 DEF WriteFrame
      <4> HIDE DEF sent, got
      <4>2. \/ client'[b] = client[b]
            \/ client'[b] = [client[b] EXCEPT !.send = sent, !.asked = got]
        BY <4>1
      <4> QED
        BY <3>1, <4>2 DEF Client
    <3> QED
      BY <1>1, <3>2, <3>3
  <2> QED
    BY <2>1, <2>2, HandUntouched
<1>2. ASSUME NEW c \in Conns, RemovalStep(c) PROVE HandInv'
  <2>1. \A b \in Conns : client'[b].answer = client[b].answer
    BY <1>2 DEF RemovalStep, Client
  <2>2. CASE NextStage(client[c].stage) # "failed"
    <3>1. request' = request
      BY <1>2, <2>2 DEF RemovalStep
    <3>2. \A b \in Conns : client'[b].capReqs = client[b].capReqs
      BY <1>2, <2>2 DEF RemovalStep, Client
    <3> QED
      BY <2>1, <3>1, <3>2, HandUntouched
  <2>3. CASE NextStage(client[c].stage) = "failed"
    <3>1. FailPending(c)
      BY <1>2, <2>3 DEF RemovalStep
    <3>2. \A b \in Conns :
             client'[b].capReqs = IF b = c THEN {} ELSE client[b].capReqs
      BY <1>2, <2>3 DEF RemovalStep, Client
    <3>3. \A r \in Requests :
             /\ request'[r].phase = request[r].phase
             /\ request'[r].conn = request[r].conn
             /\ r \notin client[c].capReqs => request'[r] = request[r]
      BY <3>1 DEF FailPending, Request
    <3>4. FreshRequests'
      <4>1. \A r \in client[c].capReqs : request[r].phase \in InFlight
        BY DEF HandInv, ListedEntries
      <4> QED
        BY <3>3, <4>1 DEF HandInv, FreshRequests, InFlight, Unlisted
    <3>5. ListedEntries'
      <4> SUFFICES ASSUME NEW b \in Conns, NEW r \in client'[b].capReqs
                   PROVE  /\ request'[r].conn = b
                          /\ request'[r].phase \in InFlight
                          /\ request'[r].channel = "empty"
                          /\ client'[b].answer # r
        BY DEF ListedEntries
      <4>1. b # c /\ r \in client[b].capReqs /\ r \in Requests
        BY <3>2 DEF Client
      <4>2. r \notin client[c].capReqs
        BY <4>1 DEF HandInv, ListedEntries
      <4> QED
        BY <2>1, <3>3, <4>1, <4>2 DEF HandInv, ListedEntries
    <3>6. AnswersHeld'
      <4> SUFFICES ASSUME NEW b \in Conns, client'[b].answer # None
                   PROVE  /\ request'[client'[b].answer].conn = b
                          /\ request'[client'[b].answer].phase \notin Unlisted
                          /\ request'[client'[b].answer].channel = "empty"
        BY DEF AnswersHeld
      <4> DEFINE r == client[b].answer
      <4>1. client'[b].answer = r /\ r # None /\ r \in Requests
        BY <2>1 DEF Client
      <4>2. /\ request[r].conn = b /\ request[r].phase \notin Unlisted
            /\ request[r].channel = "empty"
        BY <4>1 DEF HandInv, AnswersHeld
      <4>3. r \notin client[c].capReqs
        BY <4>2 DEF HandInv, ListedEntries
      <4> QED
        BY <3>3, <4>1, <4>2, <4>3
    <3> QED
      BY <3>4, <3>5, <3>6 DEF HandInv
  <2> QED
    BY <2>2, <2>3
<1>3. ASSUME NEW p \in Posts,
             \/ \E c \in Conns, d \in Devices : Validate(p, c, d)
             \/ Register(p) \/ Bind(p)
             \/ \E d \in Devices : RegisterUnbound(p, d)
      PROVE  HandInv'
  <2>1. request' = request
    BY <1>3 DEF Validate, Register, Bind, RegisterUnbound
  <2>2. ASSUME NEW b \in Conns
        PROVE  /\ client'[b].capReqs = client[b].capReqs
               /\ client'[b].answer = client[b].answer
    <3>1. CASE client' = client
      BY <3>1
    <3>2. CASE Bind(p)
      <4>1. \/ client' = client
            \/ client' = [client EXCEPT ![post[p].conn].deviceID = post[p].device]
        BY <3>2 DEF Bind
      <4>2. client[b] \in Client
        OBVIOUS
      <4>3. \/ client'[b] = client[b]
            \/ client'[b] = [client[b] EXCEPT !.deviceID = post[p].device]
        BY <4>1
      <4> QED
        BY <4>2, <4>3 DEF Client
    <3> QED
      BY <1>3, <3>1, <3>2 DEF Validate, Register, RegisterUnbound
  <2> QED
    BY <2>1, <2>2, HandUntouched
<1>4. ASSUME NEW d \in Devices, Unregister(d) \/ PruneStale(d) PROVE HandInv'
  BY <1>4, HandUntouched DEF Unregister, PruneStale
<1>5. ASSUME NEW r \in Requests, NEW c \in Conns, FindClient(r, c) PROVE HandInv'
  <2>1. /\ client' = client /\ request[r].phase = "idle"
        /\ request' = [request EXCEPT ![r].phase = "found", ![r].conn = c]
    BY <1>5 DEF FindClient
  <2>2. \A q \in Requests :
           /\ request'[q].channel = request[q].channel
           /\ q # r => request'[q] = request[q]
           /\ request'[r].conn = c /\ request'[r].phase = "found"
    BY <2>1 DEF Request
  <2>3. \A b \in Conns : client[b].answer # r /\ r \notin client[b].capReqs
    <3>1. r # None
      BY HubAssumption
    <3> QED
      BY <2>1, <3>1 DEF HandInv, AnswersHeld, ListedEntries, InFlight, Unlisted
  <2>4. FreshRequests'
    BY <2>1, <2>2 DEF HandInv, FreshRequests, Unlisted
  <2>5. ListedEntries'
    <3>1. \A b \in Conns : \A q \in client[b].capReqs : q # r /\ q \in Requests
      BY <2>3 DEF Client
    <3>2. \A b \in Conns : \A q \in client[b].capReqs : request'[q] = request[q]
      BY <2>2, <3>1
    <3> QED
      BY <2>1, <3>2, ListedKept DEF HandInv
  <2>6. AnswersHeld'
    <3>1. \A b \in Conns : \A q \in Requests :
             client[b].answer = q => request'[q] = request[q]
      BY <2>2, <2>3
    <3> QED
      BY <2>1, <3>1, AnswersKept DEF HandInv
  <2> QED
    BY <2>4, <2>5, <2>6 DEF HandInv
<1>6. ASSUME NEW r \in Requests, ListChannel(r) PROVE HandInv'
  <2> DEFINE c == request[r].conn
  <2>1. /\ c \in Conns /\ request[r].channel = "empty"
        /\ request[r].phase = "found"
    BY <1>6 DEF ListChannel, HandInv, FreshRequests, Unlisted
  <2>2. \A b \in Conns : client[b].answer # r /\ r \notin client[b].capReqs
    <3>1. r # None
      BY HubAssumption
    <3> QED
      BY <2>1, <3>1 DEF HandInv, AnswersHeld, ListedEntries, InFlight, Unlisted
  <2>3. \A b \in Conns :
           /\ client'[b].answer = client[b].answer
           /\ client'[b].capReqs = IF b = c THEN client[b].capReqs \cup {r}
                                   ELSE client[b].capReqs
    BY <1>6, <2>1 DEF ListChannel, Client
  <2>4. \A q \in Requests :
           /\ request'[q].conn = request[q].conn
           /\ request'[q].channel = request[q].channel
           /\ request'[q].phase = IF q = r THEN "listed" ELSE request[q].phase
    BY <1>6 DEF ListChannel, Request
  <2> HIDE DEF c
  <2>5. FreshRequests'
    BY <2>1, <2>4 DEF HandInv, FreshRequests, Unlisted, c
  <2>6. ListedEntries'
    <3> SUFFICES ASSUME NEW b \in Conns, NEW q \in client'[b].capReqs
                 PROVE  /\ request'[q].conn = b
                        /\ request'[q].phase \in InFlight
                        /\ request'[q].channel = "empty"
                        /\ client'[b].answer # q
      BY DEF ListedEntries
    <3>1. CASE q = r
      <4>1. b = c
        BY <2>2, <2>3, <3>1
      <4> QED
        BY <2>1, <2>2, <2>3, <2>4, <3>1, <4>1 DEF InFlight, c
    <3>2. CASE q # r
      <4>1. q \in client[b].capReqs /\ q \in Requests
        <5>1. client'[b].capReqs \subseteq client[b].capReqs \cup {r}
          BY <2>3
        <5> QED
          BY <3>2, <5>1 DEF Client
      <4>2. /\ request[q].conn = b /\ request[q].phase \in InFlight
            /\ request[q].channel = "empty" /\ client[b].answer # q
        BY <4>1 DEF HandInv, ListedEntries
      <4> QED
        BY <2>3, <2>4, <3>2, <4>1, <4>2
    <3> QED
      BY <3>1, <3>2
  <2>7. AnswersHeld'
    <3>1. \A b \in Conns : \A q \in Requests :
             client'[b].answer = q => request'[q].phase = request[q].phase
      BY <2>2, <2>3, <2>4
    <3>2. \A b \in Conns : client'[b].answer \in {None, client[b].answer}
      BY <2>3
    <3> QED
      BY <2>4, <3>1, <3>2, AnswersKept DEF HandInv
  <2> QED
    BY <2>5, <2>6, <2>7 DEF HandInv
<1>7. ASSUME NEW r \in Requests, CheckDone(r) \/ NotEnqueued(r) \/ TimeOut(r)
      PROVE  HandInv'
  <2>1. /\ client' = client /\ request[r].phase \in InFlight
        /\ \E ph \in InFlight : request' = [request EXCEPT ![r].phase = ph]
    BY <1>7 DEF CheckDone, NotEnqueued, TimeOut, InFlight
  <2> QED
    BY <2>1, HandMovesOn
<1>8. ASSUME NEW r \in Requests, Enqueue(r) PROVE HandInv'
  <2>1. \A b \in Conns : /\ client'[b].answer = client[b].answer
                         /\ client'[b].capReqs = client[b].capReqs
    BY <1>8 DEF Enqueue, Client
  <2>2. \A q \in Requests :
           /\ request'[q].conn = request[q].conn
           /\ request'[q].channel = request[q].channel
           /\ request'[q].phase = IF q = r THEN "waiting" ELSE request[q].phase
    BY <1>8 DEF Enqueue, Request
  <2>3. request[r].phase = "sending"
    BY <1>8 DEF Enqueue
  <2>4. \A b \in Conns : /\ client[b].answer \in Requests \cup {None}
                         /\ client[b].capReqs \subseteq Requests
    BY DEF Client
  <2> QED
    BY <2>1, <2>2, <2>3, <2>4 DEF HandInv, FreshRequests, ListedEntries,
       AnswersHeld, InFlight, Unlisted
<1>9. ASSUME NEW r \in Requests, Retract(r) PROVE HandInv'
  <2>1. request[r].phase = "retract"
    BY <1>9 DEF Retract
  <2>2. request[r].conn \in Conns
    BY <2>1 DEF HandInv, FreshRequests
  <2>3. \A b \in Conns :
           /\ client'[b].answer = client[b].answer
           /\ client'[b].capReqs = IF b = request[r].conn THEN client[b].capReqs \ {r}
                                   ELSE client[b].capReqs
    BY <1>9, <2>2 DEF Retract, Client
  <2>4. \A q \in Requests :
           /\ request'[q].conn = request[q].conn
           /\ request'[q].channel = request[q].channel
           /\ request'[q].phase = IF q = r THEN "refused" ELSE request[q].phase
    BY <1>9 DEF Retract, Request
  <2>5. FreshRequests'
    BY <2>1, <2>2, <2>4 DEF HandInv, FreshRequests, Unlisted
  <2>6. ListedEntries'
    <3>1. \A b \in Conns : r \notin client'[b].capReqs
      <4> SUFFICES ASSUME NEW b \in Conns, r \in client'[b].capReqs PROVE FALSE
        OBVIOUS
      <4>1. b # request[r].conn /\ r \in client[b].capReqs
        BY <2>3
      <4>2. request[r].conn = b
        BY <4>1 DEF HandInv, ListedEntries
      <4> QED
        BY <4>1, <4>2
    <3> QED
      BY <2>3, <2>4, <3>1, ListedKept DEF HandInv, Client
  <2>7. AnswersHeld'
    BY <2>1, <2>3, <2>4, AnswersKept DEF HandInv, Unlisted, Client
  <2> QED
    BY <2>5, <2>6, <2>7 DEF HandInv
<1>10. ASSUME NEW r \in Requests, TakeAnswer(r) PROVE HandInv'
  <2>1. request[r].phase = "waiting" /\ request[r].channel # "empty" /\ client' = client
    BY <1>10 DEF TakeAnswer
  <2>2. \A q \in Requests :
           /\ request'[q].conn = request[q].conn
           /\ q # r => request'[q] = request[q]
           /\ request'[r].phase = "answered" /\ request'[r].channel = "empty"
    BY <1>10 DEF TakeAnswer, Request
  <2>3. \A b \in Conns : /\ client[b].answer \in Requests \cup {None}
                         /\ client[b].capReqs \subseteq Requests
    BY DEF Client
  <2> QED
    BY <2>1, <2>2, <2>3 DEF HandInv, FreshRequests, ListedEntries, AnswersHeld,
       InFlight, Unlisted
<1>11. ASSUME NEW c \in Conns, NEW r \in Requests, ReadResponse(c, r) PROVE HandInv'
  <2>1. request' = request /\ client[c].answer = None
    BY <1>11 DEF ReadResponse
  <2>2. \A b \in Conns :
           /\ client'[b].capReqs = IF b = c THEN client[b].capReqs \ {r}
                                   ELSE client[b].capReqs
           /\ client'[b].answer = IF b = c
                                  THEN IF r \in client[c].capReqs THEN r ELSE None
                                  ELSE client[b].answer
    BY <1>11 DEF ReadResponse, HandleResponse, Client
  <2>3. \A b \in Conns : client[b].capReqs \subseteq Requests
    BY DEF Client
  <2>4. FreshRequests'
    BY <2>1 DEF HandInv, FreshRequests
  <2>5. ListedEntries'
    <3> SUFFICES ASSUME NEW b \in Conns, NEW q \in client'[b].capReqs
                 PROVE  /\ request[q].conn = b
                        /\ request[q].phase \in InFlight
                        /\ request[q].channel = "empty"
                        /\ client'[b].answer # q
      BY <2>1 DEF ListedEntries
    <3>1. q \in client[b].capReqs /\ q \in Requests /\ (b = c => q # r)
      BY <2>2, <2>3
    <3>2. q # None
      BY <3>1, HubAssumption
    <3> QED
      <4>1. /\ request[q].conn = b /\ request[q].phase \in InFlight
            /\ request[q].channel = "empty" /\ client[b].answer # q
        BY <3>1 DEF HandInv, ListedEntries
      <4>2. client'[b].answer \in {r, None, client[b].answer}
        BY <2>2
      <4>3. client'[b].answer = r => b = c \/ client[b].answer = r
        BY <2>2
      <4> QED
        BY <3>1, <3>2, <4>1, <4>2, <4>3
  <2>6. AnswersHeld'
    <3> SUFFICES ASSUME NEW b \in Conns, client'[b].answer # None
                 PROVE  /\ request[client'[b].answer].conn = b
                        /\ request[client'[b].answer].phase \notin Unlisted
                        /\ request[client'[b].answer].channel = "empty"
      BY <2>1 DEF AnswersHeld
    <3>1. CASE b = c
      <4>1. client'[b].answer = r /\ r \in client[c].capReqs
        BY <2>2, <3>1
      <4> QED
        BY <3>1, <4>1 DEF HandInv, ListedEntries, InFlight, Unlisted
    <3>2. CASE b # c
      BY <2>2, <3>2 DEF HandInv, AnswersHeld
    <3> QED
      BY <3>1, <3>2
  <2> QED
    BY <2>4, <2>5, <2>6 DEF HandInv
<1>12. ASSUME NEW c \in Conns, HandOver(c) PROVE HandInv'
  <2> DEFINE r == client[c].answer
  <2>1. r # None /\ r \in Requests
    BY <1>12 DEF HandOver, Client
  <2>2. \A b \in Conns :
           /\ client'[b].capReqs = client[b].capReqs
           /\ client'[b].answer = IF b = c THEN None ELSE client[b].answer
    BY <1>12 DEF HandOver, Client
  <2>3. \A q \in Requests :
           /\ request'[q].conn = request[q].conn
           /\ request'[q].phase = request[q].phase
           /\ q # r => request'[q].channel = request[q].channel
    BY <1>12 DEF HandOver, Request
  <2>4. request[r].conn = c /\ request[r].phase \notin Unlisted
    BY <2>1 DEF HandInv, AnswersHeld
  <2>5. \A b \in Conns : r \notin client[b].capReqs
    BY <2>4 DEF HandInv, ListedEntries
  <2>6. \A b \in Conns : /\ client[b].answer \in Requests \cup {None}
                         /\ client[b].capReqs \subseteq Requests
    BY DEF Client
  <2> HIDE DEF r
  <2>7. FreshRequests'
    BY <2>1, <2>3, <2>4 DEF HandInv, FreshRequests
  <2>8. ListedEntries'
    BY <2>2, <2>3, <2>5, <2>6, ListedKept DEF HandInv
  <2>9. AnswersHeld'
    <3> SUFFICES ASSUME NEW b \in Conns, client'[b].answer # None
                 PROVE  /\ request'[client'[b].answer].conn = b
                        /\ request'[client'[b].answer].phase \notin Unlisted
                        /\ request'[client'[b].answer].channel = "empty"
      BY DEF AnswersHeld
    <3>1. b # c /\ client'[b].answer = client[b].answer /\ client[b].answer \in Requests
      BY <2>2, <2>6
    <3>2. request[client[b].answer].conn = b
      BY <3>1 DEF HandInv, AnswersHeld
    <3>3. client[b].answer # r
      BY <2>4, <3>1, <3>2
    <3> QED
      BY <2>3, <3>1, <3>3 DEF HandInv, AnswersHeld
  <2> QED
    BY <2>7, <2>8, <2>9 DEF HandInv
<1>13. CASE UNCHANGED vars
  BY <1>13, HandUntouched DEF vars
<1> QED
  BY <1>1, <1>2, <1>3, <1>4, <1>5, <1>6, <1>7, <1>8, <1>9, <1>10, <1>11, <1>12,
     <1>13 DEF Next

(* The type invariant and HandInv hold throughout.                         *)
LEMMA HandAlways == Spec => [](TypeOK /\ HandInv)
<1>1. Init => TypeOK /\ HandInv
  BY InitType, HandInit
<1>2. TypeOK /\ HandInv /\ [Next]_vars => (TypeOK /\ HandInv)'
  BY NextType, HandNext
<1> QED
  BY <1>1, <1>2, PTL DEF Spec

(* A read pump that has an answer to hand over never finds the request's   *)
(* channel full, and so never blocks (ReadPumpNeverBlocks).                *)
THEOREM PumpsNeverBlock == Spec => []ReadPumpNeverBlocks
<1>1. TypeOK /\ HandInv => ReadPumpNeverBlocks
  BY DEF HandInv, AnswersHeld, ReadPumpNeverBlocks
<1> QED
  BY <1>1, HandAlways, PTL

(* An entry of capReqs belongs to a call of this connection that has not   *)
(* returned (NoEntryOutlivesItsCall).                                      *)
THEOREM EntriesEndWithTheirCalls == Spec => []NoEntryOutlivesItsCall
<1>1. TypeOK /\ HandInv => NoEntryOutlivesItsCall
  BY DEF HandInv, ListedEntries, InFlight, NoEntryOutlivesItsCall
<1> QED
  BY <1>1, HandAlways, PTL
-----------------------------------------------------------------------------
(* Why nobody waits for a connection that is gone.  A call under way has   *)
(* its entry in capReqs, or an answer, or the read pump holds its answer.  *)
(* A client that has failed its pending requests was cancelled before, so  *)
(* that a call that lists its channel later finds it done and retracts.    *)
Failed == {"failed", "closed", "gone"}

Tracked ==
    \A r \in Requests : request[r].phase \in InFlight =>
        \/ r \in client[request[r].conn].capReqs
        \/ request[r].channel # "empty"
        \/ client[request[r].conn].answer = r

CancelledFirst ==
    \A c \in Conns : client[c].stage \in Failed \cup {"cancelled"} => client[c].done

LateEntries ==
    \A c \in Conns : client[c].stage \in Failed =>
        \A r \in client[c].capReqs : request[r].phase \in {"listed", "retract"}

WaitInv == Tracked /\ CancelledFirst /\ LateEntries

(* A call stays tracked if its entry only gives way to an answer.          *)
LEMMA TrackedKept ==
    ASSUME TypeOK, HandInv, Tracked,
           \A r \in Requests : request'[r].phase \in InFlight =>
               /\ request[r].phase \in InFlight
               /\ request'[r].conn = request[r].conn
               /\ request[r].channel # "empty" => request'[r].channel # "empty",
           \A c \in Conns : \A r \in Requests :
               /\ request'[r].phase \in InFlight
               /\ request[r].conn = c
               /\ r \in client[c].capReqs \/ client[c].answer = r
               => \/ r \in client'[c].capReqs \/ client'[c].answer = r
                  \/ request'[r].channel # "empty"
    PROVE  Tracked'
<1>1. \A r \in Requests : request[r].phase \in InFlight => request[r].conn \in Conns
  BY DEF HandInv, FreshRequests, InFlight
<1> SUFFICES ASSUME NEW r \in Requests, request'[r].phase \in InFlight
             PROVE  \/ r \in client'[request'[r].conn].capReqs
                    \/ request'[r].channel # "empty"
                    \/ client'[request'[r].conn].answer = r
  BY DEF Tracked
<1>2. \/ r \in client[request[r].conn].capReqs
      \/ request[r].channel # "empty"
      \/ client[request[r].conn].answer = r
  BY DEF Tracked
<1> QED
  BY <1>1, <1>2

(* No entry of a client that has failed its requests is queued or waited   *)
(* for, if entries only go away or move on to being retracted.             *)
LEMMA LateEntriesKept ==
    ASSUME LateEntries,
           \A c \in Conns : client'[c].stage \in Failed =>
               \A r \in client'[c].capReqs :
                   /\ r \in client[c].capReqs
                   /\ client[c].stage \in Failed
                   /\ request'[r].phase \in {request[r].phase, "retract"}
    PROVE  LateEntries'
<1> SUFFICES ASSUME NEW c \in Conns, client'[c].stage \in Failed,
                    NEW r \in client'[c].capReqs
             PROVE  request'[r].phase \in {"listed", "retract"}
  BY DEF LateEntries
<1> QED
  BY DEF LateEntries

(* A client that is cancelled stays so: nothing clears done, and the stage *)
(* after the deletion sets it.                                             *)
LEMMA CancelledKept ==
    ASSUME CancelledFirst,
           \A c \in Conns :
               /\ client[c].done => client'[c].done
               /\ client'[c].stage \in Failed \cup {"cancelled"} =>
                     client'[c].done \/ client[c].stage \in Failed \cup {"cancelled"}
    PROVE  CancelledFirst'
BY DEF CancelledFirst

(* What leaves the callers alone, and of the clients their entries, their  *)
(* answers and their stages, leaves WaitInv alone.                         *)
LEMMA WaitUntouched ==
    ASSUME TypeOK, HandInv, WaitInv, request' = request,
           \A c \in Conns : /\ client'[c].capReqs = client[c].capReqs
                            /\ client'[c].answer = client[c].answer
                            /\ client'[c].stage = client[c].stage
                            /\ client'[c].done = client[c].done
    PROVE  WaitInv'
<1>1. Tracked'
  BY TrackedKept DEF WaitInv
<1>2. CancelledFirst'
  BY CancelledKept DEF WaitInv
<1>3. LateEntries'
  BY LateEntriesKept DEF WaitInv
<1> QED
  BY <1>1, <1>2, <1>3 DEF WaitInv

(* Nobody has called anything, and no client is listed, in the beginning.  *)
LEMMA WaitInit == Init => WaitInv
BY DEF Init, NewClient, WaitInv, Tracked, CancelledFirst, LateEntries, Failed, InFlight

(* Every step keeps WaitInv: the removal of the client cancels first and   *)
(* answers every entry it takes out, and the read pump holds the answer of *)
(* the entry it takes out.                                                 *)
LEMMA WaitNext == TypeOK /\ HandInv /\ WaitInv /\ [Next]_vars => WaitInv'
<1> SUFFICES ASSUME TypeOK, HandInv, WaitInv, [Next]_vars PROVE WaitInv'
  OBVIOUS
<1> USE DEF TypeOK
<1> client \in [Conns -> Client] /\ request \in [Requests -> Request]
  OBVIOUS
<1>1. ASSUME NEW c \in Conns, Connect(c) \/ Remove(c) PROVE WaitInv'
  <2>1. PICK st \in {"listed", "deleted"} : client' = [client EXCEPT ![c].stage = st]
    BY <1>1 DEF Connect, Remove
  <2>2. request' = request
    BY <1>1 DEF Connect, Remove
  <2>3. \A b \in Conns :
           /\ client'[b].capReqs = client[b].capReqs
           /\ client'[b].answer = client[b].answer
           /\ client'[b].done = client[b].done
           /\ client'[b].stage = IF b = c THEN st ELSE client[b].stage
    BY <2>1 DEF Client
  <2>4. Tracked'
    BY <2>2, <2>3, TrackedKept DEF WaitInv
  <2>5. CancelledFirst'
    BY <2>3, CancelledKept DEF WaitInv, Failed
  <2>6. LateEntries'
    BY <2>2, <2>3, LateEntriesKept DEF WaitInv, Failed
  <2> QED
    BY <2>4, <2>5, <2>6 DEF WaitInv
<1>2. ASSUME NEW c \in Conns, RemovalStep(c) PROVE WaitInv'
  <2> DEFINE next == NextStage(client[c].stage)
  <2>1. /\ client[c].stage \in {"deleted", "cancelled", "failed", "closed"}
        /\ \/ client[c].stage = "deleted" /\ next = "cancelled"
           \/ client[c].stage = "cancelled" /\ next = "failed"
           \/ client[c].stage = "failed" /\ next = "closed"
           \/ client[c].stage = "closed" /\ next = "gone"
    BY <1>2 DEF RemovalStep, Removing, NextStage
  <2>2. \A b \in Conns : b # c => client'[b] = client[b]
    BY <1>2 DEF RemovalStep
  <2>3. /\ client'[c].stage = next
        /\ client'[c].answer = client[c].answer
        /\ client'[c].done = (client[c].done \/ next = "cancelled")
        /\ client'[c].capReqs = IF next = "failed" THEN {} ELSE client[c].capReqs
    BY <1>2 DEF RemovalStep, Client
  <2>4. IF next = "failed" THEN FailPending(c) ELSE request' = request
    BY <1>2 DEF RemovalStep
  <2>5. \A r \in Requests :
           /\ request'[r].phase = request[r].phase
           /\ request'[r].conn = request[r].conn
           /\ request[r].channel # "empty" => request'[r].channel # "empty"
           /\ next = "failed" /\ r \in client[c].capReqs => request'[r].channel # "empty"
    BY <2>4 DEF FailPending, Request
  <2> HIDE DEF next
  <2>6. Tracked'
    BY <2>2, <2>3, <2>5, TrackedKept DEF WaitInv
  <2>7. CancelledFirst'
    BY <2>1, <2>2, <2>3, CancelledKept DEF WaitInv, Failed
  <2>8. LateEntries'
    <3>1. \A b \in Conns : \A r \in client'[b].capReqs :
             /\ r \in client[b].capReqs
             /\ r \in Requests
      BY <2>2, <2>3 DEF Client
    <3>2. \A b \in Conns : \A r \in client'[b].capReqs :
             client'[b].stage \in Failed => client[b].stage \in Failed
      BY <2>1, <2>2, <2>3 DEF Failed
    <3> QED
      BY <2>5, <3>1, <3>2, LateEntriesKept DEF WaitInv
  <2> QED
    BY <2>6, <2>7, <2>8 DEF WaitInv
<1>3. ASSUME NEW p \in Posts,
             \/ \E c \in Conns, d \in Devices : Validate(p, c, d)
             \/ Register(p) \/ Bind(p)
             \/ \E d \in Devices : RegisterUnbound(p, d)
      PROVE  WaitInv'
  <2>1. request' = request
    BY <1>3 DEF Validate, Register, Bind, RegisterUnbound
  <2>2. \/ client' = client
        \/ client' = [client EXCEPT ![post[p].conn].deviceID = post[p].device]
    BY <1>3 DEF Validate, Register, Bind, RegisterUnbound
  <2>3. ASSUME NEW b \in Conns
        PROVE  /\ client'[b].capReqs = client[b].capReqs
               /\ client'[b].answer = client[b].answer
               /\ client'[b].stage = client[b].stage
               /\ client'[b].done = client[b].done
    <3>1. client[b] \in Client /\ b \in DOMAIN client
      BY DEF TypeOK
    <3>2. \/ client'[b] = client[b]
          \/ client'[b] = [client[b] EXCEPT !.deviceID = post[p].device]
      BY <2>2, <3>1
    <3> QED
      BY <3>1, <3>2 DEF Client
  <2> QED
    BY <2>1, <2>3, WaitUntouched
<1>4. ASSUME NEW d \in Devices, Unregister(d) \/ PruneStale(d) PROVE WaitInv'
  BY <1>4, WaitUntouched DEF Unregister, PruneStale
<1>5. ASSUME NEW c \in Conns, WriteFrame(c) PROVE WaitInv'
  <2> DEFINE sent == Tail(client[c].send)
             got == client[c].asked \cup {Head(client[c].send)}
  <2>1. /\ client' = [client EXCEPT ![c].send = sent, ![c].asked = got]
        /\ request' = request
    BY <1>5 DEF WriteFrame
  <2> HIDE DEF sent, got
  <2>2. ASSUME NEW b \in Conns
        PROVE  /\ client'[b].capReqs = client[b].capReqs
               /\ client'[b].answer = client[b].answer
               /\ client'[b].stage = client[b].stage
               /\ client'[b].done = client[b].done
    <3>1. client[b] \in Client /\ b \in DOMAIN client
      BY DEF TypeOK
    <3>2. \/ client'[b] = client[b]
          \/ client'[b] = [client[b] EXCEPT !.send = sent, !.asked = got]
      BY <2>1, <3>1
    <3> QED
      BY <3>1, <3>2 DEF Client
  <2> QED
    BY <2>1, <2>2, WaitUntouched
<1>6. ASSUME NEW r \in Requests, NEW c \in Conns, FindClient(r, c) PROVE WaitInv'
  <2>1. client' = client /\ request[r].phase = "idle"
    BY <1>6 DEF FindClient
  <2>2. /\ \A q \in Requests : q # r => request'[q] = request[q]
        /\ request'[r].phase = "found"
    <3>1. \A e \in Request : [e EXCEPT !.phase = "found", !.conn = c].phase = "found"
      BY DEF Request
    <3> QED
      BY <1>6, <3>1 DEF FindClient
  <2>3. \A b \in Conns : \A q \in client[b].capReqs : q \in Requests /\ q # r
    <3>1. \A b \in Conns : client[b].capReqs \subseteq Requests
      BY DEF Client
    <3>2. \A b \in Conns : \A q \in client[b].capReqs : request[q].phase \in InFlight
      BY DEF HandInv, ListedEntries
    <3> QED
      BY <2>1, <3>1, <3>2 DEF InFlight
  <2>4. Tracked'
    <3>1. \A q \in Requests : request'[q].phase \in InFlight =>
            /\ q # r
            /\ request'[q] = request[q]
      BY <2>2 DEF InFlight
    <3> QED
      BY <2>1, <3>1, TrackedKept DEF WaitInv
  <2>5. CancelledFirst'
    BY <2>1, CancelledKept DEF WaitInv
  <2>6. LateEntries'
    BY <2>1, <2>2, <2>3, LateEntriesKept DEF WaitInv
  <2> QED
    BY <2>4, <2>5, <2>6 DEF WaitInv
<1>7. ASSUME NEW r \in Requests, ListChannel(r) PROVE WaitInv'
  <2> DEFINE c == request[r].conn
  <2>1. c \in Conns /\ request[r].phase = "found"
    BY <1>7 DEF ListChannel, HandInv, FreshRequests
  <2>2. \A b \in Conns :
           /\ client'[b].answer = client[b].answer
           /\ client'[b].stage = client[b].stage
           /\ client'[b].done = client[b].done
           /\ client'[b].capReqs = IF b = c THEN client[b].capReqs \cup {r}
                                   ELSE client[b].capReqs
    BY <1>7, <2>1 DEF ListChannel, Client
  <2>3. /\ \A q \in Requests : q # r => request'[q] = request[q]
        /\ request'[r].phase = "listed" /\ request'[r].conn = c
    BY <1>7 DEF ListChannel, Request
  <2> HIDE DEF c
  <2>4. Tracked'
    <3> SUFFICES ASSUME NEW q \in Requests, request'[q].phase \in InFlight
                 PROVE  \/ q \in client'[request'[q].conn].capReqs
                        \/ request'[q].channel # "empty"
                        \/ client'[request'[q].conn].answer = q
      BY DEF Tracked
    <3>1. CASE q = r
      BY <2>1, <2>2, <2>3, <3>1
    <3>2. CASE q # r
      <4>1. request'[q] = request[q] /\ request[q].conn \in Conns
        BY <2>3, <3>2 DEF HandInv, FreshRequests, InFlight
      <4>2. \/ q \in client[request[q].conn].capReqs
            \/ request[q].channel # "empty"
            \/ client[request[q].conn].answer = q
        BY <4>1 DEF WaitInv, Tracked
      <4> QED
        BY <2>2, <4>1, <4>2
    <3> QED
      BY <3>1, <3>2
  <2>5. CancelledFirst'
    BY <2>2, CancelledKept DEF WaitInv
  <2>6. LateEntries'
    <3> SUFFICES ASSUME NEW b \in Conns, client'[b].stage \in Failed,
                        NEW q \in client'[b].capReqs
                 PROVE  request'[q].phase \in {"listed", "retract"}
      BY DEF LateEntries
    <3>1. CASE q = r
      BY <2>3, <3>1
    <3>2. CASE q # r
      <4>1. q \in client[b].capReqs /\ q \in Requests /\ client[b].stage \in Failed
        <5>1. client'[b].capReqs \subseteq client[b].capReqs \cup {r}
          BY <2>2
        <5> QED
          BY <2>2, <3>2, <5>1 DEF Client
      <4> QED
        BY <2>3, <3>2, <4>1 DEF WaitInv, LateEntries
    <3> QED
      BY <3>1, <3>2
  <2> QED
    BY <2>4, <2>5, <2>6 DEF WaitInv
<1>8. ASSUME NEW r \in Requests, CheckDone(r) PROVE WaitInv'
  <2> DEFINE c == request[r].conn
  <2>1. client' = client /\ request[r].phase = "listed" /\ c \in Conns
    BY <1>8 DEF CheckDone, HandInv, FreshRequests
  <2>2. /\ \A q \in Requests : q # r => request'[q] = request[q]
        /\ request'[r].phase = IF client[c].done THEN "retract" ELSE "sending"
        /\ request'[r].conn = c /\ request'[r].channel = request[r].channel
    BY <1>8 DEF CheckDone, Request
  <2>3. \A b \in Conns : \A q \in client[b].capReqs :
           q \in Requests /\ (q = r => b = c)
    BY DEF HandInv, ListedEntries, Client
  <2> HIDE DEF c
  <2>4. Tracked'
    BY <2>1, <2>2, TrackedKept DEF WaitInv, InFlight, c
  <2>5. CancelledFirst'
    BY <2>1, CancelledKept DEF WaitInv
  <2>6. LateEntries'
    <3>1. client[c].stage \in Failed => request'[r].phase = "retract"
      BY <2>1, <2>2 DEF WaitInv, CancelledFirst
    <3> QED
      BY <2>1, <2>2, <2>3, <3>1, LateEntriesKept DEF WaitInv
  <2> QED
    BY <2>4, <2>5, <2>6 DEF WaitInv
<1>9. ASSUME NEW r \in Requests, NotEnqueued(r) \/ TimeOut(r) PROVE WaitInv'
  <2>1. client' = client /\ request[r].phase \in InFlight
    BY <1>9 DEF NotEnqueued, TimeOut, InFlight
  <2>2. /\ \A q \in Requests : q # r => request'[q] = request[q]
        /\ request'[r].phase = "retract" /\ request'[r].conn = request[r].conn
        /\ request'[r].channel = request[r].channel
    BY <1>9 DEF NotEnqueued, TimeOut, Request
  <2>3. \A b \in Conns : client[b].capReqs \subseteq Requests
    BY DEF Client
  <2>4. Tracked'
    BY <2>1, <2>2, TrackedKept DEF WaitInv
  <2>5. CancelledFirst'
    BY <2>1, CancelledKept DEF WaitInv
  <2>6. LateEntries'
    BY <2>1, <2>2, <2>3, LateEntriesKept DEF WaitInv
  <2> QED
    BY <2>4, <2>5, <2>6 DEF WaitInv
<1>10. ASSUME NEW r \in Requests, Enqueue(r) PROVE WaitInv'
  <2>1. request[r].phase = "sending"
    BY <1>10 DEF Enqueue
  <2>2. \A b \in Conns :
           /\ client'[b].answer = client[b].answer
           /\ client'[b].stage = client[b].stage
           /\ client'[b].done = client[b].done
           /\ client'[b].capReqs = client[b].capReqs
    <3> DEFINE queued == Append(client[request[r].conn].send, r)
    <3>1. client' = [client EXCEPT ![request[r].conn].send = queued]
      BY <1>10 DEF Enqueue
    <3> HIDE DEF queued
    <3> QED
      BY <3>1 DEF Client
  <2>3. /\ \A q \in Requests : q # r => request'[q] = request[q]
        /\ request'[r].phase = "waiting" /\ request'[r].conn = request[r].conn
        /\ request'[r].channel = request[r].channel
    BY <1>10 DEF Enqueue, Request
  <2>4. Tracked'
    BY <2>1, <2>2, <2>3, TrackedKept DEF WaitInv, InFlight
  <2>5. CancelledFirst'
    BY <2>2, CancelledKept DEF WaitInv
  <2>6. LateEntries'
    <3>1. \A b \in Conns : \A q \in client[b].capReqs :
             client[b].stage \in Failed => q \in Requests /\ q # r
      BY <2>1 DEF WaitInv, LateEntries, Client
    <3> QED
      BY <2>2, <2>3, <3>1, LateEntriesKept DEF WaitInv
  <2> QED
    BY <2>4, <2>5, <2>6 DEF WaitInv
<1>11. ASSUME NEW r \in Requests, Retract(r) PROVE WaitInv'
  <2>1. \A b \in Conns :
           /\ client'[b].answer = client[b].answer
           /\ client'[b].stage = client[b].stage
           /\ client'[b].done = client[b].done
           /\ client'[b].capReqs \in {client[b].capReqs, client[b].capReqs \ {r}}
    BY <1>11 DEF Retract, Client
  <2>2. /\ \A q \in Requests : q # r => request'[q] = request[q]
        /\ request'[r].phase = "refused"
    BY <1>11 DEF Retract, Request
  <2>3. Tracked'
    BY <2>1, <2>2, TrackedKept DEF WaitInv, InFlight
  <2>4. CancelledFirst'
    BY <2>1, CancelledKept DEF WaitInv
  <2>5. LateEntries'
    <3>1. \A b \in Conns : r \notin client'[b].capReqs
      <4> SUFFICES ASSUME NEW b \in Conns, r \in client'[b].capReqs PROVE FALSE
        OBVIOUS
      <4>1. r \in client[b].capReqs
        BY <2>1
      <4>2. request[r].conn = b
        BY <4>1 DEF HandInv, ListedEntries
      <4>3. client'[b].capReqs = client[b].capReqs \ {r}
        BY <1>11, <4>2 DEF Retract, Client
      <4> QED
        BY <4>3
    <3>2. \A b \in Conns : \A q \in client'[b].capReqs :
             q \in client[b].capReqs /\ q \in Requests /\ q # r
      BY <2>1, <3>1 DEF Client
    <3> QED
      BY <2>1, <2>2, <3>2, LateEntriesKept DEF WaitInv
  <2> QED
    BY <2>3, <2>4, <2>5 DEF WaitInv
<1>12. ASSUME NEW r \in Requests, TakeAnswer(r) PROVE WaitInv'
  <2>1. client' = client /\ request[r].channel # "empty"
    BY <1>12 DEF TakeAnswer
  <2>2. /\ \A q \in Requests : q # r => request'[q] = request[q]
        /\ request'[r].phase = "answered"
    BY <1>12 DEF TakeAnswer, Request
  <2>3. \A b \in Conns : \A q \in client[b].capReqs : q \in Requests /\ q # r
    BY <2>1 DEF HandInv, ListedEntries, Client
  <2>4. Tracked'
    BY <2>1, <2>2, TrackedKept DEF WaitInv, InFlight
  <2>5. CancelledFirst'
    BY <2>1, CancelledKept DEF WaitInv
  <2>6. LateEntries'
    BY <2>1, <2>2, <2>3, LateEntriesKept DEF WaitInv
  <2> QED
    BY <2>4, <2>5, <2>6 DEF WaitInv
<1>13. ASSUME NEW c \in Conns, NEW r \in Requests, ReadResponse(c, r) PROVE WaitInv'
  <2>1. request' = request /\ client[c].answer = None
    BY <1>13 DEF ReadResponse
  <2>2. /\ \A b \in Conns : b # c => client'[b] = client[b]
        /\ client'[c].stage = client[c].stage /\ client'[c].done = client[c].done
        /\ client'[c].capReqs = client[c].capReqs \ {r}
        /\ client'[c].answer = IF r \in client[c].capReqs THEN r ELSE None
    BY <1>13 DEF ReadResponse, HandleResponse, Client
  <2>3. \A q \in Requests : q # None
    BY HubAssumption
  <2>4. Tracked'
    BY <2>1, <2>2, <2>3, TrackedKept DEF WaitInv
  <2>5. CancelledFirst'
    BY <2>2, CancelledKept DEF WaitInv
  <2>6. LateEntries'
    BY <2>1, <2>2, LateEntriesKept DEF WaitInv
  <2> QED
    BY <2>4, <2>5, <2>6 DEF WaitInv
<1>14. ASSUME NEW c \in Conns, HandOver(c) PROVE WaitInv'
  <2> DEFINE r == client[c].answer
  <2>1. r # None /\ r \in Requests
    BY <1>14 DEF HandOver, Client
  <2>2. \A b \in Conns :
           /\ client'[b].capReqs = client[b].capReqs
           /\ client'[b].stage = client[b].stage
           /\ client'[b].done = client[b].done
           /\ client'[b].answer = IF b = c THEN None ELSE client[b].answer
    BY <1>14 DEF HandOver, Client
  <2>3. /\ \A q \in Requests : q # r => request'[q] = request[q]
        /\ request'[r].phase = request[r].phase /\ request'[r].conn = request[r].conn
        /\ request'[r].channel = "answer"
    BY <1>14, <2>1 DEF HandOver, Request
  <2>4. \A b \in Conns : client[b].capReqs \subseteq Requests
    BY DEF Client
  <2> HIDE DEF r
  <2>5. Tracked'
    <3>1. \A q \in Requests : q # r => client[c].answer # q
      BY DEF r
    <3> QED
      BY <2>1, <2>2, <2>3, <3>1, TrackedKept DEF WaitInv
  <2>6. CancelledFirst'
    BY <2>2, CancelledKept DEF WaitInv
  <2>7. LateEntries'
    BY <2>2, <2>3, <2>4, LateEntriesKept DEF WaitInv
  <2> QED
    BY <2>5, <2>6, <2>7 DEF WaitInv
<1>15. CASE UNCHANGED vars
  BY <1>15, WaitUntouched DEF vars
<1> QED
  BY <1>1, <1>2, <1>3, <1>4, <1>5, <1>6, <1>7, <1>8, <1>9, <1>10, <1>11, <1>12,
     <1>13, <1>14, <1>15 DEF Next

(* A caller of RequestCapability is never left waiting for a connection    *)
(* that has failed its pending requests: it has an answer, or the read pump*)
(* is about to hand it one (NobodyWaitsForTheGone).                        *)
THEOREM NoLostCaller == Spec => []NobodyWaitsForTheGone
<1>1. Init => WaitInv
  BY WaitInit
<1>2. TypeOK /\ HandInv /\ WaitInv /\ [Next]_vars => WaitInv'
  BY WaitNext
<1>3. TypeOK /\ HandInv /\ WaitInv => NobodyWaitsForTheGone
  <2> SUFFICES ASSUME TypeOK, HandInv, WaitInv, NEW r \in Requests,
                      request[r].phase = "waiting",
                      client[request[r].conn].stage \in Failed
               PROVE  \/ request[r].channel # "empty"
                      \/ client[request[r].conn].answer = r
    BY DEF NobodyWaitsForTheGone, Failed
  <2>1. request[r].conn \in Conns
    BY DEF HandInv, FreshRequests
  <2>2. r \notin client[request[r].conn].capReqs
    BY <2>1 DEF WaitInv, LateEntries
  <2> QED
    BY <2>2 DEF WaitInv, Tracked, InFlight
<1> QED
  BY <1>1, <1>2, <1>3, HandAlways, PTL DEF Spec

-----------------------------------------------------------------------------
(* The registrations.  A POST that is under way knows its connection and   *)
(* its device, and one that has bound them is done.                        *)
PostInv ==
    \A p \in Posts :
        /\ post[p].phase \in {"validated", "registered"} =>
              post[p].conn \in Conns /\ post[p].device \in Devices
        /\ post[p].bound => /\ post[p].phase = "done"
                            /\ post[p].conn \in Conns
                            /\ post[p].device \in Devices

(* A connection that is gone keeps the device it was bound to; the device's*)
(* entry either keeps its writer and is not online, or has a new writer,   *)
(* which is no POST that was done before; and no POST becomes bound to it. *)
LEMMA OfflineKept ==
    ASSUME PostInv, DeviceOfGoneConnectionIsOffline,
           \A p \in Posts : post'[p].bound =>
               \/ post'[p] = post[p]
               \/ client'[post'[p].conn].stage # "gone",
           \A c \in Conns : client'[c].stage = "gone" =>
               /\ client'[c].deviceID = client[c].deviceID
               /\ \/ client[c].stage = "gone"
                  \/ client[c].deviceID \in Devices =>
                        registry'[client[c].deviceID].status # "online",
           \A d \in Devices :
               \/ registry'[d].status # "online"
               \/ registry'[d] = registry[d]
               \/ \A p \in Posts : registry'[d].by = p => ~post'[p].bound
    PROVE  DeviceOfGoneConnectionIsOffline'
<1> SUFFICES ASSUME NEW p \in Posts, post'[p].bound,
                    client'[post'[p].conn].stage = "gone",
                    client'[post'[p].conn].deviceID = post'[p].device,
                    registry'[post'[p].device].by = p
             PROVE  registry'[post'[p].device].status # "online"
  BY DEF DeviceOfGoneConnectionIsOffline
<1>1. /\ post'[p] = post[p] /\ post[p].bound
      /\ post[p].conn \in Conns /\ post[p].device \in Devices
  BY DEF PostInv
<1>2. CASE client[post[p].conn].stage = "gone"
  BY <1>1, <1>2 DEF DeviceOfGoneConnectionIsOffline
<1>3. CASE client[post[p].conn].stage # "gone"
  BY <1>1, <1>3
<1> QED
  BY <1>2, <1>3

(* No POST has come in the initial state.                                  *)
LEMMA PostInit == Init => PostInv /\ DeviceOfGoneConnectionIsOffline
BY DEF Init, NewClient, PostInv, DeviceOfGoneConnectionIsOffline

(* Every step keeps PostInv.                                               *)
LEMMA PostNext == TypeOK /\ PostInv /\ [Next]_vars => PostInv'
<1> SUFFICES ASSUME TypeOK, PostInv, [Next]_vars PROVE PostInv'
  OBVIOUS
<1>1. CASE post' = post
  BY <1>1 DEF PostInv
<1>2. ASSUME NEW p \in Posts, NEW c \in Conns, NEW d \in Devices, Validate(p, c, d)
      PROVE  PostInv'
  <2>1. /\ \A q \in Posts : q # p => post'[q] = post[q]
        /\ post'[p].phase = "validated" /\ post'[p].conn = c /\ post'[p].device = d
        /\ post'[p].bound = post[p].bound /\ post[p].phase = "idle"
    BY <1>2 DEF Validate, TypeOK, Post
  <2> QED
    BY <2>1 DEF PostInv
<1>3. ASSUME NEW p \in Posts, Register(p) PROVE PostInv'
  <2>1. /\ \A q \in Posts : q # p => post'[q] = post[q]
        /\ post'[p].conn = post[p].conn /\ post'[p].device = post[p].device
        /\ post'[p].bound = post[p].bound /\ post[p].phase = "validated"
    BY <1>3 DEF Register, TypeOK, Post
  <2> QED
    BY <2>1 DEF PostInv
<1>4. ASSUME NEW p \in Posts, Bind(p) PROVE PostInv'
  <2>1. /\ \A q \in Posts : q # p => post'[q] = post[q]
        /\ post'[p].conn = post[p].conn /\ post'[p].device = post[p].device
        /\ post[p].phase = "registered" /\ post'[p].phase = "done"
    BY <1>4 DEF Bind, TypeOK, Post
  <2> QED
    BY <2>1 DEF PostInv
<1>5. ASSUME NEW p \in Posts, NEW d \in Devices, RegisterUnbound(p, d) PROVE PostInv'
  <2>1. /\ \A q \in Posts : q # p => post'[q] = post[q]
        /\ post'[p].bound = post[p].bound /\ post'[p].phase = "done"
        /\ post[p].phase = "idle"
    BY <1>5 DEF RegisterUnbound, TypeOK, Post
  <2> QED
    BY <2>1 DEF PostInv
<1> QED
  BY <1>1, <1>2, <1>3, <1>4, <1>5 DEF Next, vars, Connect, Remove, RemovalStep,
     WriteFrame, HandOver, ReadResponse, FindClient, Unregister, PruneStale,
     ListChannel, CheckDone, Enqueue, NotEnqueued, TimeOut, Retract, TakeAnswer

(* Every step keeps the property itself: a connection is bound while it is *)
(* listed, and the last step of its removal marks its device offline.      *)
LEMMA OfflineNext ==
    TypeOK /\ PostInv /\ DeviceOfGoneConnectionIsOffline /\ [Next]_vars
        => DeviceOfGoneConnectionIsOffline'
<1> SUFFICES ASSUME TypeOK, PostInv, DeviceOfGoneConnectionIsOffline, [Next]_vars
             PROVE  DeviceOfGoneConnectionIsOffline'
  OBVIOUS
<1> USE DEF TypeOK
<1> client \in [Conns -> Client] /\ registry \in [Devices -> Entry]
  OBVIOUS
<1>1. ASSUME post' = post, registry' = registry,
             \A c \in Conns :
                /\ client'[c].deviceID = client[c].deviceID
                /\ client'[c].stage = "gone" => client[c].stage = "gone"
      PROVE  DeviceOfGoneConnectionIsOffline'
  BY <1>1, OfflineKept
<1>2. ASSUME NEW c \in Conns, Connect(c) \/ Remove(c) PROVE DeviceOfGoneConnectionIsOffline'
  <2>1. PICK st \in {"listed", "deleted"} : client' = [client EXCEPT ![c].stage = st]
    BY <1>2 DEF Connect, Remove
  <2>2. \A b \in Conns : /\ client'[b].deviceID = client[b].deviceID
                         /\ client'[b].stage = "gone" => client[b].stage = "gone"
    BY <2>1 DEF Client
  <2> QED
    BY <1>1, <1>2, <2>2 DEF Connect, Remove
<1>3. ASSUME NEW c \in Conns, RemovalStep(c) PROVE DeviceOfGoneConnectionIsOffline'
  <2> DEFINE next == NextStage(client[c].stage)
  <2>1. /\ \A b \in Conns : b # c => client'[b] = client[b]
        /\ client'[c].deviceID = client[c].deviceID /\ client'[c].stage = next
        /\ post' = post
    BY <1>3 DEF RemovalStep, Client
  <2>2. next = "gone" => MarkOffline(client[c].deviceID)
    BY <1>3 DEF RemovalStep
  <2>3. next # "gone" => registry' = registry
    BY <1>3 DEF RemovalStep
  <2> HIDE DEF next
  <2>4. CASE next = "gone"
    <3>1. \A d \in Devices : /\ registry'[d] = registry[d] \/ registry'[d].status # "online"
                             /\ d = client[c].deviceID => registry'[d].status # "online"
      BY <2>2, <2>4 DEF MarkOffline, Entry
    <3> QED
      BY <2>1, <3>1, OfflineKept
  <2>5. CASE next # "gone"
    BY <1>1, <2>1, <2>3, <2>5
  <2> QED
    BY <2>4, <2>5
<1>4. ASSUME NEW p \in Posts, NEW c \in Conns, NEW d \in Devices, Validate(p, c, d)
      PROVE  DeviceOfGoneConnectionIsOffline'
  <2>1. /\ \A q \in Posts : q # p => post'[q] = post[q]
        /\ post'[p].bound = post[p].bound /\ post[p].phase = "idle"
    BY <1>4 DEF Validate, Post
  <2>2. \A q \in Posts : post'[q].bound => post'[q] = post[q]
    BY <2>1 DEF PostInv
  <2> QED
    BY <1>4, <2>2, OfflineKept DEF Validate
<1>5. ASSUME NEW p \in Posts, NEW d \in Devices,
             (Register(p) /\ d = post[p].device) \/ RegisterUnbound(p, d)
      PROVE  DeviceOfGoneConnectionIsOffline'
  <2>1. /\ \A q \in Posts : q # p => post'[q] = post[q]
        /\ ~post'[p].bound
        /\ registry' = [registry EXCEPT ![d] = [status |-> "online", by |-> p]]
        /\ client' = client
    BY <1>5 DEF Register, RegisterUnbound, Post, PostInv
  <2>2. \A e \in Devices : registry'[e] = registry[e] \/ registry'[e].by = p
    BY <2>1
  <2>3. \A q \in Posts : post'[q].bound => post'[q] = post[q]
    BY <2>1
  <2> QED
    BY <2>1, <2>2, <2>3, OfflineKept
<1>6. ASSUME NEW p \in Posts, Bind(p) PROVE DeviceOfGoneConnectionIsOffline'
  <2> DEFINE c == post[p].conn
  <2>1. /\ c \in Conns /\ registry' = registry
        /\ \A q \in Posts : q # p => post'[q] = post[q]
        /\ post'[p].bound = Listed(c) /\ post'[p].conn = c
    BY <1>6 DEF Bind, StillConnected, Post, PostInv
  <2>2. \A b \in Conns : /\ client'[b].stage = client[b].stage
                         /\ ~Listed(b) => client'[b].deviceID = client[b].deviceID
    BY <1>6 DEF Bind, StillConnected, Listed, Client
  <2> HIDE DEF c
  <2> QED
    BY <2>1, <2>2, OfflineKept DEF Listed
<1>7. ASSUME NEW d \in Devices, Unregister(d) \/ PruneStale(d)
      PROVE  DeviceOfGoneConnectionIsOffline'
  <2>1. \A e \in Devices : registry'[e] = registry[e] \/ registry'[e].status # "online"
    BY <1>7 DEF Unregister, PruneStale, MarkOffline, Entry
  <2> QED
    BY <1>7, <2>1, OfflineKept DEF Unregister, PruneStale
<1>8. ASSUME NEW c \in Conns,
             WriteFrame(c) \/ HandOver(c) \/ \E r \in Requests : ReadResponse(c, r)
      PROVE  DeviceOfGoneConnectionIsOffline'
  <2>1. \A b \in Conns : /\ client'[b].deviceID = client[b].deviceID
                         /\ client'[b].stage = client[b].stage
    <3>1. CASE WriteFrame(c)
      <4> DEFINE sent == Tail(client[c].send)
                 got == client[c].asked \cup {Head(client[c].send)}
      <4>1. client' = [client EXCEPT ![c].send = sent, ![c].asked = got]
        BY <3>1 DEF WriteFrame
      <4> HIDE DEF sent, got
      <4> QED
        BY <4>1 DEF Client
    <3>2. CASE HandOver(c)
      BY <3>2 DEF HandOver, Client
    <3>3. ASSUME NEW r \in Requests, ReadResponse(c, r)
          PROVE  \A b \in Conns : /\ client'[b].deviceID = client[b].deviceID
                                  /\ client'[b].stage = client[b].stage
      BY <3>3 DEF ReadResponse, HandleResponse, Client
    <3> QED
      BY <1>8, <3>1, <3>2, <3>3
  <2> QED
    BY <1>1, <1>8, <2>1 DEF WriteFrame, HandOver, ReadResponse
<1>9. ASSUME NEW r \in Requests, ListChannel(r) \/ Enqueue(r) \/ Retract(r)
      PROVE  DeviceOfGoneConnectionIsOffline'
  <2> DEFINE c == request[r].conn
             entries == client[c].capReqs \cup {r}
             queued == Append(client[c].send, r)
             left == client[c].capReqs \ {r}
  <2>1. \/ client' = [client EXCEPT ![c].capReqs = entries]
        \/ client' = [client EXCEPT ![c].send = queued]
        \/ client' = [client EXCEPT ![c].capReqs = left]
    BY <1>9 DEF ListChannel, Enqueue, Retract
  <2> HIDE DEF c, entries, queued, left
  <2>2. \A b \in Conns : /\ client'[b].deviceID = client[b].deviceID
                         /\ client'[b].stage = client[b].stage
    <3>1. CASE client' = [client EXCEPT ![c].capReqs = entries]
      BY <3>1 DEF Client
    <3>2. CASE client' = [client EXCEPT ![c].send = queued]
      BY <3>2 DEF Client
    <3>3. CASE client' = [client EXCEPT ![c].capReqs = left]
      BY <3>3 DEF Client
    <3> QED
      BY <2>1, <3>1, <3>2, <3>3
  <2> QED
    BY <1>1, <1>9, <2>2 DEF ListChannel, Enqueue, Retract
<1>10. CASE client' = client /\ post' = post /\ registry' = registry
  BY <1>1, <1>10
<1>11. ASSUME NEW p \in Posts, Register(p) PROVE DeviceOfGoneConnectionIsOffline'
  <2>1. post[p].device \in Devices
    BY <1>11 DEF Register, PostInv
  <2> QED
    BY <1>5, <1>11, <2>1
<1> QED
  BY <1>2, <1>3, <1>4, <1>5, <1>6, <1>7, <1>8, <1>9, <1>10, <1>11 DEF Next, vars,
     FindClient, CheckDone, NotEnqueued, TimeOut, TakeAnswer

(* When a connection is gone its device is not online on the strength of a *)
(* registration through it (DeviceOfGoneConnectionIsOffline).              *)
THEOREM NoDeviceOutlivesItsConnection == Spec => []DeviceOfGoneConnectionIsOffline
<1> DEFINE Inv == TypeOK /\ PostInv /\ DeviceOfGoneConnectionIsOffline
<1>1. Init => Inv
  BY InitType, PostInit
<1>2. Inv /\ [Next]_vars => Inv'
  BY NextType, PostNext, OfflineNext
<1> QED
  BY <1>1, <1>2, PTL DEF Spec
==============================================================================
