------------------------------ MODULE EventRouter ------------------------------
(***************************************************************************)
(* pkg/events: sources push events into bounded channels, a collector per  *)
(* source dispatches them, and requests to the API dispatch theirs by      *)
(* Emit.  Each event is handled by one goroutine per subscription, behind  *)
(* a semaphore.  Stop cancels the context, stops the sources and waits for *)
(* collectors and handlers.  The gateway registers no source; the API      *)
(* server subscribes once.  Handlers return: they only queue a broadcast.  *)
(***************************************************************************)
EXTENDS Naturals, FiniteSets, Sequences

CONSTANTS
    Sources,        \* the event sources that are registered
    Callers,        \* the goroutines that call Emit, numbered
    Names,          \* those who subscribe
    SourceSize,     \* a source's channel: 10 to 100 in the code
    Semaphore,      \* 100 in the code
    MaxSubscriptions, \* bound on the subscriptions at a time
    MaxEvents       \* bound on the events of the sources

ASSUME RouterAssumption == SourceSize \in Nat /\ Semaphore \in Nat \ {0}

VARIABLES
    router,         \* "new", "running", "stopped" (flag down), "waiting", "returned"
    cancelled,      \* whether routerCtx is cancelled
    subscriptions,  \* who holds each id
    source,         \* per source: whether its goroutine runs, what its channel holds, and its collector
    caller,         \* what each caller of Emit does
    handlers,       \* the goroutines that dispatch started: [event, sub] -> "waiting" or "running"
    events          \* how many events there have been

routerVars == <<router, cancelled, subscriptions, source, caller, handlers, events>>

RouterInit ==
    /\ router = "new" /\ cancelled = FALSE
    /\ subscriptions = <<>>
    /\ source = [s \in Sources |-> [on |-> FALSE, channel |-> <<>>, collector |-> "off"]]
    /\ caller = [c \in Callers |-> "idle"]
    /\ handlers = <<>>
    /\ events = 0

(***************************************************************************)
(* Subscriptions.                                                          *)
(***************************************************************************)
\* The id is made of the name and the number of subscriptions there are.
NewId(name) == <<name, Cardinality(DOMAIN subscriptions)>>

Subscribe(name) ==
    /\ Cardinality(DOMAIN subscriptions) < MaxSubscriptions
    /\ subscriptions' = [id \in DOMAIN subscriptions \cup {NewId(name)} |->
                            IF id = NewId(name) THEN name ELSE subscriptions[id]]
    /\ UNCHANGED <<router, cancelled, source, caller, handlers, events>>

Unsubscribe(id) ==
    /\ subscriptions' = [i \in DOMAIN subscriptions \ {id} |-> subscriptions[i]]
    /\ UNCHANGED <<router, cancelled, source, caller, handlers, events>>

(***************************************************************************)
(* Events.  Priorities order only the starting of the goroutines, so they  *)
(* do not show here.                                                       *)
(***************************************************************************)
Dispatch(from, n) ==
    handlers' = [h \in DOMAIN handlers \cup {<<from, n, id>> : id \in DOMAIN subscriptions} |->
                    IF h \in DOMAIN handlers THEN handlers[h] ELSE "waiting"]

\* What reads r.running; with the router not running the event is dropped.
Emit(c) ==
    /\ caller[c] = "idle"
    /\ router # "new"
    /\ caller' = [caller EXCEPT ![c] = IF router = "running" THEN "dispatching" ELSE "done"]
    /\ UNCHANGED <<router, cancelled, subscriptions, source, handlers, events>>

EmitDispatches(c) ==
    /\ caller[c] = "dispatching"
    /\ Dispatch("api", c)
    /\ caller' = [caller EXCEPT ![c] = "done"]
    /\ UNCHANGED <<router, cancelled, subscriptions, source, events>>

\* An event of a timer, a webhook, a file or an adapter: dropped when the
\* channel is full.
SourceEmits(s) ==
    /\ source[s].on
    /\ events < MaxEvents
    /\ events' = events + 1
    /\ source' = IF Len(source[s].channel) < SourceSize
                 THEN [source EXCEPT ![s].channel = Append(@, events')] ELSE source
    /\ UNCHANGED <<router, cancelled, subscriptions, caller, handlers>>

\* The source's goroutine sees the cancelled context or its closed stop channel.
SourceEnds(s) ==
    /\ source[s].on
    /\ cancelled
    /\ source' = [source EXCEPT ![s].on = FALSE]
    /\ UNCHANGED <<router, cancelled, subscriptions, caller, handlers, events>>

Collect(s) ==
    /\ source[s].collector = "on"
    /\ source[s].channel # <<>>
    /\ Dispatch("source", Head(source[s].channel))
    /\ source' = [source EXCEPT ![s].channel = Tail(@)]
    /\ UNCHANGED <<router, cancelled, subscriptions, caller, events>>

\* A mutated form: the collector leaves on the cancelled context without wg.Done.
CollectorEndsOnClosed(s) ==
    /\ source[s].collector = "on"
    /\ ~ cancelled
    /\ ~ source[s].on /\ source[s].channel = <<>>
    /\ source' = [source EXCEPT ![s].collector = "off"]
    /\ UNCHANGED <<router, cancelled, subscriptions, caller, handlers, events>>

\* wg.Done: on the cancelled context, or on the closed channel once it is empty.
CollectorEnds(s) ==
    /\ source[s].collector = "on"
    /\ \/ cancelled
       \/ ~ source[s].on /\ source[s].channel = <<>>
    /\ source' = [source EXCEPT ![s].collector = "off"]
    /\ UNCHANGED <<router, cancelled, subscriptions, caller, handlers, events>>

(***************************************************************************)
(* Handlers.                                                               *)
(***************************************************************************)
AcquireSemaphore(h) ==
    /\ handlers[h] = "waiting"
    /\ Cardinality({g \in DOMAIN handlers : handlers[g] = "running"}) < Semaphore
    /\ handlers' = [handlers EXCEPT ![h] = "running"]
    /\ UNCHANGED <<router, cancelled, subscriptions, source, caller, events>>

\* It has handled the event, or it gives up waiting for its turn.
HandlerEnds(h) ==
    /\ \/ handlers[h] = "running"
       \/ cancelled
    /\ handlers' = [g \in DOMAIN handlers \ {h} |-> handlers[g]]
    /\ UNCHANGED <<router, cancelled, subscriptions, source, caller, events>>

(***************************************************************************)
(* The router's life.                                                      *)
(***************************************************************************)
\* A source that fails to start has no collector.
StartRouter ==
    /\ router = "new"
    /\ router' = "running"
    /\ \E started \in SUBSET Sources :
          source' = [s \in Sources |->
              IF s \in started THEN [on |-> TRUE, channel |-> <<>>, collector |-> "on"] ELSE source[s]]
    /\ UNCHANGED <<cancelled, subscriptions, caller, handlers, events>>

StopRouter ==
    /\ router = "running"
    /\ router' = "stopped"
    /\ UNCHANGED <<cancelled, subscriptions, source, caller, handlers, events>>

CancelSources ==
    /\ router = "stopped"
    /\ cancelled' = TRUE
    /\ router' = "waiting"
    /\ UNCHANGED <<subscriptions, source, caller, handlers, events>>

\* wg.Wait returns.
StopReturns ==
    /\ router = "waiting"
    /\ DOMAIN handlers = {}
    /\ \A s \in Sources : source[s].collector = "off"
    /\ router' = "returned"
    /\ UNCHANGED <<cancelled, subscriptions, source, caller, handlers, events>>
-----------------------------------------------------------------------------
RouterSystemStep ==
    \/ CancelSources \/ StopReturns
    \/ \E c \in Callers : EmitDispatches(c)
    \/ \E s \in Sources : SourceEnds(s) \/ Collect(s) \/ CollectorEnds(s)
    \/ \E h \in DOMAIN handlers : AcquireSemaphore(h) \/ HandlerEnds(h)

RouterStep ==
    \/ RouterSystemStep
    \/ StartRouter \/ StopRouter
    \/ \E c \in Callers : Emit(c)
    \/ \E s \in Sources : SourceEmits(s)
    \/ \E name \in Names : Subscribe(name)
    \/ \E id \in DOMAIN subscriptions : Unsubscribe(id)
-----------------------------------------------------------------------------
(***************************************************************************)
(* The gateway's shutdown gets past the router: whatever events come in    *)
(* while it stops and however few handlers may run at a time, Stop returns. *)
(***************************************************************************)
RouterStops == (router = "stopped") ~> (router = "returned")
=============================================================================
