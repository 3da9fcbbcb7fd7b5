------------------------------- MODULE Heartbeat -------------------------------
(***************************************************************************)
(* pkg/heartbeat/service.go with the handler that gateway.go gives it, and *)
(* the beginning of every turn of the agent loop, which records where the  *)
(* user was last active.  The service has a state manager of its own,      *)
(* loaded when the gateway starts.  The first beat comes a second after    *)
(* the start, the others at an interval of at least five minutes, so two   *)
(* beats never look at the routines in the same minute.                    *)
(***************************************************************************)
EXTENDS StateStore, ProactiveEngine

CONSTANTS
    Beats,          \* "initial", the AfterFunc, and "ticker", the loop
    Chats           \* <<platform, chat>> of those who talk to the agent

ASSUME HeartbeatAssumption == Beats \subseteq Writers \cap {"initial", "ticker"}

VARIABLES
    up,             \* whether the gateway's process runs
    running,        \* hs.stopChan # nil
    tasks,          \* HEARTBEAT.md: "missing", "empty" or "some"
    known,          \* the last channel in hs.state
    beat,           \* what each of the service's two goroutines does
    beatAt,         \* when a beat last looked at the routines
    fired,          \* the day on which each routine was last put before the model
    turn            \* the turn each goroutine is in

beatVars == <<running, tasks, known, beat, beatAt, fired>>
heartbeatVars == <<stateVars, engineVars, up, beatVars, turn>>

InternalChannels == {"cli", "system", "subagent"}

\* parseLastChannel: no internal channel comes back.
ParseLastChannel(channel) ==
    IF channel = None \/ channel[1] \in InternalChannels THEN None ELSE channel

Resting == [at |-> "off"]
Waiting == [at |-> "waiting"]
NoTurn == [at |-> "none"]

\* The handler's fallback is cli:direct.
Destination(channel) ==
    IF ParseLastChannel(channel) = None THEN <<"cli", "direct">> ELSE channel

HeartbeatInit ==
    /\ StateInit
    /\ EngineInit
    /\ up = FALSE /\ running = FALSE
    /\ tasks \in {"missing", "empty", "some"}
    /\ known = None
    /\ beat = [b \in Beats |-> Resting]
    /\ beatAt = now
    /\ fired = [r \in Routines |-> 0]
    /\ turn = [w \in Writers |-> NoTurn]

(***************************************************************************)
(* The gateway's process.                                                  *)
(***************************************************************************)
\* NewHeartbeatService and Start; with the heartbeat disabled nothing runs.
StartHeartbeat ==
    /\ ~ up
    /\ up' = TRUE
    /\ \E enabled \in BOOLEAN :
          /\ running' = enabled
          /\ beat' = [b \in Beats |-> IF enabled THEN Waiting ELSE Resting]
    /\ \E made \in NewManager(file, legacy) : known' = made.memory.lastChannel
    /\ beatAt' = now - 1
    /\ UNCHANGED <<stateVars, engineVars, tasks, fired, turn>>

\* A beat under way goes on until the process ends.
StopHeartbeat ==
    /\ up /\ running
    /\ running' = FALSE
    /\ beat' = [b \in Beats |-> IF beat[b] = Waiting THEN Resting ELSE beat[b]]
    /\ UNCHANGED <<stateVars, engineVars, up, tasks, known, beatAt, fired, turn>>

\* The process is stopped or killed, wherever its goroutines are.
ProcessEnds ==
    /\ up
    /\ up' = FALSE
    /\ running' = FALSE
    /\ beat' = [b \in Beats |-> Resting]
    /\ turn' = [w \in Writers |-> NoTurn]
    /\ StateRestart
    /\ EngineRestart
    /\ UNCHANGED <<tasks, known, beatAt, fired>>

\* The ticker waits for its next tick; the first beat is not repeated.
AfterBeat(b) == IF running /\ b = "ticker" THEN Waiting ELSE Resting

(***************************************************************************)
(* Turns: runAgentLoop up to the model, and its end.                       *)
(***************************************************************************)
\* Internal channels are not recorded.
Begin(w, chat) ==
    IF chat[1] \in InternalChannels
    THEN /\ turn' = [turn EXCEPT ![w] = [at |-> "asking"]]
         /\ UNCHANGED stateVars
    ELSE /\ turn' = [turn EXCEPT ![w] = [at |-> "recording"]]
         /\ SetLastChannel(w, chat)

UserTurn(w, chat) ==
    /\ up
    /\ turn[w] = NoTurn
    /\ Begin(w, chat)
    /\ UNCHANGED <<engineVars, up, beatVars>>

\* Whether or not the channel could be saved.
Recorded(w) ==
    /\ turn[w].at = "recording"
    /\ saving[w] = NotSaving
    /\ RecordActivity
    /\ turn' = [turn EXCEPT ![w].at = "asking"]
    /\ UNCHANGED <<stateVars, up, beatVars>>

\* The handler's result is silent or an error: the service sends nothing itself.
TurnEnds(w) ==
    /\ turn[w].at = "asking"
    /\ turn' = [turn EXCEPT ![w] = NoTurn]
    /\ beat' = IF w \in Beats
               THEN [beat EXCEPT ![w] = AfterBeat(w)]
               ELSE beat
    /\ UNCHANGED <<stateVars, engineVars, up, running, tasks, known, beatAt, fired>>

(***************************************************************************)
(* A beat: executeHeartbeat.                                               *)
(***************************************************************************)
IsTime(b) == b = "ticker" => now > beatAt /\ \A a \in Beats \ {b} : beat[a] # Waiting

\* buildPrompt: a missing file is created for the next beat, if it can be.
NothingToDo(b) ==
    /\ running /\ beat[b] = Waiting /\ IsTime(b)
    /\ tasks # "some"
    /\ tasks' \in IF tasks = "missing" THEN {"missing", "some"} ELSE {tasks}
    /\ beat' = [beat EXCEPT ![b] = AfterBeat(b)]
    /\ beatAt' = now
    /\ UNCHANGED <<stateVars, engineVars, up, running, known, fired, turn>>

ExecuteHeartbeat(b) ==
    /\ running /\ beat[b] = Waiting /\ IsTime(b)
    /\ tasks = "some"
    /\ beat' = [beat EXCEPT ![b] = [at |-> "marking", since |-> now, due |-> CheckRoutines, told |-> {}]]
    /\ beatAt' = now
    /\ UNCHANGED <<stateVars, engineVars, up, running, tasks, known, fired, turn>>

\* Each routine goes into the prompt and is marked.
FireRoutine(b, r) ==
    /\ beat[b].at = "marking"
    /\ r \in beat[b].due
    /\ MarkRoutineTriggered(r)
    /\ beat' = [beat EXCEPT ![b].due = @ \ {r}, ![b].told = @ \cup {r}]
    /\ UNCHANGED <<stateVars, up, running, tasks, known, beatAt, fired, turn>>

\* The handler: a turn without history in the chat that was active last.
CallHandler(b) ==
    /\ beat[b].at = "marking"
    /\ beat[b].due = {}
    /\ Begin(b, Destination(known))
    /\ fired' = [r \in Routines |-> IF r \in beat[b].told THEN Day(beat[b].since) ELSE fired[r]]
    /\ beat' = [beat EXCEPT ![b] = [at |-> "turn", told |-> beat[b].told, to |-> Destination(known)]]
    /\ UNCHANGED <<engineVars, up, running, tasks, known, beatAt>>
-----------------------------------------------------------------------------
HeartbeatStep ==
    \/ StartHeartbeat \/ StopHeartbeat
    \/ \E b \in Beats :
          \/ NothingToDo(b) \/ ExecuteHeartbeat(b) \/ CallHandler(b)
          \/ \E r \in Routines : FireRoutine(b, r)

TurnStep ==
    \E w \in Writers :
        \/ Recorded(w) \/ TurnEnds(w)
        \/ w \notin Beats /\ \E chat \in Chats : UserTurn(w, chat)
-----------------------------------------------------------------------------
(***************************************************************************)
(* However often the gateway is killed and started again, and whichever    *)
(* beat looks, a routine is put before the model at most once a day, as    *)
(* long as its mark can be saved: the mark is on the disk before the turn. *)
(***************************************************************************)
RoutineOncePerDay ==
    [][\A b \in Beats :
          beat[b].at = "marking" /\ beat'[b].at = "turn" /\ writable
              => \A r \in beat[b].told : fired[r] # Day(beat[b].since)]_heartbeatVars

(***************************************************************************)
(* "channel and chatID are derived from the last active user channel"      *)
(* (service.go:32): a heartbeat's turn is in the chat that the agent loop  *)
(* recorded last.                                                          *)
(***************************************************************************)
HeartbeatAddressesTheLastUser ==
    [][\A b \in Beats :
          beat[b].at = "marking" /\ beat'[b].at = "turn"
              => beat'[b].to = Destination(memory.lastChannel)]_heartbeatVars
=============================================================================
