---------------------------------- MODULE Turn ----------------------------------
(***************************************************************************)
(* Turns of the agent loop, as many at once as workers have taken messages *)
(* (pkg/agent/loop.go, runLLMIteration): the calls of the provider with    *)
(* their retries, the council's fallback and its cooldowns, which all      *)
(* turns share, the tools with the detector of loops, the subagent a tool  *)
(* may leave behind (pkg/tools/toolloop.go), and what the user is told.    *)
(* Every turn is of a session of its own; AgentSession has turns share one.*)
(***************************************************************************)
EXTENDS Providers, ToolLoopDetector

CONSTANTS
    Turns,
    Councils,           \* what may be configured: a fallback or none, both providers' kinds
    Batches,            \* per turn, the sequences of calls a model may ask for at once
    MaxBatch,           \* the longest of them
    MaxIterations,      \* 20 in the code
    MaxRetries,         \* 2 in the code
    MaxSubagentIterations, \* 10 in the code
    OldMessages,        \* messages of the session before the turn
    Faults,             \* per turn, how many of its requests fail (a bound)
    Crowds              \* the sets of turns that run at once, the others being over

TerminalTools == {"message", "complete_bootstrap"}
Results == {1, 2}

ASSUME TurnAssumption ==
    /\ Councils \subseteq [enabled : BOOLEAN, primary : AllKinds, fallback : AllKinds]
    /\ Batches \in [Turns -> SUBSET Seq(Calls)]
    /\ MaxBatch \in Nat
    /\ \A t \in Turns : \A batch \in Batches[t] : Len(batch) \in 1..MaxBatch
    /\ MaxIterations \in Nat \ {0} /\ MaxRetries \in Nat
    /\ MaxSubagentIterations \in Nat \ {0} /\ OldMessages \in Nat
    /\ Faults \in [Turns -> Nat] /\ Crowds \subseteq SUBSET Turns

VARIABLES
    council,    \* whether a fallback is configured, and the kinds of both providers
    model,      \* AgentLoop.model: the configured one, or the fallback's after /switch
    cooldown,   \* AgentLoop.cooldowns, per model
    turn,       \* the turns' local state
    messages,   \* what each would send next
    detector,   \* their ToolLoopDetector
    executed,   \* how often each has executed a call (history)
    told,       \* the turns whose user has had an answer or an error
    excused,    \* the turns whose message tool sent to another chat, or failed
    subagent    \* per turn, the subagent it has spawned

localVars == <<messages, detector, executed>>
userVars == <<told, excused>>
vars == <<council, model, cooldown, turn, localVars, userVars, subagent>>

Models == {"primary", "fallback"}

NotStarted == [at |-> "waiting", iteration |-> 0, retry |-> 0, tools |-> TRUE, model |-> "primary",
               left |-> << >>, onlyTerminal |-> TRUE, bootstrap |-> FALSE, faults |-> 0]
Over == [NotStarted EXCEPT !.at = "done"]
NoSubagent == [at |-> "none", iteration |-> 0, cancelled |-> FALSE]

Init ==
    /\ council \in Councils
    /\ model = "primary"
    /\ cooldown = [m \in Models |-> "none"]
    /\ \E crowd \in Crowds :
          /\ turn = [t \in Turns |-> IF t \in crowd THEN NotStarted ELSE Over]
          /\ told = Turns \ crowd
    /\ messages = [t \in Turns |-> << >>]
    /\ detector = [t \in Turns |-> NewDetector]
    /\ executed = [t \in Turns |-> [c \in Calls |-> 0]]
    /\ excused = {}
    /\ subagent = [t \in Turns |-> NoSubagent]
-----------------------------------------------------------------------------
(* The start and the end of a turn: processMessage, runAgentLoop.           *)

\* The next iteration of runLLMIteration reads the model and offers all tools.
Iteration(r, n) ==
    [r EXCEPT !.at = "cooldown", !.iteration = n, !.retry = 0, !.tools = TRUE, !.model = model]

Begin(t) ==
    /\ turn[t].at = "waiting"
    /\ turn' = [turn EXCEPT ![t] = Iteration(@, 1)]
    /\ messages' = [messages EXCEPT ![t] =
                        [i \in 1..OldMessages |-> Text("user")] \o <<Text("user")>>]
    /\ UNCHANGED <<council, model, cooldown, detector, executed, userVars, subagent>>

\* handleCommand answers at once; "/switch model to" is the one that changes anything.
Command(t) ==
    /\ turn[t].at = "waiting"
    /\ turn' = [turn EXCEPT ![t].at = "done"]
    /\ model' \in Models
    /\ told' = told \cup {t}
    /\ UNCHANGED <<council, cooldown, localVars, excused, subagent>>

\* Everything local to the turn is gone with it.
End(t) ==
    /\ turn' = [turn EXCEPT ![t] = Over]
    /\ messages' = [messages EXCEPT ![t] = << >>]
    /\ detector' = [detector EXCEPT ![t] = NewDetector]
    /\ executed' = [executed EXCEPT ![t] = [c \in Calls |-> 0]]

\* A mutated form: a reply that is empty is the end of it.
AnswerNoDefault(content, terminal) == content

\* An empty answer is replaced by the default, unless terminal tools have replied.
Answer(content, terminal) == content \/ ~terminal

Finish(t, content, terminal) ==
    /\ End(t)
    /\ told' = IF Answer(content, terminal) THEN told \cup {t} ELSE told
-----------------------------------------------------------------------------
(* Requests.                                                                *)

CheckCooldown(t) ==
    /\ turn[t].at = "cooldown"
    /\ turn' = [turn EXCEPT ![t].at =
                    CASE cooldown[turn[t].model] \in {"forever", "resting"} -> "skipped"
                      [] cooldown[turn[t].model] = "over" -> "forget"
                      [] cooldown[turn[t].model] = "none" -> "primary"]
    /\ UNCHANGED <<council, model, cooldown, localVars, userVars, subagent>>

\* The entry that was loaded had expired: whatever there is now is deleted.
ForgetCooldown(t) ==
    /\ turn[t].at = "forget"
    /\ cooldown' = [cooldown EXCEPT ![turn[t].model] = "none"]
    /\ turn' = [turn EXCEPT ![t].at = "primary"]
    /\ UNCHANGED <<council, model, localVars, userVars, subagent>>

IsAuthError(words) == words \cap {"401", "403", "unauthorized", "forbidden"} # {}
IsRateLimit(words) == words \cap {"429", "too many requests", "quota", "rate limit"} # {}
IsOverloaded(words) == words \cap {"503", "timeout", "service unavailable"} # {}
IsToolError(words) == "no tools" \in words
IsContextError(words) == words \cap {"token", "context", "length"} # {}

HasFallback(t) == council.enabled /\ turn[t].model # "fallback"

CouncilHelps(t, words) ==
    HasFallback(t) /\ (IsAuthError(words) \/ IsRateLimit(words) \/ IsOverloaded(words))

\* The user is told of the shift, in a notice that is not an answer.
RecoverWithCouncil(t, words) ==
    /\ cooldown' = [cooldown EXCEPT ![turn[t].model] =
                        IF IsAuthError(words) THEN "forever" ELSE "resting"]
    /\ turn' = [turn EXCEPT ![t].at = "fallback", ![t].faults = @ + 1]
    /\ UNCHANGED <<localVars, told>>

\* forceCompression, on the session: the system notes of the turn are not in it.
InSession(ms) ==
    FlattenSeq([p \in DOMAIN ms |-> IF ms[p].role = "warning" THEN << >> ELSE <<ms[p]>>])

ForceCompression(ms) ==
    LET session == InSession(ms) IN
    IF Len(session) <= 4 THEN session
    ELSE <<Text("note")>> \o SubSeq(session, Len(session) \div 2 + 1, Len(session))

RetryWith(t, tools) ==
    turn' = [turn EXCEPT ![t].at = "cooldown", ![t].retry = @ + 1, ![t].tools = tools,
                         ![t].faults = IF turn[t].at = "skipped" THEN @ ELSE @ + 1]

\* Run publishes "Error processing message".
Fail(t) == End(t) /\ told' = told \cup {t}

AfterError(t, words) ==
    /\ IF turn[t].retry < MaxRetries /\ IsToolError(words)
         THEN RetryWith(t, FALSE) /\ UNCHANGED <<localVars, told>>
       ELSE IF turn[t].retry < MaxRetries /\ IsContextError(words)
         THEN /\ RetryWith(t, turn[t].tools)
              /\ messages' = [messages EXCEPT ![t] = ForceCompression(@)]
              /\ UNCHANGED <<detector, executed, told>>
       ELSE Fail(t)
    /\ UNCHANGED cooldown

\* A mutated form: a model on cooldown is waited for.
WaitForPrimary(t) ==
    /\ turn[t].at = "skipped"
    /\ turn' = [turn EXCEPT ![t].at = "cooldown"]
    /\ UNCHANGED <<council, model, cooldown, localVars, userVars, subagent>>

\* The text of a skip has none of the words the loop looks for.
SkipPrimary(t) ==
    /\ turn[t].at = "skipped"
    /\ IF HasFallback(t)
         THEN turn' = [turn EXCEPT ![t].at = "fallback"] /\ UNCHANGED <<cooldown, localVars, told>>
         ELSE AfterError(t, {})
    /\ UNCHANGED <<council, model, excused, subagent>>

KindAsked(t) == IF turn[t].at = "primary" THEN council.primary ELSE council.fallback

ChatFails(t) ==
    /\ turn[t].at \in {"primary", "fallback"}
    /\ turn[t].faults < Faults[t]
    /\ \E words \in UNION {ErrorTexts(KindAsked(t), f) : f \in Failures} :
          IF turn[t].at = "primary" /\ CouncilHelps(t, words)
          THEN RecoverWithCouncil(t, words)
          ELSE AfterError(t, words)
    /\ UNCHANGED <<council, model, excused, subagent>>

ChatAnswers(t) ==
    /\ turn[t].at \in {"primary", "fallback"}
    /\ \E content \in BOOLEAN : Finish(t, content, FALSE)
    /\ UNCHANGED <<council, model, cooldown, excused, subagent>>

IsTerminalToolCall(c) == c \in TerminalTools

ChatCallsTools(t) ==
    /\ turn[t].at \in {"primary", "fallback"}
    /\ turn[t].tools /\ MayCallTools(KindAsked(t))
    /\ \E batch \in Batches[t] : \E ids \in [DOMAIN batch -> Identities(KindAsked(t))] :
          /\ turn' = [turn EXCEPT ![t].at = "tools", ![t].left = batch,
                          ![t].onlyTerminal = \A i \in DOMAIN batch : IsTerminalToolCall(batch[i]),
                          ![t].bootstrap = FALSE]
          /\ messages' = [messages EXCEPT ![t] = Append(@, CallsMessage(
                             [i \in DOMAIN batch |->
                                  ParsedCall(ids[i], turn[t].iteration, i, batch[i])]))]
    /\ UNCHANGED <<council, model, cooldown, detector, executed, userVars, subagent>>
-----------------------------------------------------------------------------
(* Tools.                                                                   *)

\* The detector hears of the call before it is executed.  A spawn returns at once, its
\* subagent running under the context of this call.
ExecuteTool(t) ==
    /\ turn[t].at = "tools" /\ turn[t].left # << >>
    /\ LET c == Head(turn[t].left) IN
       /\ detector' = [detector EXCEPT ![t] = Record(@, c)]
       /\ executed' = [executed EXCEPT ![t][c] = @ + 1]
       /\ subagent' = IF c = "spawn" /\ subagent[t].at = "none"
                      THEN [subagent EXCEPT ![t] = [@ EXCEPT !.at = "asking"]] ELSE subagent
    /\ turn' = [turn EXCEPT ![t].at = "executing"]
    /\ UNCHANGED <<council, model, cooldown, messages, userVars>>

ResultOf(t) ==
    LET withCalls == {p \in DOMAIN messages[t] : HasCalls(messages[t][p])}
        calls == messages[t][CHOOSE p \in withCalls : \A q \in withCalls : q <= p].calls
    IN ResultMessage(calls[Len(calls) - Len(turn[t].left) + 1].id)

\* The message tool may be given another chat, and its channel may refuse.
Tells(t, c) ==
    \/ c \in {"message", "notify_user"} /\ told' = told \cup {t} /\ UNCHANGED excused
    \/ c = "message" /\ excused' = excused \cup {t} /\ UNCHANGED told
    \/ c # "message" /\ UNCHANGED userVars

\* toolCancel follows the tool's return: a subagent's context ends with the call.
ToolReturns(t) ==
    /\ turn[t].at = "executing"
    /\ LET c == Head(turn[t].left) IN
       /\ turn' = [turn EXCEPT ![t].at = "tools", ![t].left = Tail(@),
                               ![t].bootstrap = @ \/ c = "complete_bootstrap"]
       /\ messages' = [messages EXCEPT ![t] = Append(@, ResultOf(t))]
       /\ \E result \in Results :
             detector' = [detector EXCEPT ![t] = RecordOutcome(@, c, result)]
       /\ Tells(t, c)
       /\ subagent' = IF c = "spawn" THEN [subagent EXCEPT ![t].cancelled = TRUE] ELSE subagent
    /\ UNCHANGED <<council, model, cooldown, executed>>

GoOn(t, severity) ==
    /\ turn' = [turn EXCEPT ![t] = Iteration(@, @.iteration + 1)]
    /\ messages' = [messages EXCEPT ![t] =
                        IF severity = LoopNone THEN @ ELSE Append(@, Text("warning"))]
    /\ UNCHANGED <<detector, executed, told>>

\* The detector is asked once, after the last call of a batch.
BatchEnds(t) ==
    /\ turn[t].at = "tools" /\ turn[t].left = << >>
    /\ IF turn[t].onlyTerminal THEN Finish(t, turn[t].bootstrap, TRUE)
       ELSE IF Check(detector[t]) = LoopCritical THEN Finish(t, TRUE, FALSE)
       ELSE IF turn[t].iteration = MaxIterations THEN Finish(t, FALSE, FALSE)
       ELSE GoOn(t, Check(detector[t]))
    /\ UNCHANGED <<council, model, cooldown, excused, subagent>>
-----------------------------------------------------------------------------
(* Subagents: RunToolLoop under the context of the call that spawned them,  *)
(* and a callback that logs how they ended.                                 *)

SubagentIs(t, where) == subagent' = [subagent EXCEPT ![t].at = where]

\* A request under a cancelled context fails, any other may.
SubagentAsks(t) ==
    /\ subagent[t].at = "asking"
    /\ \/ SubagentIs(t, "ended")
       \/ ~subagent[t].cancelled /\ MayCallTools(council.primary) /\ SubagentIs(t, "tools")
    /\ UNCHANGED <<council, model, cooldown, turn, localVars, userVars>>

\* Its tools include the message tool, which takes no notice of the context.
SubagentUsesTools(t) ==
    /\ subagent[t].at = "tools"
    /\ told' \in {told, told \cup {t}}
    /\ subagent' = [subagent EXCEPT ![t].iteration = @ + 1,
                        ![t].at = IF subagent[t].iteration + 1 = MaxSubagentIterations
                                  THEN "ended" ELSE "asking"]
    /\ UNCHANGED <<council, model, cooldown, turn, localVars, excused>>

\* Five minutes, or one, have passed.
CooldownExpires(m) ==
    /\ cooldown[m] = "resting"
    /\ cooldown' = [cooldown EXCEPT ![m] = "over"]
    /\ UNCHANGED <<council, model, turn, localVars, userVars, subagent>>
-----------------------------------------------------------------------------
TurnStep(t) ==
    \/ Begin(t) \/ Command(t) \/ CheckCooldown(t) \/ ForgetCooldown(t) \/ SkipPrimary(t)
    \/ ChatFails(t) \/ ChatAnswers(t) \/ ChatCallsTools(t)
    \/ ExecuteTool(t) \/ ToolReturns(t) \/ BatchEnds(t)

SubagentStep(t) == SubagentAsks(t) \/ SubagentUsesTools(t)

Next ==
    \/ \E t \in Turns : TurnStep(t) \/ SubagentStep(t)
    \/ \E m \in Models : CooldownExpires(m)

\* Workers and subagents run; providers and tools answer, fail or time out.
Fairness == WF_vars(\E t \in Turns : TurnStep(t) \/ SubagentStep(t))

Spec == Init /\ [][Next]_vars /\ Fairness
-----------------------------------------------------------------------------
TypeOK ==
    /\ council \in Councils
    /\ model \in Models
    /\ cooldown \in [Models -> {"none", "forever", "resting", "over"}]
    /\ turn \in [Turns -> [at : {"waiting", "cooldown", "forget", "primary", "skipped", "fallback",
                                 "tools", "executing", "done"},
                           iteration : 0..MaxIterations, retry : 0..MaxRetries,
                           tools : BOOLEAN, model : Models, left : Seq(Calls),
                           onlyTerminal : BOOLEAN, bootstrap : BOOLEAN, faults : Nat]]
    /\ executed \in [Turns -> [Calls -> Nat]]
    /\ told \subseteq Turns /\ excused \subseteq Turns
    /\ subagent \in [Turns -> [at : {"none", "asking", "tools", "ended"},
                               iteration : 0..MaxSubagentIterations, cancelled : BOOLEAN]]

(***************************************************************************)
(* However the provider and its fallback fail, and however the tools leave *)
(* the turn, its user has heard of it at its end: an answer, an error, or  *)
(* a message of the message tool, unless that was sent elsewhere or failed.*)
(***************************************************************************)
EveryTurnIsAnswered == \A t \in Turns : turn[t].at = "done" => t \in told \cup excused

(***************************************************************************)
(* tool_loop_detect.go "prevents the agent from spinning on the same tool  *)
(* call": whatever slides out of its window and whatever is reported       *)
(* before, no call is executed more often than the breaker and the length  *)
(* of a batch allow.                                                       *)
(***************************************************************************)
StuckTurnIsStopped ==
    \A t \in Turns, c \in Calls : executed[t][c] < CircuitBreaker + MaxBatch

EveryCallIsAnswered(items) ==
    \A i \in DOMAIN items : items[i].type = "call" =>
        \E j \in DOMAIN items : /\ j > i /\ items[j] = ResultItem(items[i].id)
                                /\ \A k \in DOMAIN items : items[k] = items[j] => k = j

CallsHaveIdentities ==
    \A kind \in {council.primary, council.fallback} : Identities(kind) = {"own"}

(***************************************************************************)
(* A request holds the result of every call that is in it, once and after  *)
(* it, through failures, retries, warnings and compressions: a call that   *)
(* is not answered is refused, and with it every later request of the      *)
(* session.  This is of councils whose services give each call an identity *)
(* of its own: not of Gemini's, whose calls have none, nor of the commands *)
(* whose models write it (AllCallsAreAnswered).                            *)
(***************************************************************************)
CallsAreAnsweredOnTheWire ==
    \A t \in Turns, kind \in StructuredKinds \ {"vertex"} :
        turn[t].at \in {"primary", "fallback"} /\ CallsHaveIdentities =>
            EveryCallIsAnswered(Request(kind, messages[t]))

(***************************************************************************)
(* The same of what is really asked of the fallback, whoever has made the  *)
(* identities.  No run checks it, as it fails: a command's model gives two *)
(* calls none, or the template's "call_xxx", and the request that goes to  *)
(* an HTTP fallback then has two results for each of them.                 *)
(***************************************************************************)
AllCallsAreAnswered ==
    \A t \in Turns : turn[t].at = "fallback" /\ council.fallback = "http" =>
        EveryCallIsAnswered(Request("http", messages[t]))

(***************************************************************************)
(* context.go:329: orphaned tool messages are removed "from history start  *)
(* to prevent LLM errors (tool responses without preceding assistant       *)
(* tool_use are invalid)".                                                 *)
(***************************************************************************)
ResultsHaveTheirCalls ==
    \A t \in Turns, kind \in StructuredKinds \ {"vertex"} :
        turn[t].at \in {"primary", "fallback"} /\ CallsHaveIdentities =>
            LET items == Request(kind, messages[t]) IN
            \A j \in DOMAIN items : items[j].type = "result" =>
                \E i \in 1..(j - 1) : items[i].type = "call" /\ items[i].id = items[j].id

(***************************************************************************)
(* base.go:25 of a tool's goroutines: the root context is propagated "so   *)
(* they are cancelled cleanly when Stop() is called"; nothing stops here.  *)
(***************************************************************************)
SubagentKeepsItsContext ==
    \A t \in Turns : subagent[t].at \in {"asking", "tools"} => ~subagent[t].cancelled

(***************************************************************************)
(* Every turn a worker has taken ends, and its subagent: the retries,      *)
(* the iterations and the tools' timeouts bound what providers and models  *)
(* that fail, or never come to an answer, can make of it.                  *)
(***************************************************************************)
TurnsEnd ==
    <>(\A t \in Turns : turn[t].at = "done" /\ subagent[t].at \in {"none", "ended"})
=============================================================================
