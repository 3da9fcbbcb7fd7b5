# v1claw in TLA+

v1claw is a personal assistant: one long-lived process, the *gateway*, receives
messages from chat channels, lets a language model answer them with the help of
tools, and runs a number of background services (scheduled jobs, a work queue,
heartbeats, connected devices). Commands in other processes set it up and share
its files. It is written in Go; most parts are a struct with a mutex and one or
more goroutines, and most of what they know is kept in JSON files that are
rewritten as a whole. What is hard in it is what happens *between* critical
sections: while a handler, a callback, a model provider, a remote device or a
user at a prompt is at work with no lock held, when the process dies, and when a
write fails.

The project has eight families of modules, each with one passing run, eight
modules of proofs, and four runs that show the code doing other than it says.

* `tlc -config X.cfg M.tla` runs a row of "Runs" below, with the module and the
  configuration named there. Each takes from a few seconds to four minutes.
* `tlapm M.tla` checks the proofs of a module `...Proofs`.

## 1. Inventory

| component | state | operations | interacts with | what is hard | what makes it correct |
|---|---|---|---|---|---|
| job queue `pkg/queue` | jobs, handlers, running, runID, stop channel; `job_queue.json` | RegisterHandler, Enqueue, Start, Stop, polling loop, Purge, load/save | gateway | overlapping loops, handler called without the lock, death inside a handler, failed writes | a job is executed by one loop at a time, every execution is counted, the file only moves forward, all jobs end |
| agent loop `pkg/agent/loop.go` | summarising guards, cooldowns, running; per turn: prompt, iteration, retry | Run, runAgentLoop, runLLMIteration, forceCompression, maybeSummarize, summarizeSession, Stop | bus, session store, providers, tools | up to ten turns at once, several of one session; background summaries; compression in the middle of a turn | prompts hold what they should, once; the transcript stays valid; every turn ends |
| session store `pkg/session` | messages and summary per session; a file each | Add, Get, Set, SummarizeAndTruncate, Save, load with repair | agent loop | copy under the lock, write after it; death in the middle of tool calls | the transcript in memory and on file is in order and can be sent to a provider |
| cron `pkg/cron`, `pkg/tools/cron.go`, `v1claw cron` | job list, running mark, next run; `cron/jobs.json` | Start, Stop, loop, execute, Add, Update, Remove, Enable, Load | agent loop, the cron command in another process | callbacks without the lock, stale copies, two processes on one file, recovery | no job is left marked, none revived, one-shot jobs run once, recurring jobs recur |
| device hub `pkg/api/websocket.go`, `server.go` | clients, pending requests, send buffers | connect, remove, read and write pumps, register, RequestCapability | registry, devices | disconnects racing requests and registrations | nobody waits for a device that is gone; pumps never block |
| device registry `pkg/sync` | devices, online flags | Register, Unregister, MarkOffline, PruneStale, Handoff | hub, gateway's ticker | stale flags | online means connected, or recently registered |
| message bus `pkg/bus` | inbound queue, outbound subscriptions, done | Publish, Consume, Subscribe, Unsubscribe, Close | everything | full buffers drop, subscribers come late | nothing is delivered twice, or to a closed channel |
| channels manager `pkg/channels` | channels, dispatcher | StartAll, StopAll, dispatch, Send | bus, Telegram, WhatsApp | late subscription, slow Send, messages pending at StopAll | an answer reaches the channel it is for |
| Telegram, WhatsApp | typing indicators per chat; one connection to the bridge | receive, Send | bus | a map keyed by chat that overlapping messages share; a connection that is never made again | an answer is shown once, to the chat it is for |
| gateway `cmd/v1claw/main.go` | – | start and stop of all the above | all | order of shutdown | work in flight is finished or abandoned cleanly |
| event router `pkg/events` | subscriptions, wait group | Subscribe, Unsubscribe, Emit, Start, Stop | API server | collectors on full channels, handlers on a semaphore, dispatch against Stop | Stop returns |
| heartbeat `pkg/heartbeat` | timer, own state manager | Start, Stop, execute | agent loop, state, proactive engine | a copy of the state that is never refreshed | the message goes to the last channel |
| state store `pkg/state` | last channel and chat; `state.json` | Set, Get, save | agent loop, heartbeat, devices | several managers on one file | the latest value survives |
| proactive engine `pkg/proactive` | routines, activities | RecordActivity, CheckRoutines, Mark | heartbeat | check and mark in two steps, calendar arithmetic | a routine triggers once a day |
| pairing `pkg/pairing` | requests with one-time codes in a file | CreateOrReuse, Approve, load/save | Telegram, `v1claw telegram` | two processes, no lock | a code is used once; no request is lost |
| tool loop, subagents `pkg/tools` | registry, per-run iteration | ExecuteWithContext, RunToolLoop, Spawn | agent loop | work that outlives its context | a spawned agent reports |
| tool loop detector `pkg/agent/tool_loop_detect.go` | window of recent calls | Record, RecordOutcome, Check | agent loop | thresholds, ping-pong patterns | repetition without progress is found |
| providers `pkg/providers` | – | Chat | agent loop | errors told apart by their wording | – |
| permissions `pkg/permissions` | table, frozen | SetAll, Freeze, Check | tools | – | nothing changes after Freeze |
| voice `pkg/voice` | running, a stop channel made once; a goroutine per recording and per answer | Start, Stop, record, transcribe, speak | bus | a subscription taken late, Start that fails half-way | Stop ends it; an answer is spoken once |
| device monitor `pkg/devices` | a bounded channel of events, own state manager | Start, Stop, read, announce | heartbeat's state file | a copy of the state that is never refreshed | what is plugged in is announced to the user |
| credentials `pkg/auth` | `auth.json`, encrypted per entry; the method in the configuration | login, logout, refresh within a turn | providers, `v1claw auth` in other processes | load, ask a server, store: two processes, one temporary file | a token stays with its account |
| configuration, onboarding, migration | `config.json`, written in place | onboard, configure, auth, pairing, migrate, refresh | gateway at its start; Telegram before every message | drafts made from older files, prompts cancelled anywhere, the empty file in the middle of a save | no stranger is let in, no API without a key, no entry lost |
| device client `v1claw client` | the connection, a channel of answers | connect, ask, serve capability requests | device hub | late answers nobody reads | requests go on being served |
| vision, knowledge, epistemology, skills, integrations, dashboard, health, contributed channels, file/shell/web/hardware tools | small or none | – | – | mostly I/O | – |

`PROJECT.json` lists the components with what is modelled of each, and the
hazards: what can go wrong at which line, and the properties that would notice.

## 2. Modules

| family | module | models | state and actions |
|---|---|---|---|
| queue | `JobLedger` | the abstract specification of the queue's file | `ledger`; one action, `Write`, in which entries move `Forward` |
| | `JobQueue` | `pkg/queue/queue.go` | `jobs` is `q.jobs` (a key stands for the pointer), `disk` the file, `runs` the polling goroutines, the rest the fields of the same name; an action per method and per step of the loop, `Claim` and `HandlerReturns` being the two critical sections of `processNext` |
| session | `Transcript` | the pure functions on a session's messages: `BuildMessages`, `forceCompression`, `summarizeSession`'s selection, `repairOrphanedToolCalls` | operators only |
| | `AgentSession` | one session: `pkg/agent/loop.go` over `pkg/session/manager.go` | `history`, `summary`, `disk`; a record per turn's goroutine and per summariser with its program counter and what it has read; an action per critical section, provider outcome and half of `Save` |
| cron | `CronService` | `pkg/cron/service.go`, the cron tool, the cron command | `store`, `disk`, `runs`, `running` as in the code; `draft` is the copy the tool holds between AddJob and UpdateJob, `command` the other process |
| hub | `DeviceHub` | `pkg/api/websocket.go`, the device handlers of `server.go`, `pkg/sync/registry.go` | a record per connection, registry entry, POST handler and caller; an action per critical section and per choice of a `select` |
| gateway | `Fates`, `Delivery` | the abstract specification: what becomes of a user's message and the replies to it | `fate` per message, `way` and `copies` per reply; a message moves on, or is given up |
| | `MessageBus` | `pkg/bus/bus.go` | the queue, the subscriptions with their buffers, and `publishing`, which is who holds the read lock and whom each has still to serve |
| | `BaseChannel` | `pkg/channels/base.go`, `Send` by the dispatcher and by the message tool | `call` says where each caller's `Send` is |
| | `TelegramChannel`, `WhatsAppChannel`, `VoicePipeline` | `telegram.go`, `telegram_commands.go`, `whatsapp.go`, `pkg/voice` | loops, indicators, connection, recordings and speeches |
| | `Gateway` | `main.go`'s start and shutdown, `pkg/channels/manager.go`, the agent loop's pool of workers, `message` and `notify_user` | composes the above; of a turn, what it says to its user, and how: `worker` and `way` |
| set-up | `ConfigFile` | `pkg/config/config.go` | what is on the disk: whole, absent, empty in the middle of a save, or garbled; the environment that overrides what a process loads |
| | `Wizards` | `onboard.go`, `configure.go`, `setup_experience.go`, `pkg/migrate` | operators from a draft to the set of drafts that the prompts lead to |
| | `TelegramPairing` | `pkg/pairing/telegram.go`, the gateway's side of it | the pending requests; who was heard |
| | `Setup` | the commands as processes beside the gateway | `cli`: a process with its draft; load, edit and truncate, write, each a step, each interruptible |
| turns | `ToolLoopDetector` | `tool_loop_detect.go` | operators on the window and the totals |
| | `Providers` | `pkg/providers` | what each kind of provider sends for a turn's messages, where the identities of the calls it reads are from, and the words of its errors |
| | `Turn` | `runLLMIteration`, `executeToolCalls`, council and cooldowns, `pkg/tools/toolloop.go`, subagents | a record per turn; `cooldown` and `model` shared by all of them |
| services | `StateStore` | `pkg/state/state.go` | memory, file, and each writer's copy on its way to the file |
| | `ProactiveEngine` | `pkg/proactive/engine.go` | the marks in memory and in the file, time in minutes |
| | `Heartbeat` | `pkg/heartbeat/service.go`, its handler, the start of every turn | `known` is the service's own last channel, `beat` its two goroutines |
| | `DeviceMonitor` | `pkg/devices` | the reader, the channel, what was announced |
| | `EventRouter` | `pkg/events` | subscriptions, collectors, handlers behind the semaphore |
| | `Credentials` | `pkg/auth`, `v1claw auth`, the token source of `codex_provider.go` and the account it sends (`CodexProvider.Chat`) | the file and its temporary file, the account the gateway's provider was created with, a record per turn and command |
| | `DeviceClient` | `v1claw client` in `main.go` | the main goroutine, the read pump, frames on their way |
| | `Services` | – | puts the services side by side: a behaviour plays one of six *scenes*, chosen at first (`state`, `beats`, `plugs`, `events`, `accounts`, `client`), as those of different scenes share nothing |

`MCGateway`, `MCSetup`, `MCTurn` and `MCServices` hold the values of constants
that a configuration cannot express; the first four modules need none.

The abstractions common to all: time is the fact that a moment has passed
(`due`, `passed`, `over`), except for the proactive engine, whose calendar is
modelled; names, texts and payloads are model values or identities; the words of
an error are the set of those the agent loop looks for; logging is left out. Each
module's comments say what its own are.

`Turn` and `AgentSession` look at the same function from two sides and are not
composed. `AgentSession` has turns share one session and is about what the
history comes to hold; `Turn` gives each turn a session of its own and is about
requests, failures and tools. `Gateway` knows of a turn only what it
says to its user: any number of replies, each by the message tool or by the bus.

Definitions whose comment begins "A mutated form" are never used by the
specifications. They are forms the code might take by a plausible bug, and show
that each property depends on the code.

## 3. Runs

| module, configuration | instance | shows |
|---|---|---|
| `JobQueue`, `JobQueue.cfg` | 2 jobs, 2 loops per process, 1 death, 1 failed write; 390 thousand states | exclusive execution, bounded and counted attempts, loops retiring only themselves, the refinement of `JobLedger`, that the queue drains |
| `AgentSession`, `AgentSession.cfg` | 2 turns of which one calls tools and may overflow, one with an oversized message, 1 death; 690 thousand states | prompts without gaps and without repetitions, one summariser, an ordered and repaired transcript, covered truncation, termination |
| `CronService`, `CronService.cfg` | 1 job of either kind, 2 loops, 3 disturbances out of deaths, `Load`, commands, failed reads and writes; 230 thousand states | marks, loops, one-shot jobs, revival, recurrence |
| `DeviceHub`, `DeviceHub.cfg` | 2 connections, 1 device, 2 registrations, 1 request; 145 thousand states | no caller stranded, no pump blocked, no entry leaked, no device online on the strength of a connection that is gone |
| `MCGateway`, `Gateway.cfg` | one message by Telegram, or two by WhatsApp or by voice; two replies to the first; buffers of 1, 1 worker, 1 failed read; 164 thousand states | no send on a closed channel; what is queued is settled; the shutdown ends; the refinement of `Delivery` |
| `MCSetup`, `Setup.cfg` | 2 users, 2 codes, one process of any of the other commands beside a pairing command and the gateway; a first file that is absent, or lists a user, or nobody; four environments, of which each load meets any | strangers stay out, no API without a key, entries vanish only for a reason |
| `MCTurn`, `Turn.cfg` | a turn with tools and 2 failures alone; one that spawns and one with 4 failures together; a council of `codex` and `http`, and `vertex` alone; the detector scaled down | every turn ends and is answered, no call repeats for ever, every call on the wire has its result, where services give calls their identities |
| `MCServices`, `Services.cfg` | the six scenes; 451 thousand states | saves in order, one firing a day, a token with its account, a router that stops, a device that goes on serving |

Runs in which TLC finds that the code does not do what a comment says (the
findings of `PROJECT.json`):

| module, configuration | the comment | what happens |
|---|---|---|
| `AgentSession`, `SummaryRace.cfg` | `loop.go:1256`, `manager.go:284` | a message that arrives while the summary is being written is dropped, unsummarised |
| `CronService`, `CronInterrupted.cfg` | `cron/service.go:349` | an interrupted job is not due at the next tick; a one-shot job never is |
| `MCTurn`, `SubagentCutOff.cfg` | `tools/base.go:25`, `toolloop.go:209` | a spawned subagent runs under the context of the call that spawned it, which is cancelled as soon as that returns |
| `MCServices`, `StaleHeartbeat.cfg` | `heartbeat/service.go:32` | a heartbeat goes to the chat that was active before the gateway was started |

### Other counterexamples

These are stated in the modules, next to the properties that hold, and TLC
refutes each when it is added to the family's configuration, which takes larger
constants only where the table says so. No run of the project does.

| property | what happens |
|---|---|
| `JobQueue!EveryIdFindsItsJob` | IDs count from one in each process: after a restart an ID may name two jobs, and `GetJob` returns the older (`queue.go:108`). |
| `AgentSession!RebuiltPromptHoldsTheQuestion` | after two compressions the prompt lacks the question (`loop.go:847`). With `SummaryRace.cfg`, `KeepLast = 4`, `MaxCalls = 4`, `MaxIterations = 2`, and `t1` in `ToolTurns` and `OverflowTurns` |
| `CronService!NoDuplicateExecution` | Stop and Start during a callback execute a job twice at once (`cron/service.go:161`); the gateway never does that in one process |
| `DeviceHub!FailedAssociationRegistersNothing` | a connection lost between validation and binding leaves a device registered (`server.go:449`) |
| `Gateway!OneTypingIndicator` | an indicator that ends deletes the chat's entry of a newer one, which a third message then does not stop (`telegram.go:247`). Needs three messages by Telegram |
| `Turn!ResultsHaveTheirCalls` | a compression in the middle of a turn cuts off the call of a result (`context.go:329` removes such results from the start of a history only) |
| `Turn!AllCallsAreAnswered` | a command's model writes the identities of its calls itself (`tool_call_extract.go:55`): none, or the `call_xxx` of the prompt's template, for two calls; the request to an HTTP fallback then has two results for each. With a council of `claudeCli` and `http` in `MCTurn` |
| `Credentials!AccountSentWithToken` | after a login as somebody else whose answer has no account, the running gateway sends the new token with the account it was started with (`codex_provider.go:53`, `62`) |
| `Credentials!OnlyLoginsBringCredentials` | a refresh under way stores what was logged out meanwhile |
| `DeviceClient!AnswersMatchQuestions` | after one answer that comes too late, each question gets the one before's |
| `DeviceClient!AdvertisedIsOffered` | a computer registers a camera and a microphone that work on Termux only |

### Bounds

* *Queue.* Overlap needs two loops; a third adds nothing two cannot do, since
  only the current one and those retired differ. Two jobs are needed for the
  order, for `Purge` of one while the other runs, and for a loop being in one
  job while its successor is in the other. One priority, as jobs of one
  priority are ordered by key; one kind, registered at any time, gives the
  blocked head.
* *Session.* Two turns give every pairwise race. The code's thresholds (keep 4
  messages, compress above 4, two batches above 10) are scaled to 1, 3 and 1, so
  that truncation, compression, and both the single and the two-batch summary
  occur within two turns. `SummaryRace` uses the thresholds named in its
  configuration.
* *Cron.* Each property speaks of one job, and jobs influence one another only
  by waiting for one another: `batch` lets a marked job wait for any time. The
  job may be given a shell command (`Shell = {1}`); as `UpdateJob` is never
  forced, the behaviours of a job without one are included. `MaxEvents` counts
  disturbances, of which three in any mixture occur.
* *Hub.* Two connections for one device give reconnection and the binding of one
  device twice; two registrations, the race between them. The properties speak
  of one request. Two devices, or two requests of one connection, were also
  checked, and pass; they take longer and show nothing new.
* *Gateway.* With buffers of one, the second message already meets a full queue
  and a full subscription, and with one worker it waits for the first.
  Subscribers come and leave at any moment of a publication. `MaxFailedReads` is 1000 in the library;
  one is enough for the panic to happen at any moment after the bridge's loss.
  Two replies to one message give every pair of ways: two sends in a batch, a
  send and then an answer, a notice on the bus and then a send; published, they
  already meet in a full subscription. Telegram's indicators multiply the states, so
  that it has one message here (`Traffic` says that the other is not sent). Two by
  Telegram were also checked: with two replies to one of them for the refinement
  (850 thousand states), and with a reply to each for the two liveness properties.
  So were gateways with two channels, for the invariant.
* *Set-up.* Two processes give every race of one save with one load; the pairing
  command, which also touches the requests, is always one of them. Two users tell
  the one who is listed from the one who is not. The environments are the empty one,
  one that brings credentials and a token, one that exposes the API with a key, and
  one that turns everything off; a load may meet any of them, as commands are run
  from different shells.
* *Turns.* Turn 1 has the batches: a call repeated, two different ones, and the
  terminal tools alone and together. The detector's thresholds (30, 10, 20, 30,
  5, 8 in the code) are scaled to 3, 2, 3, 4, 2, 3: the breaker is above the
  window, so that calls slide out of it before the breaker trips. Turns 2 and 3
  share cooldowns, and four failures take one of them through both models and all
  its retries. A council of two kinds whose wordings differ most, and a single
  provider whose calls have no identity. No council of the run has a command in it:
  what its model may write as identities multiplies the states by nine with each
  batch, and the run's properties leave those councils out or do not depend on
  identities. The theorems of the others hold for every council, and the
  counterexample above was found with one.
* *Services.* Three writers are two concurrent saves and a change between them.
  Days of two minutes, of which two begin, give a restart within the routine's
  minute and a second firing; the end of the year is not reached. Two turns and two
  commands give refresh against refresh, login and logout.

`CHECK_DEADLOCK FALSE` is set throughout: with every bound spent, no message
arriving and no caller, the systems rest.

### Fairness

Only what the Go runtime and the environment owe: goroutines that can go on are
scheduled, tickers and clocks advance, handlers, callbacks and providers return
(the last have a time limit in the code). Nothing is assumed of users, of callers
of methods, of failures, deaths, devices or networks. In `AgentSession`, `Gateway`
and `Turn` it is weaker still: *some* goroutine moves as long as one can. The
services have it for the router's goroutines and for the client's, where they are
at stake; the safety properties of the others need none. `Setup` is about safety
only. `Drains` and `RecurringJobsRecur` are conditional on the callers leaving the
service started.

One assumption about time is not fairness: two heartbeats never look at the
routines in the same minute, since the first comes one second after the start and
the others follow at the ticker's interval, which the configuration keeps at five
minutes or more.

## 4. What the properties are about

*Queue.* `RunningIffHandled` ties the status of a job to the one loop that is in
its handler. `AttemptsBounded` has `+ crashes` because `NewQueue` makes a running
job pending without looking at its attempts: each death may buy a job one
execution more than `MaxRetries`. `EveryCallIsCounted` has `+ writeFaults`
because an attempt is only as durable as the write before the handler's call.

*Session.* `PromptCoversMemory` and `UnansweredCallIsBeingAnswered` exclude the
histories in which `forceCompression` has overwritten what another turn appended
(`clobbered`): there the code loses messages and results. `PromptCoversMemory`
leaves out tool results, which no summary covers, and the notes of a compression,
which stand for no message of their own. `QuietTruncationIsCovered`
is what remains true of the claim that `SummaryRace` refutes.

*Cron.* `OneShotsAreNotRepeated` excludes jobs whose old state came back through
`Load`, which reads the file without recomputing the next runs, or through an
`UpdateJob` that came after the job's time. `RecurringJobsRecur` excludes an
endless sequence of re-enablings, each of which puts off the next run.

*Hub.* `NobodyWaitsForTheGone` depends on the order in `removeWSClient` (cancel,
then fail what is pending) together with the order in `RequestCapability` (list
the channel, then look at the context): each alone would leave a window. At
present only tests call `RequestCapability`; the device's side, and the pumps
that serve it, are in use.

*Gateway.* `ImplementsDelivery` maps the places where a message can be, from the
channel's service to the buffers that hold its replies, to six fates, and says that
they are met in order and by one worker. A turn may say as much as it likes: a batch
may call the message tool several times, and the turn ends without an answer only if
every call of the batch was terminal (`loop.go:922`, `1016`); otherwise it goes on,
to further calls and to an answer. What is promised is promised of each reply: it is
shown twice at most (`telegram.go` tries again whenever the first attempt failed, and
it may have failed after the service had shown it), while its message is being handled
or still waits for it; and what the message tool sends is shown before the turn says
anything else, because the tool calls the channel itself and waits
(`loop.go:418`). What is published, by `notify_user`, by the alerts of the file tools
and of exec, by the notices of a fallback or a compression, or as the answer, has no
such promise: a send made later may overtake it. The summariser's own notice
(`loop.go:1072`), the results of workers and subagents, heartbeats, cron jobs,
proactive messages, and what the message tool sends to another chat are not replies
of a turn and are left out.

`QueuedMessagesAreSettled` would fail if one of dispatcher, worker or
`StartAll` waited for another in a circle, or if an error ended the dispatcher;
`ShutdownCompletes`, if `StopAll` waited for the dispatcher while holding the lock
that the dispatcher needs.

*Set-up.* `StrangersStayOut` is about the moment at which a save has emptied the
file, which then stands for the defaults with their empty allow-list: a running
gateway takes that list over, and `IsAllowed` would admit everybody. It is not
asked, as the gateway has every sender ask for pairing when it knows no user.
`EntriesVanishForAReason` excludes saves of drafts made from an
older file; there the code loses entries, as nothing keeps two commands apart.
What a process loads is overridden by its environment, and a command that saves
writes that to the file for the others. Two things are left out of the environment:
an allow-list, which would replace the file's, and an API that is enabled without a
key, which any command that saves would then write (`EnvironmentAssumption`).

*Turns.* `CallsAreAnsweredOnTheWire` looks at what a provider would send, not at
the messages in memory: calls lost in parsing, results of compressed-away calls
and warnings between a call and its result all show there. It is about
councils whose services give each call an identity of its own, which the code takes
over. Gemini's calls have none, and the models of the two command-line providers
write theirs themselves, so that they may repeat or be empty; councils with one of
those are left out, and what happens to them is in the table above
(`AllCallsAreAnswered`). `AgentSession`, whose calls are told apart, speaks of the
same services. `StuckTurnIsStopped` has
`+ MaxBatch` because the detector is asked after the last call of a batch only.
`EveryTurnIsAnswered` excuses a turn whose message tool sent to another chat, or
failed: the loop takes the terminal tool's word for it.

*Services.* `SavedStatesAdvance` depends on the order of two locks in `state.go`:
`ioMu` is taken before `mu` is released. `RoutineOncePerDay` holds as long as the
mark can be written: the mark is on the disk before the routine reaches the model,
so that a death in between loses a firing rather than repeating it. The constructor
ignores a state file that it cannot read, and begins with an empty state, which the
next save writes; `SavedStatesAdvance` is about the order of saves, and does not say
that nothing is forgotten.
`AccountGoesWithToken` is about what is stored and about what is sent. What is
stored rests on the refresh falling back to the account of the
credential it began with, not to that of the one that is stored by then. What is
sent names the token's own account, or none, or the account that the gateway's
provider was created with: `CodexProvider.Chat` falls back to that one when the
credential has none, whoever has logged in since. That last case is excluded here,
and is the counterexample `AccountSentWithToken`.
`RouterStops` and `RequestsAreServed` are about those who wait: collectors,
handlers behind the semaphore, and a read pump in front of a full channel.

Every family has a type invariant, `TypeOK`, of its own, except the
Services family, where the typing of the state store and of the credentials is
part of the inductive invariants (`StoreInv`, `AuthInv` in `ServicesProofs`). The
type invariants of `JobQueue`, `DeviceHub`, `CronService`, `Setup`,
`AgentSession`, `Gateway` and `Turn` are proved.

## 5. Proofs

All theorems are of the form `Spec => ...` and hold for every value of the
constants that satisfies the named assumptions of the modules, which ask for
little more than that numbers are numbers. Every invariant, every action property
and every refinement that a passing run checks is the property of one of them. The
invariants are not inductive as they stand; each proof module strengthens them, and
checks initial states, every action by itself, and the consequence.

| theorem | establishes |
|---|---|
| `AgentSessionProofs!SessionTypeCorrect` | `TypeOK` |
| `AgentSessionProofs!NeverTwoSummarizers` | `OneSummarizer` |
| `AgentSessionProofs!SessionsStayInOrder` | `TranscriptInOrder` |
| `AgentSessionProofs!TheQuestionIsAskedOnce` | `QuestionAtMostOnce` |
| `AgentSessionProofs!PromptsAreComplete` | `PromptCoversMemory` |
| `AgentSessionProofs!NoCallIsAbandoned` | `UnansweredCallIsBeingAnswered` |
| `AgentSessionProofs!QuietTruncationsLoseNothing` | `QuietTruncationIsCovered` |
| `GatewayProofs!GatewayTypeCorrect` | `TypeOK` |
| `GatewayProofs!NothingIsSentOnClosed` | `NoSendOnClosed` |
| `GatewayProofs!GatewayImplementsDelivery` | `ImplementsDelivery` |
| `CronProofs!SchedulerTypeCorrect` | `TypeOK` |
| `CronProofs!OneLoopServes` | `OneOpenLoop` |
| `CronProofs!GoneStayGone` | `GoneUnlessReloaded` |
| `CronProofs!MarksAreSettled` | `MarkedIsInABatch` |
| `CronProofs!OneShotsRunOnce` | `OneShotsAreNotRepeated` |
| `TurnProofs!TurnTypeCorrect` | `TypeOK` |
| `TurnProofs!StuckTurnsAreStopped` | `StuckTurnIsStopped` |
| `TurnProofs!UsersAreAnswered` | `EveryTurnIsAnswered` |
| `TurnProofs!NoCallGoesOutUnanswered` | `CallsAreAnsweredOnTheWire` |
| `ServicesProofs!SavesAdvance` | `SavedStatesAdvance` |
| `ServicesProofs!AccountsGoWithTokens` | `AccountGoesWithToken` |
| `ServicesProofs!RoutinesAreToldOnceADay` | `RoutineOncePerDay` |
| `SetupProofs!TypeCorrect` | `TypeOK` |
| `SetupProofs!OnlyAdmittedAreHeard` | `StrangersStayOut` |
| `SetupProofs!ApiAlwaysHasKey` | `EnabledApiHasKey` |
| `SetupProofs!NobodyVanishesByAnEdit` | `EntriesVanishForAReason` |

and those of the queue and the hub, which follow.

`JobQueueProofs.tla` proves, for every value of the constants that satisfies
`QueueAssumption`, all the safety properties of `JobQueue.cfg`:

| theorem | establishes |
|---|---|
| `TypeCorrect` | `TypeOK` |
| `CurrentLoopOnly` | `OnlyTheCurrentLoopIsOpen` |
| `NoLoopRetiresAnother` | `RetiredForAReason` |
| `HandlersExclusive` | `RunningIffHandled` |
| `AttemptsStayBounded` | `AttemptsBounded` |
| `CallsAreCounted` | `EveryCallIsCounted` |
| `QueueImplementsLedger` | `ImplementsLedger` |

The invariants are not inductive as they stand; the module strengthens them one
on top of the other.

* `LoopInv`: the loops with numbers above `runID` have not begun, those below are
  stopped, the current one is open exactly while `running`; and a loop that is
  leaving has had its context end.
* `RunInv`: `RunningIffHandled` together with `FreshKeys`, which says that keys
  not yet used have no job. Exclusive handling needs it because `Enqueue` would
  otherwise overwrite a job that is being handled.
* `RetryInv`: a pending job has spent fewer attempts than its limit allows for the
  deaths so far, so that one more claim keeps within the bound; of the file too,
  since the next process starts from it.
* `CallsInv`: the calls of a job are counted in memory, and in the file but for
  the writes that failed since.
* `Ahead`: memory is always `Later` than the file. This is what the refinement
  needs: a successful write moves the file to memory, which must be a forward
  step from whatever older version the file holds.

`DeviceHubProofs.tla` proves, for any connections, devices, registrations and
requests (`HubAssumption` only says that `None` is none of them), all the safety
properties of `DeviceHub.cfg`:

| theorem | establishes |
|---|---|
| `HubTypeCorrect` | `TypeOK` |
| `PumpsNeverBlock` | `ReadPumpNeverBlocks` |
| `EntriesEndWithTheirCalls` | `NoEntryOutlivesItsCall` |
| `NoLostCaller` | `NobodyWaitsForTheGone` |
| `NoDeviceOutlivesItsConnection` | `DeviceOfGoneConnectionIsOffline` |

* `HandInv`: a listed request's channel is empty and no answer to it is on its
  way; a request whose answer a read pump holds still has an empty channel.
  Together they say that taking the entry out of `capReqs` is what entitles one
  to answer, which neither property says by itself.
* `WaitInv`, on top of it: a call under way is listed, or has an answer, or a
  read pump holds its answer (`Tracked`); a client that fails its requests was
  cancelled before (`CancelledFirst`); and entries made after that are never
  queued (`LateEntries`). The last two are the two orders that section 4 names.
* `PostInv`: a registration that has bound its device is done, so that it cannot
  write the registry again when the connection is gone.

`CronProofs.tla`, for any number of jobs, loops and disturbances:

* `LoopsInv`: the loops' records are typed; only a loop that is about to execute
  has a batch; exactly one loop is open while the service runs.
* `ListsInv`: a job that is not listed has left nothing behind, in memory and in
  the file and in the command's copy, and the copy that the tool holds carries no
  mark. Without the latter a late `UpdateJob` would bring a mark that no loop settles.
* `CountsInv`: the bounds, which the type invariant needs.
* `TimesInv`: no copy of a one-shot job, in memory, in the file, in a draft or in
  the command's hands, waits for a time that is over, or is due before its time.
* `OnceInv`, on top of it: a one-shot job that has been taken into a batch is in
  one batch only, is not picked up again while the service runs, and is executed as
  the last thing that happens to it there. It speaks of the jobs that neither `Load`
  nor `UpdateJob` has put back. `AtWork` says that a loop at work has a batch.

`ServicesProofs.tla`:

* `StoreInv`: of the writers, one at most has changed memory and waits for the
  file, and one at most is at the file; their copies and the file are in the
  order of their stamps. It is this order, and not the two locks by themselves,
  that a rename preserves.
* `AuthInv`: whatever is on its way to the file, a turn's or a command's copy of
  the store, has each token with its account; a turn begins only when the provider
  has been created, whose account does not change any more, and its request names the
  token's account, none, or the provider's. `UsersAssumption` says that nobody is both
  a turn and a command.
* `BeatsInv`: a heartbeat that is about to write its marks has looked at routines of
  its own minute, and no other has looked in the same one. `HeartbeatAssumption`
  says that there are two kinds of heartbeat, the one after the start and those of
  the ticker.
* `MarksInv`: as long as the disk can be written, a routine that was told on a day
  has a mark of that day, in memory and in the file. A routine is told in one minute
  of the day only, so that two beats that would tell it on one day are the same
  (`SameMinute`).

`SetupProofs.tla`: `IInv` is `TypeOK` and `Fitting`, which says that the file and
every draft of every process are *fit*: they list nobody but the admitted, and
enable no API without a key. What a process loads is fit in
any environment (`LoadedFits`), by `EnvironmentAssumption`.
One lemma for each section of the wizards shows that
its drafts are fit if the one it starts from is, and that nobody is missing from
them who was in it. `ListInv` says that whoever is on the list is in the file, and
in every draft that was made from this file. The gateway's own list is fit as well,
and it hears only who is on it.

`TurnProofs.tla`: the detector's totals equal what was executed (`Counted`);
outside a batch they are below the breaker, as the batch before would otherwise
have ended the turn, and within one they and what is left of it stay below the
breaker and the longest batch (`Below`); a batch of terminal tools whose calls
have all returned has told the user, is excused, or has completed the bootstrap
(`Informed`). That the cooldowns are typed is needed for the step that
distinguishes their cases. `TurnTypeCorrect` adds that a subagent which goes on has
iterations left, without which its count could pass the limit.

For `CallsAreAnsweredOnTheWire`, `WireInv` looks at the messages in memory, in
councils whose calls have identities of their own. Outside
of a batch (`SettledBefore`) every call in them has its result, none comes before
its call or twice, and all are of earlier iterations, so that the identities that
the next iteration brings are new. Within one (`Pending`) the calls of the batch
that have not been returned are the only ones without a result. Since
results come after their calls, messages that are *settled* stay so when a
compression drops the warnings and the older half; and one lemma per conversion
shows that they still are in what it sends. Conversions and filters are
`FlattenSeq` of what each message becomes; `FlattenFacts` shows once, for any
sequence, where the elements of a flattened one come from and that an order among
them is kept. Its induction is an
appeal to the least index at which the claim fails, as the induction theorems of
the library cannot be instantiated here.

`AgentSessionProofs.tla`: `OneSummarizer`, which includes that the guard is up
while a summariser is at work, is inductive once the records have their fields.
The others rest on three invariants.

* `ShapeInv`: `TypeOK`, and a turn's record fits the place the turn is at
  (`TurnFits`): it asks the provider in an iteration, and has calls left, each
  once, while its tools run.
* `TrailInv`: in every copy of the transcript (memory, file, what a turn or a
  summariser has read, what is on its way to the file) the messages of each turn
  are in the order they happened in, and all of them, those in the summaries too,
  are *behind* the turn that made them: it will not add them again, nor one that
  belongs before them. Without the latter a turn could add a message to a
  transcript that a crash, a repair or a late save had brought to another state.
* `NotInHistory`: what a turn found in the summary, and not in the history that it
  had read before, is not in the history any more. This is why a prompt that is put
  together from two reads is complete.

The functions of `Transcript` (the results stripped from the head, the older half
that makes way for a note, what is selected for a summary, the repair of calls
without results) are shown to keep order and pairs by the same induction over
flattened sequences as in `TurnProofs`.

`GatewayProofs.tla`: every step of every part of the gateway is, for the bus, one
of its operations or none (`PartsUseTheBus`); those preserve that whom a publisher
has still to serve is listed, because the list changes only when nobody
publishes.

For the refinement, `WayInv` says of each message that it is in one place only
(`Apart`), and of each reply (`Good`) that it goes the way it was made for and its
turn waits while it is sent or published (`MadeInv`), that each subscriber has it in
one hand (`InOneHand`), and how often it has been shown (`CopiesInv`): not at all
while it is `Untold`, and at most once while it may be sent again
(`ToldOnceAtMost`). A part about the start (`StartInv`) says that a channel's loop is
started once. Given that, the fate of a message is a function of its place (`Stage`).
A step does one of four things (`Step`): some messages and replies are given up
(`Recedes`), one message gets on (`GetsOn`), one reply is made (`IsMade`), or shown
(`IsShown`): a `GiveUp`, an `Advance`, a `Make` or a `Show` of `Delivery`. There is a
lemma for each action of the gateway's parts, and `NextMoves` combines them. `GatewayTypeCorrect`
adds where the goroutines are, and that no buffer is longer than it was made
(`BoundsInv`).

Only model-checked: liveness (`Drains`, `SettlesDown`, `RecurringJobsRecur`,
`CallsOnLostConnectionsReturn`, `QueuedMessagesAreSettled`, `ShutdownCompletes`,
`TurnsEnd`, `RouterStops`, `RequestsAreServed`), as liveness under fairness is
outside the prover, and so is ENABLED. The event router and the
device's client have no theorem, because what is said of them is liveness. The device
monitor has neither theorem nor property: the module shows what reaches the chat that
the state store names, and TLC runs it, but no run asks anything of it. The
counterexamples of section 3 are TLC's.

## 6. What could come next

The modules cover the program's own core. In the order of importance:

1. `AgentSession` under `Turn`: one specification of turns that share sessions
   and cooldowns. The state space of the product is beyond a run of minutes; a
   proof that `Turn`'s messages refine `AgentSession`'s prompts would be the way.
2. The chat frames of the device hub, whose other side is `DeviceClient`.
3. Type invariants of the scenes of `Services` that have none.

## 7. Not modelled, and why

* File, shell, web and hardware tools, vision, integrations, dashboards, health,
  knowledge, epistemology, skills: I/O and text around no state of their own, or
  state that one goroutine uses. A tool is a call that returns, fails or times out.
* Contributed channels: built only with the tag `legacy`.
* Permissions: a table written once at the start and then frozen.
* Methods without a caller in the program: `AddRoutine`, `RemoveRoutine`,
  `Suggest`, `DetectPatterns`, the bus's `Close` and handlers, `RegisterChannel`,
  `UnregisterChannel`, `SetSummary`, `TruncateHistory`, `Handoff`,
  `BestDeviceFor`.
* What the models contain without a property, since no document promises
  anything of it: `PruneStale` marks a connected device offline three minutes
  after its registration (`main.go:1967`); with more than ten messages to
  summarise the earlier summary is forgotten (`loop.go:1233`); a subscription's ID
  may be given out twice (`router.go:61`); a routine of a minute in which no
  heartbeat looks is never put before the model.
* Queue payloads, backoff lengths, cron expressions, message texts, token counts,
  the wording of dialogues: data that no property tells apart.
