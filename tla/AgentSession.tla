---------------------------- MODULE AgentSession ----------------------------
(***************************************************************************)
(* One conversation of the agent (pkg/agent/loop.go) and the session store *)
(* behind it (pkg/session/manager.go).                                     *)
(*                                                                         *)
(* AgentLoop.Run hands every inbound message to a goroutine of its own, so *)
(* several turns of one session run at once; a turn that ends may start a  *)
(* summariser, which works in the background while further turns arrive.   *)
(* They share the SessionManager: each of its methods is one critical      *)
(* section, and nothing is held between two of them.  Save copies the      *)
(* session under the lock and writes the copy after releasing it.  The     *)
(* process may die at any point; the next one loads and repairs the file.  *)
(***************************************************************************)
EXTENDS Transcript, FiniteSets

CONSTANTS
    Turns,          \* the inbound messages of the session, a turn for each
    OversizedTurns, \* the turns whose text the summariser leaves out
    ToolTurns,      \* the turns whose answers ask for tools
    OverflowTurns,  \* the turns the provider may report a context error to
    MaxIterations,  \* al.maxIterations: provider rounds of one turn
    MaxCalls,       \* bound: tool calls in one provider answer
    MaxRetries,     \* maxRetries of runLLMIteration (2)
    KeepLast,       \* messages kept by a summary, and the least worth one (4)
    CompressMin,    \* forceCompression leaves shorter histories alone (4)
    BatchMax,       \* more messages than this are summarised in two parts (10)
    MaxCrashes      \* bound: process deaths

ASSUME AgentSessionAssumption ==
    /\ {OversizedTurns, ToolTurns, OverflowTurns} \subseteq SUBSET Turns
    /\ {MaxIterations, MaxCalls, BatchMax} \subseteq Nat \ {0}
    /\ {MaxRetries, KeepLast, CompressMin, MaxCrashes} \subseteq Nat

VARIABLES
    history,    \* session.Messages
    summary,    \* session.Summary: the messages it covers
    disk,       \* the session's file
    turn,       \* the goroutine of each turn
    summarizer, \* the summariser each turn may have started
    guard,      \* al.summarizing has the session's key
    clobbered,  \* history: a SetHistory overwrote a change it had not read
    crashes     \* process deaths so far

vars == <<history, summary, disk, turn, summarizer, guard, clobbered, crashes>>

-----------------------------------------------------------------------------
Session == [messages |-> history, summary |-> summary]

EmptySession == [messages |-> << >>, summary |-> {}]

(* A turn: where it is (pc), the history it read last, with the summary    *)
(* there was then (read), its iteration and retry counters, the calls      *)
(* still to execute (left), whether a compression brought it here (again), *)
(* and the copy that Save is writing (file).  The prompt is not kept: once *)
(* it is built, only the provider reads it.                                *)
Waiting == [pc |-> "idle", read |-> EmptySession, iter |-> 0, retry |-> 0,
            left |-> << >>, again |-> FALSE, file |-> EmptySession]

Ended == [Waiting EXCEPT !.pc = "done"]

NoSummarizer == [pc |-> "idle", read |-> << >>, context |-> {},
                 file |-> EmptySession]

Init ==
    /\ history = << >>
    /\ summary = {}
    /\ disk = EmptySession
    /\ turn = [t \in Turns |-> Waiting]
    /\ summarizer = [t \in Turns |-> NoSummarizer]
    /\ guard = FALSE
    /\ clobbered = FALSE
    /\ crashes = 0

background == <<summarizer, guard>>

-----------------------------------------------------------------------------
(* A turn's context: GetHistory, then GetSummary and BuildMessages.  After *)
(* a compression the current message is not passed again.                  *)
ReadHistory(t) ==
    /\ turn[t].pc \in {"idle", "rebuild"}
    /\ turn' = [turn EXCEPT ![t].pc = "summary", ![t].read = Session]
    /\ UNCHANGED <<history, summary, disk, background, clobbered, crashes>>

(* Variant with a bug: the current message is passed again.                *)
CurrentMessageAlways(t) == <<User(t)>>

CurrentMessage(t) == IF turn[t].again THEN << >> ELSE <<User(t)>>

(* Variant with a bug: GetSummary first, then GetHistory.                  *)
PromptSummaryFirst(t) ==
    [messages |-> BuildMessages(history, CurrentMessage(t)),
     summary |-> turn[t].read.summary]

Prompt(t) ==
    [messages |-> BuildMessages(turn[t].read.messages, CurrentMessage(t)),
     summary |-> summary]

BuildsPrompt(t) == turn[t].pc = "summary"

ReadSummary(t) ==
    /\ BuildsPrompt(t)
    /\ turn' = [turn EXCEPT
          ![t].pc = IF turn[t].again THEN "ask" ELSE "add",
          ![t].read = EmptySession,
          ![t].retry = IF turn[t].again THEN @ + 1 ELSE @,
          ![t].again = FALSE]
    /\ UNCHANGED <<history, summary, disk, background, clobbered, crashes>>

AddUserMessage(t) ==
    /\ turn[t].pc = "add"
    /\ history' = Append(history, User(t))
    /\ turn' = [turn EXCEPT ![t].pc = "ask", ![t].iter = 1]
    /\ UNCHANGED <<summary, disk, background, clobbered, crashes>>

-----------------------------------------------------------------------------
(* The provider's answer has tool calls: the assistant message is recorded *)
(* before the tools run, and each result as it returns.                    *)
CallTools(t, width) ==
    LET m == Calls(t, turn[t].iter, width) IN
    /\ t \in ToolTurns
    /\ turn[t].pc = "ask"
    /\ history' = Append(history, m)
    /\ turn' = [turn EXCEPT ![t].pc = "tools",
                            ![t].left = [i \in 1..width |-> i]]
    /\ UNCHANGED <<summary, disk, background, clobbered, crashes>>

ToolReturns(t) ==
    LET m == ToolResult(t, turn[t].iter, Head(turn[t].left)) IN
    /\ turn[t].pc = "tools"
    /\ history' = Append(history, m)
    /\ turn' = [turn EXCEPT
          ![t].pc = IF Len(turn[t].left) = 1 THEN "toolsDone" ELSE "tools",
          ![t].left = Tail(@)]
    /\ UNCHANGED <<summary, disk, background, clobbered, crashes>>

NextIteration(t) ==
    /\ turn[t].pc = "toolsDone"
    /\ turn[t].iter < MaxIterations
    /\ turn' = [turn EXCEPT ![t].pc = "ask", ![t].iter = @ + 1, ![t].retry = 0]
    /\ UNCHANGED <<history, summary, disk, background, clobbered, crashes>>

(* The turn has its final content: a direct answer, the loop detector's    *)
(* verdict, the bootstrap's summary, or the default response when the      *)
(* iterations are spent.                                                   *)
Answer(t) ==
    /\ turn[t].pc \in {"ask", "toolsDone"}
    /\ history' = Append(history, Reply(t, turn[t].iter))
    /\ turn' = [turn EXCEPT ![t] = [Waiting EXCEPT !.pc = "snapshot"]]
    /\ UNCHANGED <<summary, disk, background, clobbered, crashes>>

(* Only message tools were called: they have answered, and no final        *)
(* content is recorded.                                                    *)
EndOnTerminalTools(t) ==
    /\ turn[t].pc = "toolsDone"
    /\ turn' = [turn EXCEPT ![t] = [Waiting EXCEPT !.pc = "snapshot"]]
    /\ UNCHANGED <<history, summary, disk, background, clobbered, crashes>>

(* The provider fails for good: the turn returns before Save.              *)
ProviderFails(t) ==
    /\ turn[t].pc = "ask"
    /\ turn' = [turn EXCEPT ![t] = Ended]
    /\ UNCHANGED <<history, summary, disk, background, clobbered, crashes>>

(* The model does not support tool calling.                                *)
RetryWithoutTools(t) ==
    /\ turn[t].pc = "ask" /\ turn[t].retry < MaxRetries
    /\ turn' = [turn EXCEPT ![t].retry = @ + 1]
    /\ UNCHANGED <<history, summary, disk, background, clobbered, crashes>>

-----------------------------------------------------------------------------
(* The provider reports a context error: forceCompression reads the        *)
(* history, writes the shorter one back and saves it; then the prompt is   *)
(* rebuilt.                                                                *)
ContextError(t) ==
    /\ t \in OverflowTurns
    /\ turn[t].pc = "ask" /\ turn[t].retry < MaxRetries
    /\ turn' = [turn EXCEPT ![t].pc = "compress", ![t].again = TRUE]
    /\ UNCHANGED <<history, summary, disk, background, clobbered, crashes>>

CompressRead(t) ==
    /\ turn[t].pc = "compress"
    /\ turn' = IF Len(history) <= CompressMin
               THEN [turn EXCEPT ![t].pc = "rebuild"]
               ELSE [turn EXCEPT ![t].pc = "setHistory",
                                   ![t].read = [EmptySession EXCEPT !.messages = history]]
    /\ UNCHANGED <<history, summary, disk, background, clobbered, crashes>>

CompressWrite(t) ==
    /\ turn[t].pc = "setHistory"
    /\ history' = Compressed(t, turn[t].read.messages)
    /\ clobbered' = (clobbered \/ history # turn[t].read.messages)
    /\ turn' = [turn EXCEPT ![t].pc = "snapshot", ![t].read = EmptySession]
    /\ UNCHANGED <<summary, disk, background, crashes>>

(* Save: the copy under the lock, then the write; its error is ignored.    *)
Snapshot(t) ==
    /\ turn[t].pc = "snapshot"
    /\ turn' = [turn EXCEPT ![t].pc = "rename", ![t].file = Session]
    /\ UNCHANGED <<history, summary, disk, background, clobbered, crashes>>

Rename(t, ok) ==
    /\ turn[t].pc = "rename"
    /\ disk' = IF ok THEN turn[t].file ELSE disk
    /\ turn' = [turn EXCEPT ![t].pc = IF turn[t].again THEN "rebuild" ELSE "saved",
                            ![t].file = EmptySession]
    /\ UNCHANGED <<history, summary, background, clobbered, crashes>>

-----------------------------------------------------------------------------
(* Variant with a bug: the guard is set without looking at it.             *)
MaybeSummarizeUnguarded(t, toobig) ==
    /\ turn[t].pc = "saved"
    /\ turn' = [turn EXCEPT ![t] = Ended]
    /\ guard' = (guard \/ toobig)
    /\ summarizer' = IF toobig THEN [summarizer EXCEPT ![t].pc = "history"]
                     ELSE summarizer
    /\ UNCHANGED <<history, summary, disk, clobbered, crashes>>

(* maybeSummarize: the history is long, or heavy in tokens (toobig), and   *)
(* LoadOrStore finds no summariser at work.                                *)
MaybeSummarize(t, toobig) ==
    /\ turn[t].pc = "saved"
    /\ turn' = [turn EXCEPT ![t] = Ended]
    /\ IF toobig /\ ~guard
       THEN /\ guard' = TRUE
            /\ summarizer' = [summarizer EXCEPT ![t].pc = "history"]
       ELSE UNCHANGED background
    /\ UNCHANGED <<history, summary, disk, clobbered, crashes>>

(* summarizeSession: GetHistory, GetSummary, the provider, then            *)
(* SummarizeAndTruncate and Save.                                          *)
SummarizerReadsHistory(t) ==
    /\ summarizer[t].pc = "history"
    /\ summarizer' = [summarizer EXCEPT ![t].pc = "summary", ![t].read = history]
    /\ UNCHANGED <<history, summary, disk, turn, guard, clobbered, crashes>>

Valid(t) == IF Len(summarizer[t].read) <= KeepLast THEN << >>
            ELSE ValidMessages(summarizer[t].read, KeepLast, OversizedTurns)

(* Variant with a bug: the early return skips the deferred Delete.         *)
SummarizerReturnsEarly(t) ==
    /\ summarizer[t].pc = "summary"
    /\ summarizer' = IF Valid(t) = << >>
                     THEN [summarizer EXCEPT ![t] = NoSummarizer]
                     ELSE [summarizer EXCEPT ![t].pc = "call", ![t].context = summary]
    /\ UNCHANGED <<history, summary, disk, turn, guard, clobbered, crashes>>

SummarizerReadsSummary(t) ==
    /\ summarizer[t].pc = "summary"
    /\ summarizer' = IF Valid(t) = << >>
                     THEN [summarizer EXCEPT ![t] = [NoSummarizer EXCEPT !.pc = "release"]]
                     ELSE [summarizer EXCEPT ![t].pc = "call", ![t].context = summary]
    /\ UNCHANGED <<history, summary, disk, turn, guard, clobbered, crashes>>

(* What the new summary may cover.  One batch extends the summary there    *)
(* was, and its failure leaves it alone.  Two batches ignore it; whichever *)
(* of them fails adds nothing, and a failed merge still joins what there   *)
(* is with a blank, so that the text is never empty.                       *)
NewSummaries(t) ==
    LET valid == Valid(t)
    IN  IF Len(valid) <= BatchMax
        THEN {Elements(valid) \cup summarizer[t].context}
        ELSE {UNION parts : parts \in SUBSET {Elements(FirstPart(valid)),
                                              Elements(SecondPart(valid))}}

SummarizeAndTruncate(t) ==
    /\ summarizer[t].pc = "call"
    /\ summary' \in NewSummaries(t)
    /\ history' = LastOf(history, KeepLast)
    /\ summarizer' = [summarizer EXCEPT ![t] = [NoSummarizer EXCEPT !.pc = "snapshot"]]
    /\ UNCHANGED <<disk, turn, guard, clobbered, crashes>>

(* The provider fails, or answers with an empty text.                      *)
SummaryFails(t) ==
    /\ summarizer[t].pc = "call"
    /\ summarizer' = [summarizer EXCEPT ![t] = [NoSummarizer EXCEPT !.pc = "release"]]
    /\ UNCHANGED <<history, summary, disk, turn, guard, clobbered, crashes>>

SummarizerSnapshot(t) ==
    /\ summarizer[t].pc = "snapshot"
    /\ summarizer' = [summarizer EXCEPT ![t].pc = "rename", ![t].file = Session]
    /\ UNCHANGED <<history, summary, disk, turn, guard, clobbered, crashes>>

SummarizerRename(t, ok) ==
    /\ summarizer[t].pc = "rename"
    /\ disk' = IF ok THEN summarizer[t].file ELSE disk
    /\ summarizer' = [summarizer EXCEPT ![t] = [NoSummarizer EXCEPT !.pc = "release"]]
    /\ UNCHANGED <<history, summary, turn, guard, clobbered, crashes>>

(* The deferred summarizing.Delete.                                        *)
Release(t) ==
    /\ summarizer[t].pc = "release"
    /\ guard' = FALSE
    /\ summarizer' = [summarizer EXCEPT ![t] = NoSummarizer]
    /\ UNCHANGED <<history, summary, disk, turn, clobbered, crashes>>

-----------------------------------------------------------------------------
(* The process dies with its turns; the next one loads the file.           *)
CrashAndRestart ==
    /\ crashes < MaxCrashes
    /\ crashes' = crashes + 1
    /\ history' = RepairOrphanedToolCalls(disk.messages)
    /\ summary' = disk.summary
    /\ turn' = [t \in Turns |-> IF turn[t].pc = "idle" THEN Waiting ELSE Ended]
    /\ summarizer' = [t \in Turns |-> NoSummarizer]
    /\ guard' = FALSE
    /\ clobbered' = FALSE
    /\ UNCHANGED disk

-----------------------------------------------------------------------------
(* What a turn's goroutine does next once the turn has begun.              *)
TurnStep(t) ==
    \/ turn[t].pc # "idle" /\ ReadHistory(t)
    \/ ReadSummary(t)
    \/ AddUserMessage(t)
    \/ \E width \in 1..MaxCalls : CallTools(t, width)
    \/ ToolReturns(t)
    \/ NextIteration(t)
    \/ Answer(t)
    \/ EndOnTerminalTools(t)
    \/ ProviderFails(t)
    \/ RetryWithoutTools(t)
    \/ ContextError(t)
    \/ CompressRead(t)
    \/ CompressWrite(t)
    \/ Snapshot(t)
    \/ \E ok \in BOOLEAN : Rename(t, ok)
    \/ \E toobig \in BOOLEAN : MaybeSummarize(t, toobig)

SummarizerStep(t) ==
    \/ SummarizerReadsHistory(t)
    \/ SummarizerReadsSummary(t)
    \/ SummarizeAndTruncate(t)
    \/ SummaryFails(t)
    \/ SummarizerSnapshot(t)
    \/ \E ok \in BOOLEAN : SummarizerRename(t, ok)
    \/ Release(t)

MessageArrives(t) == turn[t].pc = "idle" /\ ReadHistory(t)

Next ==
    \/ \E t \in Turns : MessageArrives(t) \/ TurnStep(t) \/ SummarizerStep(t)
    \/ CrashAndRestart

Spec == Init /\ [][Next]_vars

(* As long as a goroutine can move one does: the provider and the tools    *)
(* answer or time out.  Nothing is assumed of which one, and nobody has to *)
(* send a message.                                                         *)
FairSpec == Spec /\ WF_vars(\E t \in Turns : TurnStep(t) \/ SummarizerStep(t))

-----------------------------------------------------------------------------
Roles == {"user", "call", "tool", "assistant", "note"}

Messages == [turn : Turns, role : Roles, n : Nat, i : Nat]

Sessions == [messages : Seq(Messages), summary : SUBSET Messages]

TurnPcs == {"idle", "summary", "add", "ask", "tools", "toolsDone", "compress",
            "setHistory", "rebuild", "snapshot", "rename", "saved", "done"}

SummarizerPcs == {"idle", "history", "summary", "call", "snapshot", "rename",
                  "release"}

(* The types of the variables.                                             *)
TypeOK ==
    /\ history \in Seq(Messages)
    /\ summary \subseteq Messages
    /\ disk \in Sessions
    /\ turn \in [Turns -> [pc : TurnPcs, read : Sessions, iter : 0..MaxIterations,
                           retry : 0..MaxRetries, left : Seq(1..MaxCalls),
                           again : BOOLEAN, file : Sessions]]
    /\ summarizer \in [Turns -> [pc : SummarizerPcs, read : Seq(Messages),
                                 context : SUBSET Messages, file : Sessions]]
    /\ guard \in BOOLEAN
    /\ clobbered \in BOOLEAN
    /\ crashes \in 0..MaxCrashes

(* However many turns end at once, at most one summariser works on the     *)
(* session, and the guard says so until its file is written: a second one  *)
(* would summarise, and truncate, what the first is about to truncate      *)
(* (maybeSummarize's LoadOrStore).                                         *)
OneSummarizer ==
    \A t \in Turns : summarizer[t].pc # "idle" =>
        guard /\ \A u \in Turns \ {t} : summarizer[u].pc = "idle"

Covered(session) == Elements(session.messages) \cup session.summary

(* A prompt misses nothing that a summariser moves from the history to the *)
(* summary while the prompt is being put together: GetHistory comes before *)
(* GetSummary.  Tool results, which a summary never covers, are left out,  *)
(* and the notes of a compression, which stand for no message of their own *)
(* and look alike; so are the histories a racing forceCompression has      *)
(* resurrected.                                                            *)
PromptCoversMemory ==
    \A t \in Turns :
        BuildsPrompt(t) /\ ~clobbered =>
            \A m \in Covered(turn[t].read) \cap Covered(Session) :
                m.role \notin {"tool", "note"} => m \in Covered(Prompt(t))

Occurrences(m, s) == Cardinality({p \in DOMAIN s : s[p] = m})

(* The provider never sees the current message twice, though it is added   *)
(* to the session while the prompt already holds it, and the prompt may be *)
(* rebuilt from the session (runLLMIteration's empty currentMessage).      *)
QuestionAtMostOnce ==
    \A t \in Turns : BuildsPrompt(t) => Occurrences(User(t), Prompt(t).messages) <= 1

Rank(m) == CASE m.role = "user" -> 0
             [] m.role = "call" -> 2 * m.n
             [] m.role = "tool" -> 2 * m.n + 1
             [] m.role = "assistant" -> 2 * m.n + 2

InOrder(s) ==
    \A p, q \in DOMAIN s :
        p < q /\ s[p].turn = s[q].turn /\ "note" \notin {s[p].role, s[q].role} =>
            s[p] # s[q] /\ Rank(s[p]) <= Rank(s[q])

(* Whatever is compressed, summarised, saved out of order, lost in a crash *)
(* or repaired, what is left of a turn stays in the order it happened in,  *)
(* and no message is there twice, in memory and in the file.               *)
TranscriptInOrder == InOrder(history) /\ InOrder(disk.messages)

(* A call without a result is the work of a turn that is still running its *)
(* tools: an ended or crashed turn leaves none behind, or every later      *)
(* prompt of the session would be refused (repairOrphanedToolCalls).  Only *)
(* a forceCompression that overwrites another turn's appends breaks it.    *)
UnansweredCallIsBeingAnswered ==
    ~clobbered =>
        \A m \in Elements(history) : \A r \in Unanswered(history, m) :
            /\ turn[m.turn].pc = "tools" /\ turn[m.turn].iter = m.n
            /\ r.i \in Elements(turn[m.turn].left)

Truncates(t) == summarizer[t].pc = "call" /\ summarizer'[t].pc = "snapshot"

(* When the session has not changed since the summariser read it and no    *)
(* batch failed, every message that could be summarised and is dropped is  *)
(* covered: what summarizeSession leaves out at the end of the history is  *)
(* what SummarizeAndTruncate keeps.                                        *)
QuietTruncationIsCovered ==
    [][\A t \in Turns :
         Truncates(t) /\ history = summarizer[t].read
                      /\ Elements(Valid(t)) \subseteq summary' =>
            \A m \in Elements(history) \ Elements(history') :
                Summarizable(m, OversizedTurns) => m \in summary']_vars

(* Whatever the provider answers, the turns that have begun end, and the   *)
(* session's guard is free again: retries nested in iterations are bounded *)
(* and no early return of a summariser keeps the guard, after which the    *)
(* session could never be summarised again.                                *)
SettlesDown ==
    <>[](~guard /\ \A t \in Turns : turn[t].pc \in {"idle", "done"})

(* loop.go 1256 and manager.go 284: the summary is set and the history     *)
(* truncated in one operation so that a new message that arrives meanwhile *)
(* is not incorrectly dropped.  Arriving means: after the summariser read  *)
(* the history it is about to truncate.                                    *)
ArrivingMessagesAreNotDropped ==
    [][\A t \in Turns : Truncates(t) =>
         Elements(history) \ Elements(summarizer[t].read)
            \subseteq Elements(history')]_vars

(* loop.go 847: after forceCompression the session history already contains*)
(* the current user message, so the rebuilt prompt holds it too.           *)
RebuiltPromptHoldsTheQuestion ==
    \A t \in Turns : BuildsPrompt(t) => User(t) \in Elements(Prompt(t).messages)
=============================================================================
