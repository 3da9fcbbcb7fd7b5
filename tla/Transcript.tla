----------------------------- MODULE Transcript -----------------------------
(***************************************************************************)
(* A session's messages and the pure functions the agent applies to them:  *)
(* the prompt built for the provider (pkg/agent/context.go), the forced    *)
(* compression and the selection of what to summarise (pkg/agent/loop.go), *)
(* and the repair of a transcript loaded from disk                         *)
(* (pkg/session/manager.go).                                               *)
(*                                                                         *)
(* A message is identified by the turn that appended it, its role, the     *)
(* iteration n of the tool loop, and i: which call a tool result answers,  *)
(* how many calls an assistant message makes, or how many messages a       *)
(* compression note replaces.  An assistant message with ToolCalls has the *)
(* role "call" here; the code calls both "assistant".                      *)
(***************************************************************************)
EXTENDS Naturals, Sequences, SequencesExt

Message(turn, role, n, i) == [turn |-> turn, role |-> role, n |-> n, i |-> i]

User(t) == Message(t, "user", 0, 0)
Calls(t, n, width) == Message(t, "call", n, width)
ToolResult(t, n, i) == Message(t, "tool", n, i)
Reply(t, n) == Message(t, "assistant", n, 0)
Note(t, dropped) == Message(t, "note", 0, dropped)

Elements(s) == {s[p] : p \in DOMAIN s}

-----------------------------------------------------------------------------
(* BuildMessages: tool results at the head of the history lost their call  *)
(* and are stripped; the current message, if there is one, comes last.     *)
StripLeadingTools(h) ==
    LET first == SelectInSeq(h, LAMBDA m : m.role # "tool")
    IN  IF first = 0 THEN << >> ELSE SubSeq(h, first, Len(h))

BuildMessages(h, current) == StripLeadingTools(h) \o current

(* forceCompression: the older half makes way for a note.                  *)
Compressed(t, h) ==
    LET dropCount == Len(h) \div 2
    IN  <<Note(t, dropCount)>> \o SubSeq(h, dropCount + 1, Len(h))

-----------------------------------------------------------------------------
LastOf(h, keep) == IF Len(h) > keep THEN SubSeq(h, Len(h) - keep + 1, Len(h))
                   ELSE h

Summarizable(m, oversized) ==
    m.role # "tool" /\ ~(m.role = "user" /\ m.turn \in oversized)

(* Variant with a bug: one message too few is summarised.                  *)
ValidMessagesOffByOne(h, keep, oversized) ==
    FlattenSeq([p \in 1..Len(h) - keep - 1 |->
        IF Summarizable(h[p], oversized) THEN <<h[p]>> ELSE << >>])

(* summarizeSession's validMessages: all but the last keep messages, less  *)
(* the tool results and the messages of the turns whose text is oversized. *)
ValidMessages(h, keep, oversized) ==
    FlattenSeq([p \in 1..Len(h) - keep |->
        IF Summarizable(h[p], oversized) THEN <<h[p]>> ELSE << >>])

FirstPart(valid) == SubSeq(valid, 1, Len(valid) \div 2)
SecondPart(valid) == SubSeq(valid, Len(valid) \div 2 + 1, Len(valid))

-----------------------------------------------------------------------------
Results(m) == {ToolResult(m.turn, m.n, i) : i \in 1..m.i}

Unanswered(h, m) == IF m.role = "call" THEN Results(m) \ Elements(h) ELSE {}

(* Variant with a bug: the results there are are not looked for.           *)
SyntheticAlways(h, m) ==
    IF m.role = "call" THEN [i \in 1..m.i |-> ToolResult(m.turn, m.n, i)] ELSE << >>

(* repairOrphanedToolCalls: after each assistant message, a synthetic      *)
(* result for each of its calls that has none anywhere in the transcript.  *)
Synthetic(h, m) ==
    FlattenSeq([i \in 1..m.i |->
        LET r == ToolResult(m.turn, m.n, i)
        IN  IF r \in Unanswered(h, m) THEN <<r>> ELSE << >>])

(* Variant with a bug: the transcript is loaded as it is.                  *)
LoadUnrepaired(h) == h

RepairOrphanedToolCalls(h) ==
    FlattenSeq([p \in DOMAIN h |-> <<h[p]>> \o Synthetic(h, h[p])])
=============================================================================
