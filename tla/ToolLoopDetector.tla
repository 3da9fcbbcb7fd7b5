--------------------------- MODULE ToolLoopDetector ---------------------------
(***************************************************************************)
(* pkg/agent/tool_loop_detect.go: what one turn's detector remembers of    *)
(* its tool calls, and the severity it reports after a batch.  A call      *)
(* stands for the hash of a tool's name and arguments, an outcome for that *)
(* and the hash of the result.                                             *)
(***************************************************************************)
EXTENDS Integers, Sequences, FiniteSets

CONSTANTS
    Calls,                                          \* the distinct calls
    HistorySize, WarnThreshold, CriticalThreshold,  \* 30, 10, 20 in the code
    CircuitBreaker, NoProgressConsec, PingPongLength \* 30, 5, 8

ASSUME DetectorAssumption ==
    /\ HistorySize \in Nat \ {0} /\ CircuitBreaker \in Nat \ {0}
    /\ WarnThreshold \in Nat \ {0} /\ CriticalThreshold \in Nat
    /\ WarnThreshold <= CriticalThreshold
    /\ NoProgressConsec \in Nat \ {0} /\ PingPongLength \in Nat /\ PingPongLength > 1

LoopNone == 0
LoopWarning == 1
LoopCritical == 2

NewDetector == [calls |-> << >>, outcomes |-> << >>, totals |-> [c \in Calls |-> 0]]

LastOf(s, n) == IF Len(s) <= n THEN s ELSE SubSeq(s, Len(s) - n + 1, Len(s))

\* A mutated form: what slides out of the window is forgotten altogether.
RecordInWindow(d, c) ==
    LET kept == LastOf(Append(d.calls, c), HistorySize)
    IN [d EXCEPT !.calls = kept,
                 !.totals = [h \in Calls |-> Cardinality({i \in DOMAIN kept : kept[i] = h})]]

Record(d, c) ==
    [d EXCEPT !.calls = LastOf(Append(@, c), HistorySize), !.totals[c] = @ + 1]

RecordOutcome(d, c, result) ==
    [d EXCEPT !.outcomes = LastOf(Append(@, <<c, result>>), HistorySize)]

CheckCircuitBreaker(d) ==
    IF \E c \in Calls : d.totals[c] >= CircuitBreaker THEN LoopCritical ELSE LoopNone

TimesInWindow(d, c) == Cardinality({i \in DOMAIN d.calls : d.calls[i] = c})

CheckGenericRepeat(d) ==
    IF \E c \in Calls : TimesInWindow(d, c) >= CriticalThreshold THEN LoopCritical
    ELSE IF \E c \in Calls : TimesInWindow(d, c) >= WarnThreshold THEN LoopWarning
    ELSE LoopNone

CheckNoProgress(d) ==
    LET tail == LastOf(d.outcomes, NoProgressConsec) IN
    IF Len(tail) = NoProgressConsec /\ \A i \in DOMAIN tail : tail[i] = tail[1]
    THEN LoopWarning ELSE LoopNone

CheckPingPong(d) ==
    LET tail == LastOf(d.calls, PingPongLength) IN
    IF /\ Len(tail) = PingPongLength /\ tail[1] # tail[2]
       /\ \A i \in DOMAIN tail : tail[i] = IF i % 2 = 1 THEN tail[1] ELSE tail[2]
    THEN LoopWarning ELSE LoopNone

\* The first check that finds something speaks for all.
Check(d) ==
    IF CheckCircuitBreaker(d) # LoopNone THEN CheckCircuitBreaker(d)
    ELSE IF CheckGenericRepeat(d) # LoopNone THEN CheckGenericRepeat(d)
    ELSE IF CheckNoProgress(d) # LoopNone THEN CheckNoProgress(d)
    ELSE CheckPingPong(d)
=============================================================================
