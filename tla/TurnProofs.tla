------------------------------- MODULE TurnProofs -------------------------------
(***************************************************************************)
(* Proofs about the turns: for any number of them, any batches of calls,   *)
(* any thresholds of the detector, and any councils and failures.          *)
(*                                                                         *)
(* That every request holds the results of its calls rests on what stands  *)
(* before what in a turn's messages: results after their calls, each once  *)
(* (Ordered).  Filters, suffixes and the conversions of the providers keep *)
(* that order; while a batch is executed the calls without a result are    *)
(* those left of it (Pending), and outside of batches there are none       *)
(* (Settled).                                                              *)
(***************************************************************************)
EXTENDS Turn, SequenceTheorems, WellFoundedInduction, TLAPS
-----------------------------------------------------------------------------
(***************************************************************************)
(* The detector's totals are what the turn has executed.  Outside a batch  *)
(* they are below the breaker, as the batch before would otherwise have    *)
(* been the last; within one they and what is left of it stay below the    *)
(* breaker and the longest batch.  A batch of terminal tools only that has *)
(* come to its end has told the user, or has completed the bootstrap.      *)
(***************************************************************************)
Fields == {"at", "iteration", "retry", "tools", "model", "left", "onlyTerminal",
           "bootstrap", "faults"}

Shaped ==
    /\ DOMAIN turn = Turns /\ DOMAIN detector = Turns /\ DOMAIN executed = Turns
    /\ \A t \in Turns : /\ DOMAIN turn[t] = Fields
                        /\ DOMAIN detector[t] = {"calls", "outcomes", "totals"}

Counted(t) ==
    /\ detector[t].totals \in [Calls -> Nat]
    /\ executed[t] = detector[t].totals

InBatch(t) == turn[t].at \in {"tools", "executing"}

Below(t) ==
    /\ ~InBatch(t) => \A c \in Calls : executed[t][c] < CircuitBreaker
    /\ turn[t].at = "tools" =>
          \A c \in Calls : executed[t][c] + Len(turn[t].left) < CircuitBreaker + MaxBatch
    /\ turn[t].at = "executing" =>
          /\ turn[t].left # << >>
          /\ \A c \in Calls : executed[t][c] + Len(turn[t].left) <= CircuitBreaker + MaxBatch

Heard(t) == t \in told \cup excused

Informed(t) ==
    /\ turn[t].at = "done" => Heard(t)
    /\ InBatch(t) =>
          /\ turn[t].left \in Seq(Calls)
          /\ turn[t].onlyTerminal =>
                /\ \A i \in DOMAIN turn[t].left : turn[t].left[i] \in TerminalTools
                /\ turn[t].left = << >> => turn[t].bootstrap \/ Heard(t)

Good(t) == Counted(t) /\ Below(t) /\ Informed(t)

IInv == Shaped /\ \A t \in Turns : Good(t)

(* A cooldown is one of four, of one of the two models.                    *)
Cooling ==
    /\ model \in Models /\ cooldown \in [Models -> {"none", "forever", "resting", "over"}]
    /\ DOMAIN turn = Turns
    /\ \A t \in Turns : turn[t].model \in Models /\ DOMAIN turn[t] = Fields

(* No model rests at first.                                                *)
LEMMA CoolingInitially == Init => Cooling
<1> SUFFICES ASSUME Init PROVE Cooling
  OBVIOUS
<1>1. /\ DOMAIN NotStarted = Fields /\ DOMAIN Over = Fields
      /\ NotStarted.model \in Models /\ Over.model \in Models
  BY DEF NotStarted, Over, Fields, Models
<1> QED
  BY <1>1 DEF Init, Cooling, Models

(* A turn's model is only ever set to the loop's.                          *)
LEMMA CoolingKeeps ==
    ASSUME Cooling, [Next]_vars
    PROVE  Cooling'
<1>1. ASSUME NEW t \in Turns, TurnStep(t) PROVE Cooling'
  <2>0. DOMAIN turn = Turns /\ DOMAIN turn[t] = Fields /\ turn[t].model \in Models
    BY DEF Cooling
  <2>1. ASSUME NEW r, turn' = [turn EXCEPT ![t] = r], DOMAIN r = Fields, r.model \in Models,
               model' \in Models, cooldown' \in [Models -> {"none", "forever", "resting", "over"}]
        PROVE  Cooling'
    BY <2>0, <2>1 DEF Cooling
  <2>2. DOMAIN Over = Fields /\ Over.model \in Models
    BY DEF NotStarted, Over, Fields, Models
  <2>3. \A n : DOMAIN Iteration(turn[t], n) = Fields /\ Iteration(turn[t], n).model \in Models
    BY <2>0 DEF Iteration, Fields, Cooling
  <2>4. ASSUME NEW words, AfterError(t, words), model' = model PROVE Cooling'
    <3>1. CASE Fail(t)
      BY <2>1, <2>2, <2>4, <3>1 DEF Fail, End, AfterError, Cooling
    <3>2. ASSUME NEW tools, RetryWith(t, tools) PROVE Cooling'
      <4> DEFINE r == [turn[t] EXCEPT !.at = "cooldown", !.retry = turn[t].retry + 1,
                                      !.tools = tools,
                                      !.faults = IF turn[t].at = "skipped" THEN turn[t].faults
                                                 ELSE turn[t].faults + 1]
      <4>1. turn' = [turn EXCEPT ![t] = r]
        BY <2>0, <3>2 DEF RetryWith
      <4>2. DOMAIN r = Fields /\ r.model \in Models
        BY <2>0 DEF Fields
      <4> HIDE DEF r
      <4> QED
        BY <2>1, <2>4, <4>1, <4>2 DEF AfterError, Cooling
    <3> QED
      BY <2>4, <3>1, <3>2 DEF AfterError
  <2>5. ASSUME NEW at, turn' = [turn EXCEPT ![t].at = at], model' \in Models,
               cooldown' \in [Models -> {"none", "forever", "resting", "over"}]
        PROVE  Cooling'
    <3>1. /\ turn' = [turn EXCEPT ![t] = [turn[t] EXCEPT !.at = at]]
          /\ DOMAIN [turn[t] EXCEPT !.at = at] = Fields
          /\ [turn[t] EXCEPT !.at = at].model \in Models
      BY <2>0, <2>5 DEF Fields
    <3> QED
      BY <2>1, <2>5, <3>1
  <2>6. CASE Begin(t)
    BY <2>0, <2>1, <2>3, <2>6 DEF Begin, Cooling
  <2>7. CASE Command(t)
    BY <2>5, <2>7 DEF Command, Cooling
  <2>8. CASE CheckCooldown(t)
    BY <2>5, <2>8 DEF CheckCooldown, Cooling
  <2>9. CASE ForgetCooldown(t)
    BY <2>5, <2>9 DEF ForgetCooldown, Cooling
  <2>10. CASE SkipPrimary(t)
    BY <2>4, <2>5, <2>10 DEF SkipPrimary, Cooling
  <2>11. CASE ChatFails(t)
    <3>1. ASSUME NEW words, RecoverWithCouncil(t, words) PROVE Cooling'
      <4> DEFINE r == [turn[t] EXCEPT !.at = "fallback", !.faults = turn[t].faults + 1]
      <4>1. turn' = [turn EXCEPT ![t] = r]
        BY <2>0, <3>1 DEF RecoverWithCouncil
      <4>2. DOMAIN r = Fields /\ r.model \in Models
        BY <2>0 DEF Fields
      <4>3. cooldown' \in [Models -> {"none", "forever", "resting", "over"}]
        BY <2>0, <3>1 DEF RecoverWithCouncil, Cooling
      <4> HIDE DEF r
      <4> QED
        BY <2>1, <2>11, <4>1, <4>2, <4>3 DEF ChatFails, Cooling
    <3> QED
      BY <2>4, <2>11, <3>1 DEF ChatFails
  <2>12. CASE ChatAnswers(t)
    BY <2>1, <2>2, <2>12 DEF ChatAnswers, Finish, End, Cooling
  <2>13. CASE ChatCallsTools(t)
    <3>1. PICK batch \in Batches[t] :
             turn' = [turn EXCEPT ![t].at = "tools", ![t].left = batch,
                          ![t].onlyTerminal = \A i \in DOMAIN batch : IsTerminalToolCall(batch[i]),
                          ![t].bootstrap = FALSE]
      BY <2>13 DEF ChatCallsTools
    <3> DEFINE r == [turn[t] EXCEPT !.at = "tools", !.left = batch,
                         !.onlyTerminal = \A i \in DOMAIN batch : IsTerminalToolCall(batch[i]),
                         !.bootstrap = FALSE]
    <3>2. turn' = [turn EXCEPT ![t] = r]
      BY <2>0, <3>1
    <3>3. DOMAIN r = Fields /\ r.model \in Models
      BY <2>0 DEF Fields
    <3> HIDE DEF r
    <3> QED
      BY <2>1, <2>13, <3>2, <3>3 DEF ChatCallsTools, Cooling
  <2>14. CASE ExecuteTool(t)
    BY <2>5, <2>14 DEF ExecuteTool, Cooling
  <2>15. CASE ToolReturns(t)
    <3> DEFINE r == [turn[t] EXCEPT !.at = "tools", !.left = Tail(turn[t].left),
                         !.bootstrap = turn[t].bootstrap
                                       \/ Head(turn[t].left) = "complete_bootstrap"]
    <3>1. turn' = [turn EXCEPT ![t] = r]
      BY <2>0, <2>15 DEF ToolReturns
    <3>2. DOMAIN r = Fields /\ r.model \in Models
      BY <2>0 DEF Fields
    <3> HIDE DEF r
    <3> QED
      BY <2>1, <2>15, <3>1, <3>2 DEF ToolReturns, Cooling
  <2>16. CASE BatchEnds(t)
    <3>1. CASE End(t)
      BY <2>1, <2>2, <2>16, <3>1 DEF BatchEnds, End, Cooling
    <3>2. ASSUME NEW severity, GoOn(t, severity) PROVE Cooling'
      BY <2>0, <2>1, <2>3, <2>16, <3>2 DEF BatchEnds, GoOn, Cooling
    <3> QED
      BY <2>16, <3>1, <3>2 DEF BatchEnds, Finish
  <2> QED
    BY <1>1, <2>6, <2>7, <2>8, <2>9, <2>10, <2>11, <2>12, <2>13, <2>14, <2>15, <2>16 DEF TurnStep
<1>2. ASSUME NEW t \in Turns, SubagentStep(t) PROVE Cooling'
  BY <1>2 DEF SubagentStep, SubagentAsks, SubagentUsesTools, Cooling
<1>3. ASSUME NEW m \in Models, CooldownExpires(m) PROVE Cooling'
  BY <1>3 DEF CooldownExpires, Cooling
<1>4. CASE UNCHANGED vars
  BY <1>4 DEF vars, Cooling
<1> QED
  BY <1>1, <1>2, <1>3, <1>4 DEF Next
-----------------------------------------------------------------------------
(* Nobody has executed anything, and those whose turn is over have heard.  *)
LEMMA Initially == Init => IInv
<1> SUFFICES ASSUME Init PROVE IInv
  OBVIOUS
<1>1. /\ DOMAIN NotStarted = Fields /\ DOMAIN Over = Fields
      /\ NotStarted.at = "waiting" /\ Over.at = "done"
  BY DEF NotStarted, Over, Fields
<1>2. /\ DOMAIN NewDetector = {"calls", "outcomes", "totals"}
      /\ NewDetector.totals = [c \in Calls |-> 0]
  BY DEF NewDetector
<1>3. PICK crowd \in Crowds :
         /\ turn = [t \in Turns |-> IF t \in crowd THEN NotStarted ELSE Over]
         /\ told = Turns \ crowd
  BY DEF Init
<1>4. Shaped
  BY <1>1, <1>2, <1>3 DEF Init, Shaped
<1>5. ASSUME NEW t \in Turns PROVE Good(t)
  <2>1. turn[t].at \in {"waiting", "done"} /\ (turn[t].at = "done" => t \in told)
    BY <1>1, <1>3
  <2>2. Counted(t)
    BY <1>2 DEF Init, Counted
  <2>3. Below(t)
    BY <2>1, DetectorAssumption DEF Init, Below, InBatch
  <2>4. Informed(t)
    BY <2>1 DEF Informed, InBatch, Heard
  <2> QED
    BY <2>2, <2>3, <2>4 DEF Good
<1> QED
  BY <1>4, <1>5 DEF IInv

(* A step of one turn leaves the others as they are.                       *)
LEMMA OthersStay ==
    ASSUME IInv, NEW t \in Turns, Shaped', Good(t)',
           \A u \in Turns \ {t} : /\ turn'[u] = turn[u] /\ detector'[u] = detector[u]
                                  /\ executed'[u] = executed[u],
           told \subseteq told', excused \subseteq excused'
    PROVE  IInv'
<1>1. ASSUME NEW u \in Turns \ {t} PROVE Good(u)'
  BY <1>1 DEF IInv, Good, Counted, Below, Informed, InBatch, Heard
<1> QED
  BY <1>1 DEF IInv

(* A step that leaves the counts alone, outside of batches.                *)
LEMMA OutsideBatches ==
    ASSUME IInv, NEW t \in Turns, NEW r, DOMAIN r = Fields,
           turn' = [turn EXCEPT ![t] = r], UNCHANGED <<detector, executed>>,
           ~InBatch(t), r.at \notin {"tools", "executing"}, r.at = "done" => Heard(t)',
           told \subseteq told', excused \subseteq excused'
    PROVE  IInv'
<1>1. turn'[t] = r /\ Shaped'
  BY DEF IInv, Shaped
<1>2. Good(t)'
  BY <1>1 DEF IInv, Good, Counted, Below, Informed, InBatch
<1> QED
  BY <1>1, <1>2, OthersStay DEF IInv, Shaped

(* The end of a turn forgets its counts; its user has heard.               *)
LEMMA EndKeeps ==
    ASSUME IInv, NEW t \in Turns, End(t), Heard(t)',
           told \subseteq told', excused \subseteq excused'
    PROVE  IInv'
<1>1. DOMAIN Over = Fields /\ Over.at = "done"
  BY DEF NotStarted, Over, Fields
<1>2. /\ DOMAIN NewDetector = {"calls", "outcomes", "totals"}
      /\ NewDetector.totals = [c \in Calls |-> 0]
  BY DEF NewDetector
<1>3. /\ turn'[t] = Over /\ detector'[t] = NewDetector
      /\ executed'[t] = [c \in Calls |-> 0] /\ Shaped'
      /\ \A u \in Turns \ {t} : /\ turn'[u] = turn[u] /\ detector'[u] = detector[u]
                                /\ executed'[u] = executed[u]
  BY <1>1, <1>2 DEF End, IInv, Shaped
<1>4. Good(t)'
  <2>1. Counted(t)'
    BY <1>2, <1>3 DEF Counted
  <2>2. Below(t)'
    BY <1>1, <1>3, DetectorAssumption DEF Below, InBatch
  <2>3. Informed(t)'
    BY <1>1, <1>3 DEF Informed, InBatch
  <2> QED
    BY <2>1, <2>2, <2>3 DEF Good
<1> QED
  BY <1>3, <1>4, OthersStay
-----------------------------------------------------------------------------
(* Whatever a provider fails with, the turn goes on or its user hears.     *)
LEMMA AfterErrorKeeps ==
    ASSUME IInv, NEW t \in Turns, ~InBatch(t), NEW words, AfterError(t, words),
           UNCHANGED excused
    PROVE  IInv'
<1>1. CASE Fail(t)
  BY <1>1, EndKeeps DEF Fail, Heard
<1>2. ASSUME NEW tools, RetryWith(t, tools), UNCHANGED <<detector, executed, told>>
      PROVE  IInv'
  <2> DEFINE r == [turn[t] EXCEPT !.at = "cooldown", !.retry = turn[t].retry + 1,
                                  !.tools = tools,
                                  !.faults = IF turn[t].at = "skipped" THEN turn[t].faults
                                             ELSE turn[t].faults + 1]
  <2>1. turn' = [turn EXCEPT ![t] = r]
    BY <1>2 DEF RetryWith, IInv, Shaped
  <2>2. DOMAIN r = Fields /\ r.at = "cooldown"
    BY DEF IInv, Shaped, Fields
  <2> HIDE DEF r
  <2> QED
    BY <1>2, <2>1, <2>2, OutsideBatches
<1> QED
  BY <1>1, <1>2 DEF AfterError, localVars

(* The requests of a turn.                                                 *)
LEMMA RequestsKeep ==
    ASSUME IInv, Cooling, NEW t \in Turns,
           \/ Begin(t) \/ Command(t) \/ CheckCooldown(t) \/ ForgetCooldown(t)
           \/ SkipPrimary(t) \/ ChatFails(t) \/ ChatAnswers(t)
    PROVE  IInv'
<1>0. DOMAIN turn = Turns /\ DOMAIN turn[t] = Fields
  BY DEF IInv, Shaped
<1>1. CASE Begin(t)
  <2>1. turn' = [turn EXCEPT ![t] = Iteration(turn[t], 1)]
    BY <1>0, <1>1 DEF Begin
  <2>2. DOMAIN Iteration(turn[t], 1) = Fields /\ Iteration(turn[t], 1).at = "cooldown"
    BY <1>0 DEF Iteration, Fields
  <2> QED
    BY <1>1, <2>1, <2>2, OutsideBatches DEF Begin, InBatch, userVars
<1>2. CASE Command(t)
  <2>1. turn' = [turn EXCEPT ![t] = [turn[t] EXCEPT !.at = "done"]]
    BY <1>0, <1>2 DEF Command
  <2>2. /\ DOMAIN [turn[t] EXCEPT !.at = "done"] = Fields
        /\ [turn[t] EXCEPT !.at = "done"].at = "done"
    BY <1>0 DEF Fields
  <2> QED
    BY <1>2, <2>1, <2>2, OutsideBatches DEF Command, InBatch, Heard, localVars
<1>3. CASE CheckCooldown(t) \/ ForgetCooldown(t)
  <2>1. PICK at \in {"skipped", "forget", "primary"} : turn' = [turn EXCEPT ![t].at = at]
    <3>1. /\ turn[t].model \in Models
          /\ cooldown \in [Models -> {"none", "forever", "resting", "over"}]
      BY DEF Cooling
    <3>2. cooldown[turn[t].model] \in {"none", "forever", "resting", "over"}
      BY <3>1
    <3> QED
      BY <1>3, <3>2 DEF CheckCooldown, ForgetCooldown
  <2>2. turn' = [turn EXCEPT ![t] = [turn[t] EXCEPT !.at = at]]
    BY <1>0, <2>1
  <2>3. /\ DOMAIN [turn[t] EXCEPT !.at = at] = Fields
        /\ [turn[t] EXCEPT !.at = at].at = at
    BY <1>0 DEF Fields
  <2> QED
    BY <1>3, <2>1, <2>2, <2>3, OutsideBatches
    DEF CheckCooldown, ForgetCooldown, InBatch, localVars, userVars
<1>4. CASE SkipPrimary(t)
  <2>1. CASE HasFallback(t)
    <3>1. turn' = [turn EXCEPT ![t] = [turn[t] EXCEPT !.at = "fallback"]]
      BY <1>0, <1>4, <2>1 DEF SkipPrimary
    <3>2. /\ DOMAIN [turn[t] EXCEPT !.at = "fallback"] = Fields
          /\ [turn[t] EXCEPT !.at = "fallback"].at = "fallback"
      BY <1>0 DEF Fields
    <3> QED
      BY <1>4, <2>1, <3>1, <3>2, OutsideBatches DEF SkipPrimary, InBatch, localVars
  <2>2. CASE ~HasFallback(t)
    BY <1>4, <2>2, AfterErrorKeeps DEF SkipPrimary, InBatch
  <2> QED
    BY <2>1, <2>2
<1>5. CASE ChatFails(t)
  <2>1. PICK words : IF turn[t].at = "primary" /\ CouncilHelps(t, words)
                     THEN RecoverWithCouncil(t, words) ELSE AfterError(t, words)
    BY <1>5 DEF ChatFails
  <2>2. CASE RecoverWithCouncil(t, words)
    <3> DEFINE r == [turn[t] EXCEPT !.at = "fallback", !.faults = turn[t].faults + 1]
    <3>1. turn' = [turn EXCEPT ![t] = r]
      BY <1>0, <2>2 DEF RecoverWithCouncil
    <3>2. DOMAIN r = Fields /\ r.at = "fallback"
      BY <1>0 DEF Fields
    <3> HIDE DEF r
    <3> QED
      BY <1>5, <2>2, <3>1, <3>2, OutsideBatches
      DEF RecoverWithCouncil, ChatFails, InBatch, localVars
  <2>3. CASE AfterError(t, words)
    BY <1>5, <2>3, AfterErrorKeeps DEF ChatFails, InBatch
  <2> QED
    BY <2>1, <2>2, <2>3
<1>6. CASE ChatAnswers(t)
  <2>1. End(t) /\ told' = told \cup {t}
    BY <1>6 DEF ChatAnswers, Finish, Answer
  <2> QED
    BY <1>6, <2>1, EndKeeps DEF Heard, ChatAnswers
<1> QED
  BY <1>1, <1>2, <1>3, <1>4, <1>5, <1>6

(* A batch is taken up when every total is below the breaker.              *)
LEMMA CallsKeep ==
    ASSUME IInv, NEW t \in Turns, ChatCallsTools(t)
    PROVE  IInv'
<1>1. PICK batch \in Batches[t] :
         turn' = [turn EXCEPT ![t].at = "tools", ![t].left = batch,
                          ![t].onlyTerminal = \A i \in DOMAIN batch : IsTerminalToolCall(batch[i]),
                          ![t].bootstrap = FALSE]
  BY DEF ChatCallsTools
<1> DEFINE r == [turn[t] EXCEPT !.at = "tools", !.left = batch,
                     !.onlyTerminal = \A i \in DOMAIN batch : IsTerminalToolCall(batch[i]),
                     !.bootstrap = FALSE]
<1>2. batch \in Seq(Calls) /\ Len(batch) \in 1..MaxBatch /\ MaxBatch \in Nat
  BY TurnAssumption
<1>3. DOMAIN turn = Turns /\ DOMAIN turn[t] = Fields
  BY DEF IInv, Shaped
<1>4. /\ turn' = [turn EXCEPT ![t] = r]
      /\ DOMAIN r = Fields /\ r.at = "tools" /\ r.left = batch
      /\ r.onlyTerminal = (\A i \in DOMAIN batch : IsTerminalToolCall(batch[i]))
  BY <1>1, <1>3 DEF Fields
<1> HIDE DEF r
<1>5. UNCHANGED <<detector, executed, told, excused>> /\ ~InBatch(t)
  BY DEF ChatCallsTools, InBatch, userVars
<1>6. turn'[t] = r /\ Shaped'
  BY <1>3, <1>4, <1>5 DEF IInv, Shaped
<1>7. Counted(t)'
  BY <1>5 DEF IInv, Good, Counted
<1>8. Below(t)'
  <2>1. \A c \in Calls : executed[t][c] \in Nat /\ executed[t][c] < CircuitBreaker
    BY <1>5 DEF IInv, Good, Below, Counted
  <2>2. Len(batch) \in Nat /\ Len(batch) <= MaxBatch /\ CircuitBreaker \in Nat
    BY <1>2, DetectorAssumption
  <2>3. \A c \in Calls : executed[t][c] + Len(batch) < CircuitBreaker + MaxBatch
    BY <1>2, <2>1, <2>2
  <2> QED
    BY <1>4, <1>5, <1>6, <2>3 DEF Below, InBatch
<1>9. Informed(t)'
  <2>1. batch # << >>
    BY <1>2
  <2> QED
    BY <1>2, <1>4, <1>6, <2>1 DEF Informed, InBatch, IsTerminalToolCall
<1> QED
  BY <1>3, <1>4, <1>5, <1>6, <1>7, <1>8, <1>9, OthersStay DEF Good

(* What is below a sum is, with at most one more, at most that sum.        *)
LEMMA AtMostOneMore ==
    ASSUME NEW n \in Nat, NEW l \in Nat, NEW a \in Nat, NEW b \in Nat, n + l < a + b,
           NEW m, m = n \/ m = n + 1
    PROVE  m + l <= a + b
<1> QED
  OBVIOUS

(* What is counted before the call is executed is what has been executed.  *)
LEMMA ExecuteKeeps ==
    ASSUME IInv, NEW t \in Turns, ExecuteTool(t)
    PROVE  IInv'
<1> DEFINE c == Head(turn[t].left)
<1>0. /\ DOMAIN turn = Turns /\ DOMAIN turn[t] = Fields /\ DOMAIN detector = Turns
      /\ DOMAIN executed = Turns /\ DOMAIN detector[t] = {"calls", "outcomes", "totals"}
      /\ turn[t].at = "tools" /\ turn[t].left # << >>
  BY DEF IInv, Shaped, ExecuteTool
<1>1. /\ InBatch(t) /\ turn[t].left \in Seq(Calls) /\ c \in Calls /\ Len(turn[t].left) \in Nat
  BY <1>0 DEF IInv, Good, Informed, InBatch
<1>2. /\ turn' = [turn EXCEPT ![t] = [turn[t] EXCEPT !.at = "executing"]]
      /\ DOMAIN [turn[t] EXCEPT !.at = "executing"] = Fields
      /\ UNCHANGED <<told, excused>>
  BY <1>0 DEF ExecuteTool, Fields, userVars
<1>3. /\ turn'[t].at = "executing" /\ turn'[t].left = turn[t].left
      /\ turn'[t].onlyTerminal = turn[t].onlyTerminal
      /\ turn'[t].bootstrap = turn[t].bootstrap
  BY <1>0, <1>2 DEF Fields
<1>4. executed' = [executed EXCEPT ![t] = [executed[t] EXCEPT ![c] = @ + 1]]
  BY <1>0 DEF ExecuteTool
<1>5. detector' = [detector EXCEPT ![t] = Record(detector[t], c)]
  BY <1>0 DEF ExecuteTool
<1>6. /\ Record(detector[t], c).totals = [detector[t].totals EXCEPT ![c] = @ + 1]
      /\ DOMAIN Record(detector[t], c) = {"calls", "outcomes", "totals"}
  BY <1>0 DEF Record
<1>7. Shaped'
  BY <1>0, <1>2, <1>4, <1>5, <1>6 DEF IInv, Shaped
<1>8. Counted(t)'
  <2>1. executed[t] = detector[t].totals /\ executed[t] \in [Calls -> Nat]
    BY DEF IInv, Good, Counted
  <2>2. executed'[t] = [executed[t] EXCEPT ![c] = @ + 1]
        /\ detector'[t].totals = [detector[t].totals EXCEPT ![c] = @ + 1]
    BY <1>0, <1>4, <1>5, <1>6
  <2>3. executed'[t] \in [Calls -> Nat]
    BY <2>1, <2>2, <1>1
  <2> QED
    BY <2>1, <2>2, <2>3 DEF Counted
<1>9. Below(t)'
  <2>1. \A d \in Calls : /\ executed[t][d] \in Nat
                         /\ executed[t][d] + Len(turn[t].left) < CircuitBreaker + MaxBatch
    BY <1>0 DEF IInv, Good, Below, Counted
  <2>2. \A d \in Calls : executed'[t][d] \in {executed[t][d], executed[t][d] + 1}
    BY <1>0, <1>1, <1>4 DEF IInv, Good, Counted
  <2>3. \A d \in Calls : executed'[t][d] + Len(turn[t].left) <= CircuitBreaker + MaxBatch
    <3>1. Len(turn[t].left) \in Nat /\ CircuitBreaker \in Nat /\ MaxBatch \in Nat
      BY <1>1, DetectorAssumption, TurnAssumption
    <3>2. ASSUME NEW d \in Calls
          PROVE  executed'[t][d] + Len(turn[t].left) <= CircuitBreaker + MaxBatch
      <4>1. /\ executed[t][d] \in Nat
            /\ executed[t][d] + Len(turn[t].left) < CircuitBreaker + MaxBatch
            /\ executed'[t][d] = executed[t][d] \/ executed'[t][d] = executed[t][d] + 1
        BY <2>1, <2>2
      <4> QED
        BY <3>1, <4>1, AtMostOneMore
    <3> QED
      BY <3>2
  <2> QED
    BY <1>0, <1>3, <2>3 DEF Below, InBatch
<1>10. Informed(t)'
  BY <1>1, <1>2, <1>3 DEF IInv, Good, Informed, InBatch, Heard
<1> QED
  BY <1>0, <1>2, <1>4, <1>5, <1>7, <1>8, <1>9, <1>10, OthersStay DEF Good

(* A terminal call that has returned has told the user, or is excused.     *)
LEMMA ReturnKeeps ==
    ASSUME IInv, NEW t \in Turns, ToolReturns(t)
    PROVE  IInv'
<1> DEFINE c == Head(turn[t].left)
<1>0. /\ DOMAIN turn = Turns /\ DOMAIN turn[t] = Fields /\ DOMAIN detector = Turns
      /\ DOMAIN executed = Turns /\ DOMAIN detector[t] = {"calls", "outcomes", "totals"}
      /\ turn[t].at = "executing"
  BY DEF IInv, Shaped, ToolReturns
<1>1. /\ InBatch(t) /\ turn[t].left \in Seq(Calls) /\ turn[t].left # << >>
      /\ c \in Calls /\ Tail(turn[t].left) \in Seq(Calls)
      /\ Len(turn[t].left) \in Nat /\ Len(Tail(turn[t].left)) = Len(turn[t].left) - 1
  BY <1>0 DEF IInv, Good, Informed, Below, InBatch
<1> DEFINE r == [turn[t] EXCEPT !.at = "tools", !.left = Tail(turn[t].left),
                     !.bootstrap = turn[t].bootstrap \/ c = "complete_bootstrap"]
<1>2. turn' = [turn EXCEPT ![t] = r]
  BY <1>0 DEF ToolReturns
<1>3. /\ DOMAIN r = Fields /\ r.at = "tools" /\ r.left = Tail(turn[t].left)
      /\ r.onlyTerminal = turn[t].onlyTerminal
      /\ r.bootstrap = (turn[t].bootstrap \/ c = "complete_bootstrap")
  BY <1>0 DEF Fields
<1> HIDE DEF r
<1>4. PICK result \in Results :
         detector' = [detector EXCEPT ![t] = RecordOutcome(detector[t], c, result)]
  BY <1>0 DEF ToolReturns
<1>5. /\ RecordOutcome(detector[t], c, result).totals = detector[t].totals
      /\ DOMAIN RecordOutcome(detector[t], c, result) = {"calls", "outcomes", "totals"}
  BY <1>0 DEF RecordOutcome
<1>6. executed' = executed /\ Tells(t, c)
  BY DEF ToolReturns
<1>7. /\ told \subseteq told' /\ excused \subseteq excused'
      /\ c = "message" => t \in told' \cup excused'
  BY <1>6 DEF Tells, userVars
<1>8. Shaped' /\ turn'[t] = r
  BY <1>0, <1>2, <1>3, <1>4, <1>5, <1>6 DEF IInv, Shaped
<1>9. Counted(t)'
  BY <1>0, <1>4, <1>5, <1>6 DEF IInv, Good, Counted
<1>10. Below(t)'
  <2>1. \A d \in Calls : /\ executed[t][d] \in Nat
                         /\ executed[t][d] + Len(turn[t].left) <= CircuitBreaker + MaxBatch
    BY <1>0 DEF IInv, Good, Below, Counted
  <2>2. \A d \in Calls :
           executed[t][d] + Len(Tail(turn[t].left)) < CircuitBreaker + MaxBatch
    <3>1. /\ Len(turn[t].left) \in Nat /\ CircuitBreaker \in Nat /\ MaxBatch \in Nat
          /\ Len(Tail(turn[t].left)) = Len(turn[t].left) - 1
      BY <1>1, DetectorAssumption, TurnAssumption
    <3> QED
      BY <2>1, <3>1
  <2> QED
    BY <1>3, <1>6, <1>8, <2>2 DEF Below, InBatch
<1>11. Informed(t)'
  <2>1. ASSUME turn[t].onlyTerminal, NEW i \in DOMAIN Tail(turn[t].left)
        PROVE  Tail(turn[t].left)[i] \in TerminalTools
    <3>1. i + 1 \in DOMAIN turn[t].left /\ Tail(turn[t].left)[i] = turn[t].left[i + 1]
      BY <1>1, <2>1
    <3> QED
      BY <1>1, <2>1, <3>1 DEF IInv, Good, Informed
  <2>2. ASSUME turn[t].onlyTerminal PROVE r.bootstrap \/ Heard(t)'
    <3>1. c = turn[t].left[1] /\ 1 \in DOMAIN turn[t].left
      BY <1>1
    <3>2. c \in TerminalTools
      BY <1>1, <2>2, <3>1 DEF IInv, Good, Informed
    <3> QED
      BY <1>3, <1>7, <3>2 DEF TerminalTools, Heard
  <2> QED
    BY <1>1, <1>3, <1>8, <2>1, <2>2 DEF Informed, InBatch
<1> QED
  BY <1>0, <1>2, <1>4, <1>6, <1>7, <1>8, <1>9, <1>10, <1>11, OthersStay DEF Good

(* Unless the turn is over, the detector has found its totals below the    *)
(* breaker, and if it is over the user has heard of it.                    *)
LEMMA BatchEndKeeps ==
    ASSUME IInv, NEW t \in Turns, BatchEnds(t)
    PROVE  IInv'
<1>0. /\ DOMAIN turn = Turns /\ DOMAIN turn[t] = Fields /\ InBatch(t)
      /\ turn[t].at = "tools" /\ turn[t].left = << >> /\ excused' = excused
  BY DEF IInv, Shaped, BatchEnds, InBatch
<1>1. CASE turn[t].onlyTerminal
  <2>1. End(t) /\ told' = IF turn[t].bootstrap THEN told \cup {t} ELSE told
    BY <1>1 DEF BatchEnds, Finish, Answer
  <2>2. turn[t].bootstrap \/ Heard(t)
    BY <1>0, <1>1 DEF IInv, Good, Informed
  <2> QED
    BY <1>0, <2>1, <2>2, EndKeeps DEF Heard
<1>2. CASE ~turn[t].onlyTerminal /\ (Check(detector[t]) = LoopCritical
                                     \/ turn[t].iteration = MaxIterations)
  <2>1. End(t) /\ told' = told \cup {t}
    BY <1>2 DEF BatchEnds, Finish, Answer
  <2> QED
    BY <1>0, <2>1, EndKeeps DEF Heard
<1>3. CASE ~turn[t].onlyTerminal /\ Check(detector[t]) # LoopCritical
           /\ GoOn(t, Check(detector[t]))
  <2>1. \A c \in Calls : executed[t][c] < CircuitBreaker
    <3>1. CheckCircuitBreaker(detector[t]) = LoopNone
      BY <1>3 DEF Check, CheckCircuitBreaker
    <3>2. \A c \in Calls : ~(detector[t].totals[c] >= CircuitBreaker)
      BY <3>1 DEF CheckCircuitBreaker, LoopNone, LoopCritical
    <3> QED
      BY <3>2, DetectorAssumption DEF IInv, Good, Counted
  <2> DEFINE r == Iteration(turn[t], turn[t].iteration + 1)
  <2>2. turn' = [turn EXCEPT ![t] = r] /\ UNCHANGED <<detector, executed, told>>
    BY <1>0, <1>3 DEF GoOn
  <2>3. DOMAIN r = Fields /\ r.at = "cooldown"
    BY <1>0 DEF Iteration, Fields
  <2> HIDE DEF r
  <2>4. Shaped' /\ turn'[t] = r
    BY <1>0, <2>2, <2>3 DEF IInv, Shaped
  <2>5. Good(t)'
    BY <2>1, <2>2, <2>3, <2>4 DEF IInv, Good, Counted, Below, Informed, InBatch
  <2> QED
    BY <1>0, <2>2, <2>4, <2>5, OthersStay
<1> QED
  BY <1>1, <1>2, <1>3 DEF BatchEnds
-----------------------------------------------------------------------------
(* Every step keeps the invariant; a subagent's only adds to the told.     *)
LEMMA StepKeeps ==
    ASSUME IInv, Cooling, [Next]_vars
    PROVE  IInv'
<1>1. ASSUME NEW t \in Turns, TurnStep(t) PROVE IInv'
  BY <1>1, RequestsKeep, CallsKeep, ExecuteKeeps, ReturnKeeps, BatchEndKeeps DEF TurnStep
<1>2. ASSUME UNCHANGED <<turn, localVars, excused>>, told \subseteq told' PROVE IInv'
  BY <1>2 DEF IInv, Shaped, Good, Counted, Below, Informed, InBatch, Heard, localVars
<1>3. ASSUME NEW t \in Turns, SubagentStep(t) PROVE IInv'
  BY <1>2, <1>3 DEF SubagentStep, SubagentAsks, SubagentUsesTools, localVars, userVars
<1>4. ASSUME NEW m \in Models, CooldownExpires(m) PROVE IInv'
  BY <1>2, <1>4 DEF CooldownExpires, userVars
<1>5. CASE UNCHANGED vars
  BY <1>2, <1>5 DEF vars, userVars
<1> QED
  BY <1>1, <1>3, <1>4, <1>5 DEF Next
-----------------------------------------------------------------------------
(* In every reachable state both invariants hold.                          *)
LEMMA Invariant == Spec => [](IInv /\ Cooling)
<1> QED
  BY Initially, StepKeeps, CoolingInitially, CoolingKeeps, PTL DEF Spec

(* Whatever slides out of its window and whatever it reports before, the   *)
(* detector's totals stop a turn: no call is executed more often than the  *)
(* breaker and the length of a batch allow.                                *)
THEOREM StuckTurnsAreStopped == Spec => []StuckTurnIsStopped
<1>1. IInv => StuckTurnIsStopped
  <2> SUFFICES ASSUME IInv, NEW t \in Turns, NEW c \in Calls
               PROVE  executed[t][c] < CircuitBreaker + MaxBatch
    BY DEF StuckTurnIsStopped
  <2>1. /\ executed[t][c] \in Nat /\ CircuitBreaker \in Nat /\ MaxBatch \in Nat
        /\ Below(t) /\ (InBatch(t) => turn[t].left \in Seq(Calls))
    BY DetectorAssumption, TurnAssumption DEF IInv, Good, Counted, Informed
  <2>2. CASE ~InBatch(t)
    BY <2>1, <2>2 DEF Below
  <2>3. CASE turn[t].at = "tools"
    <3>1. /\ Len(turn[t].left) \in Nat
          /\ executed[t][c] + Len(turn[t].left) < CircuitBreaker + MaxBatch
      BY <2>1, <2>3 DEF Below, InBatch
    <3> QED
      BY <2>1, <3>1
  <2>4. CASE turn[t].at = "executing"
    <3>1. /\ Len(turn[t].left) \in Nat \ {0}
          /\ executed[t][c] + Len(turn[t].left) <= CircuitBreaker + MaxBatch
      BY <2>1, <2>4 DEF Below, InBatch
    <3> QED
      BY <2>1, <3>1
  <2> QED
    BY <2>2, <2>3, <2>4 DEF InBatch
<1> QED
  BY <1>1, Invariant, PTL

(* A turn that is over has told its user: with an answer, with an error,   *)
(* or by its message tool, unless that sent elsewhere or failed.           *)
THEOREM UsersAreAnswered == Spec => []EveryTurnIsAnswered
<1>1. IInv => EveryTurnIsAnswered
  BY DEF IInv, Good, Informed, Heard, EveryTurnIsAnswered
<1> QED
  BY <1>1, Invariant, PTL
-----------------------------------------------------------------------------
(* Types.  A turn is tried again, and begins another iteration, only below *)
(* its limits; a subagent that goes on has iterations left.                *)
TurnRecord ==
    [at : {"waiting", "cooldown", "forget", "primary", "skipped", "fallback",
           "tools", "executing", "done"},
     iteration : 0..MaxIterations, retry : 0..MaxRetries, tools : BOOLEAN,
     model : Models, left : Seq(Calls), onlyTerminal : BOOLEAN, bootstrap : BOOLEAN,
     faults : Nat]

SubagentRecord ==
    [at : {"none", "asking", "tools", "ended"},
     iteration : 0..MaxSubagentIterations, cancelled : BOOLEAN]

TypeInv ==
    /\ TypeOK
    /\ \A t \in Turns : subagent[t].at \in {"none", "asking", "tools"} =>
                           subagent[t].iteration < MaxSubagentIterations

(* The records in TypeOK.                                                  *)
LEMMA TypeOKRecords ==
    TypeOK <=> /\ council \in Councils /\ model \in Models
               /\ cooldown \in [Models -> {"none", "forever", "resting", "over"}]
               /\ turn \in [Turns -> TurnRecord]
               /\ executed \in [Turns -> [Calls -> Nat]]
               /\ told \subseteq Turns /\ excused \subseteq Turns
               /\ subagent \in [Turns -> SubagentRecord]
BY DEF TypeOK, TurnRecord, SubagentRecord

(* The records of a turn that has not begun, and of one that is over.      *)
LEMMA FirstRecords ==
    /\ NotStarted \in TurnRecord /\ Over \in TurnRecord
    /\ NoSubagent \in SubagentRecord /\ NoSubagent.iteration < MaxSubagentIterations
<1>1. /\ 0 \in 0..MaxIterations /\ 0 \in 0..MaxRetries /\ 0 \in 0..MaxSubagentIterations
      /\ 0 < MaxSubagentIterations
  BY TurnAssumption
<1>2. NotStarted \in TurnRecord
  BY <1>1 DEF NotStarted, TurnRecord, Models
<1>3. Over \in TurnRecord
  BY <1>2 DEF Over, TurnRecord
<1> QED
  BY <1>1, <1>2, <1>3 DEF NoSubagent, SubagentRecord

(* The types at first.                                                     *)
LEMMA TypesInitially == Init => TypeInv
<1> SUFFICES ASSUME Init PROVE TypeInv
  OBVIOUS
<1>1. turn \in [Turns -> TurnRecord] /\ told \subseteq Turns
  BY FirstRecords DEF Init
<1>2. subagent \in [Turns -> SubagentRecord]
      /\ \A t \in Turns : subagent[t].iteration < MaxSubagentIterations
  BY FirstRecords DEF Init
<1>3. /\ council \in Councils /\ model \in Models /\ excused \subseteq Turns
      /\ cooldown \in [Models -> {"none", "forever", "resting", "over"}]
      /\ executed \in [Turns -> [Calls -> Nat]]
  BY DEF Init, Models
<1> QED
  BY <1>1, <1>2, <1>3, TypeOKRecords DEF TypeInv

(* What a turn's step does to its record, when it goes on.                 *)
LEMMA RecordsChange ==
    ASSUME NEW r \in TurnRecord
    PROVE  /\ \A at \in {"done", "skipped", "forget", "primary", "fallback", "cooldown",
                         "executing"} : [r EXCEPT !.at = at] \in TurnRecord
           /\ [r EXCEPT !.at = "fallback", !.faults = r.faults + 1] \in TurnRecord
           /\ model \in Models =>
                 \A n \in 0..MaxIterations : Iteration(r, n) \in TurnRecord
           /\ r.retry < MaxRetries =>
                 \A tools \in BOOLEAN, n \in Nat :
                    [r EXCEPT !.at = "cooldown", !.retry = r.retry + 1, !.tools = tools,
                              !.faults = n] \in TurnRecord
           /\ \A batch \in Seq(Calls), b \in BOOLEAN :
                 [r EXCEPT !.at = "tools", !.left = batch, !.onlyTerminal = b,
                           !.bootstrap = FALSE] \in TurnRecord
           /\ \A s \in Seq(Calls), b \in BOOLEAN :
                 [r EXCEPT !.at = "tools", !.left = s, !.bootstrap = b] \in TurnRecord
<1>1. /\ r.retry \in 0..MaxRetries /\ MaxRetries \in Nat /\ r.faults \in Nat
      /\ 0 \in 0..MaxRetries
  BY TurnAssumption DEF TurnRecord
<1>2. \A at \in {"done", "skipped", "forget", "primary", "fallback", "cooldown",
                 "executing"} : [r EXCEPT !.at = at] \in TurnRecord
  BY DEF TurnRecord
<1>3. [r EXCEPT !.at = "fallback", !.faults = r.faults + 1] \in TurnRecord
  <2>1. r.faults + 1 \in Nat
    BY <1>1
  <2> QED
    BY <2>1 DEF TurnRecord
<1>4. ASSUME model \in Models, NEW n \in 0..MaxIterations PROVE Iteration(r, n) \in TurnRecord
  BY <1>1, <1>4 DEF TurnRecord, Iteration
<1>5. ASSUME r.retry < MaxRetries, NEW tools \in BOOLEAN, NEW n \in Nat
      PROVE  [r EXCEPT !.at = "cooldown", !.retry = r.retry + 1, !.tools = tools,
                       !.faults = n] \in TurnRecord
  <2>1. r.retry + 1 \in 0..MaxRetries
    BY <1>1, <1>5
  <2> QED
    BY <2>1 DEF TurnRecord
<1>6. ASSUME NEW batch \in Seq(Calls), NEW b \in BOOLEAN
      PROVE  [r EXCEPT !.at = "tools", !.left = batch, !.onlyTerminal = b,
                       !.bootstrap = FALSE] \in TurnRecord
  BY DEF TurnRecord
<1>7. ASSUME NEW s \in Seq(Calls), NEW b \in BOOLEAN
      PROVE  [r EXCEPT !.at = "tools", !.left = s, !.bootstrap = b] \in TurnRecord
  BY DEF TurnRecord
<1> QED
  BY <1>2, <1>3, <1>4, <1>5, <1>6, <1>7

(* What a step of a turn may change of the types.                          *)
LEMMA OneTurnChanges ==
    ASSUME TypeInv, NEW t \in Turns, NEW r \in TurnRecord, turn' = [turn EXCEPT ![t] = r],
           model' \in Models, cooldown' \in [Models -> {"none", "forever", "resting", "over"}],
           executed' \in [Turns -> [Calls -> Nat]], told' \subseteq Turns, excused' \subseteq Turns,
           council' = council, subagent' = subagent
    PROVE  TypeInv'
<1>1. turn' \in [Turns -> TurnRecord]
  BY TypeOKRecords DEF TypeInv
<1>2. TypeOK'
  BY <1>1, TypeOKRecords DEF TypeInv, TypeOK, TurnRecord
<1> QED
  BY <1>2 DEF TypeInv

(* The requests of a turn keep the types.                                  *)
LEMMA RequestTypes ==
    ASSUME TypeInv, NEW t \in Turns,
           \/ Begin(t) \/ Command(t) \/ CheckCooldown(t) \/ ForgetCooldown(t)
           \/ SkipPrimary(t) \/ ChatFails(t) \/ ChatAnswers(t) \/ ChatCallsTools(t)
    PROVE  TypeInv'
<1>0. /\ model \in Models /\ cooldown \in [Models -> {"none", "forever", "resting", "over"}]
      /\ turn \in [Turns -> TurnRecord] /\ turn[t] \in TurnRecord
      /\ executed \in [Turns -> [Calls -> Nat]] /\ told \subseteq Turns /\ excused \subseteq Turns
  BY TypeOKRecords DEF TypeInv
<1>1. ASSUME NEW at \in {"done", "skipped", "forget", "primary", "fallback", "cooldown",
                         "executing"},
             turn' = [turn EXCEPT ![t].at = at],
             model' \in Models, cooldown' \in [Models -> {"none", "forever", "resting", "over"}],
             executed' = executed, told' \subseteq Turns, UNCHANGED <<council, excused, subagent>>
      PROVE  TypeInv'
  <2>1. turn' = [turn EXCEPT ![t] = [turn[t] EXCEPT !.at = at]]
    BY <1>0, <1>1
  <2>2. [turn[t] EXCEPT !.at = at] \in TurnRecord
    BY <1>0, <1>1, RecordsChange
  <2> QED
    BY <1>0, <1>1, <2>1, <2>2, OneTurnChanges
<1>2. ASSUME End(t), told' \subseteq Turns,
             UNCHANGED <<council, model, cooldown, excused, subagent>>
      PROVE  TypeInv'
  <2>1. executed' \in [Turns -> [Calls -> Nat]]
    BY <1>0, <1>2 DEF End
  <2> QED
    BY <1>0, <1>2, <2>1, FirstRecords, OneTurnChanges DEF End
<1>3. ASSUME NEW words, AfterError(t, words), UNCHANGED <<council, model, excused, subagent>>
      PROVE  TypeInv'
  <2>1. CASE Fail(t)
    BY <1>0, <1>2, <1>3, <2>1 DEF Fail, AfterError
  <2>2. ASSUME NEW tools \in BOOLEAN, RetryWith(t, tools), turn[t].retry < MaxRetries,
               UNCHANGED <<executed, told>>
        PROVE  TypeInv'
    <3>1. PICK n \in Nat : n = IF turn[t].at = "skipped" THEN turn[t].faults
                                                         ELSE turn[t].faults + 1
      BY <1>0 DEF TurnRecord
    <3>2. turn' = [turn EXCEPT ![t] = [turn[t] EXCEPT !.at = "cooldown",
                     !.retry = turn[t].retry + 1, !.tools = tools, !.faults = n]]
      BY <1>0, <2>2, <3>1 DEF RetryWith
    <3>3. [turn[t] EXCEPT !.at = "cooldown", !.retry = turn[t].retry + 1, !.tools = tools,
                          !.faults = n] \in TurnRecord
      BY <1>0, <2>2, RecordsChange
    <3> QED
      BY <1>0, <1>3, <2>2, <3>2, <3>3, OneTurnChanges DEF AfterError
  <2>3. turn[t].tools \in BOOLEAN
    BY <1>0 DEF TurnRecord
  <2> QED
    BY <1>3, <2>1, <2>2, <2>3 DEF AfterError, localVars
<1>4. CASE Begin(t)
  <2>1. turn' = [turn EXCEPT ![t] = Iteration(turn[t], 1)] /\ 1 \in 0..MaxIterations
    BY <1>0, <1>4, TurnAssumption DEF Begin
  <2>2. Iteration(turn[t], 1) \in TurnRecord
    BY <1>0, <2>1, RecordsChange
  <2> QED
    BY <1>0, <1>4, <2>1, <2>2, OneTurnChanges DEF Begin, userVars
<1>5. CASE Command(t)
  BY <1>0, <1>1, <1>5 DEF Command, localVars
<1>6. CASE CheckCooldown(t)
  <2>1. PICK at \in {"skipped", "forget", "primary"} : turn' = [turn EXCEPT ![t].at = at]
    <3>1. cooldown[turn[t].model] \in {"none", "forever", "resting", "over"}
      BY <1>0 DEF TurnRecord
    <3> QED
      BY <1>6, <3>1 DEF CheckCooldown
  <2> QED
    BY <1>0, <1>1, <1>6, <2>1 DEF CheckCooldown, localVars, userVars
<1>7. CASE ForgetCooldown(t)
  BY <1>0, <1>1, <1>7 DEF ForgetCooldown, localVars, userVars
<1>8. CASE SkipPrimary(t)
  BY <1>0, <1>1, <1>3, <1>8 DEF SkipPrimary, localVars
<1>9. CASE ChatFails(t)
  <2>1. ASSUME NEW words, RecoverWithCouncil(t, words),
               UNCHANGED <<council, model, excused, subagent>>
        PROVE  TypeInv'
    <3>1. turn' = [turn EXCEPT ![t] = [turn[t] EXCEPT !.at = "fallback",
                                                      !.faults = turn[t].faults + 1]]
      BY <1>0, <2>1 DEF RecoverWithCouncil
    <3>2. [turn[t] EXCEPT !.at = "fallback", !.faults = turn[t].faults + 1] \in TurnRecord
      BY <1>0, RecordsChange
    <3>3. cooldown' \in [Models -> {"none", "forever", "resting", "over"}]
      BY <1>0, <2>1 DEF RecoverWithCouncil
    <3> QED
      BY <1>0, <2>1, <3>1, <3>2, <3>3, OneTurnChanges DEF RecoverWithCouncil, localVars
  <2> QED
    BY <1>3, <1>9, <2>1 DEF ChatFails
<1>10. CASE ChatAnswers(t)
  BY <1>0, <1>2, <1>10 DEF ChatAnswers, Finish
<1>11. CASE ChatCallsTools(t)
  <2>1. PICK batch \in Batches[t] :
           turn' = [turn EXCEPT ![t].at = "tools", ![t].left = batch,
                        ![t].onlyTerminal = \A i \in DOMAIN batch : IsTerminalToolCall(batch[i]),
                        ![t].bootstrap = FALSE]
    BY <1>11 DEF ChatCallsTools
  <2>2. PICK b \in BOOLEAN : b = (\A i \in DOMAIN batch : IsTerminalToolCall(batch[i]))
    OBVIOUS
  <2>3. turn' = [turn EXCEPT ![t] = [turn[t] EXCEPT !.at = "tools", !.left = batch,
                                         !.onlyTerminal = b, !.bootstrap = FALSE]]
    BY <1>0, <2>1, <2>2
  <2>4. batch \in Seq(Calls)
    BY TurnAssumption
  <2>5. [turn[t] EXCEPT !.at = "tools", !.left = batch, !.onlyTerminal = b,
                        !.bootstrap = FALSE] \in TurnRecord
    BY <1>0, <2>4, RecordsChange
  <2> QED
    BY <1>0, <1>11, <2>3, <2>5, OneTurnChanges DEF ChatCallsTools, userVars
<1> QED
  BY <1>4, <1>5, <1>6, <1>7, <1>8, <1>9, <1>10, <1>11

(* So do its tools, the end of a batch, and the subagents.                 *)
LEMMA ToolTypes ==
    ASSUME TypeInv, IInv, NEW t \in Turns,
           \/ ExecuteTool(t) \/ ToolReturns(t) \/ BatchEnds(t) \/ SubagentStep(t)
    PROVE  TypeInv'
<1>0. /\ model \in Models /\ cooldown \in [Models -> {"none", "forever", "resting", "over"}]
      /\ turn \in [Turns -> TurnRecord] /\ turn[t] \in TurnRecord
      /\ executed \in [Turns -> [Calls -> Nat]] /\ told \subseteq Turns /\ excused \subseteq Turns
      /\ subagent \in [Turns -> SubagentRecord] /\ subagent[t] \in SubagentRecord
      /\ council \in Councils /\ turn[t].left \in Seq(Calls)
  BY TypeOKRecords DEF TypeInv, TurnRecord
<1>1. ASSUME turn' \in [Turns -> TurnRecord], executed' \in [Turns -> [Calls -> Nat]],
             told' \subseteq Turns, excused' \subseteq Turns,
             NEW s \in SubagentRecord, subagent' \in {subagent, [subagent EXCEPT ![t] = s]},
             s.at \in {"none", "asking", "tools"} => s.iteration < MaxSubagentIterations,
             UNCHANGED <<council, model, cooldown>>
      PROVE  TypeInv'
  <2>1. subagent' \in [Turns -> SubagentRecord]
        /\ \A u \in Turns : subagent'[u] \in {subagent[u], s}
    BY <1>0, <1>1
  <2>2. TypeOK'
    BY <1>0, <1>1, <2>1 DEF TypeOK, TurnRecord, SubagentRecord
  <2> QED
    BY <1>1, <2>1, <2>2 DEF TypeInv
<1>2. NoSubagent \in SubagentRecord /\ NoSubagent.iteration < MaxSubagentIterations
  BY FirstRecords
<1>3. CASE ExecuteTool(t)
  <2>1. turn[t].left # << >> /\ Head(turn[t].left) \in Calls
    BY <1>0, <1>3 DEF ExecuteTool
  <2>2. turn' \in [Turns -> TurnRecord]
    <3>1. turn' = [turn EXCEPT ![t] = [turn[t] EXCEPT !.at = "executing"]]
      BY <1>0, <1>3 DEF ExecuteTool
    <3>2. [turn[t] EXCEPT !.at = "executing"] \in TurnRecord
      BY <1>0, RecordsChange
    <3> QED
      BY <1>0, <3>1, <3>2
  <2>3. executed' \in [Turns -> [Calls -> Nat]]
    BY <1>0, <1>3, <2>1 DEF ExecuteTool
  <2>4. PICK s \in SubagentRecord :
           /\ s.at \in {"none", "asking", "tools"} => s.iteration < MaxSubagentIterations
           /\ subagent' \in {subagent, [subagent EXCEPT ![t] = s]}
    <3>1. CASE subagent[t].at = "none"
               /\ subagent' = [subagent EXCEPT ![t] = [subagent[t] EXCEPT !.at = "asking"]]
      <4>1. [subagent[t] EXCEPT !.at = "asking"] \in SubagentRecord
            /\ [subagent[t] EXCEPT !.at = "asking"].iteration < MaxSubagentIterations
        BY <1>0, <3>1 DEF SubagentRecord, TypeInv
      <4> QED
        BY <3>1, <4>1
    <3>2. CASE subagent' = subagent
      BY <1>2, <3>2
    <3> QED
      BY <1>3, <3>1, <3>2 DEF ExecuteTool
  <2> QED
    BY <1>0, <1>1, <1>3, <2>2, <2>3, <2>4 DEF ExecuteTool, userVars
<1>4. CASE ToolReturns(t)
  <2>1. turn[t].left # << >> /\ Tail(turn[t].left) \in Seq(Calls)
    <3>1. turn[t].left # << >>
      BY <1>4 DEF ToolReturns, IInv, Good, Below
    <3> QED
      BY <1>0, <3>1
  <2>2. turn' \in [Turns -> TurnRecord]
    <3>1. PICK b \in BOOLEAN : b = (turn[t].bootstrap \/ Head(turn[t].left) = "complete_bootstrap")
      OBVIOUS
    <3>2. turn' = [turn EXCEPT ![t] = [turn[t] EXCEPT !.at = "tools",
                                           !.left = Tail(turn[t].left), !.bootstrap = b]]
      BY <1>0, <1>4, <3>1 DEF ToolReturns
    <3>3. [turn[t] EXCEPT !.at = "tools", !.left = Tail(turn[t].left), !.bootstrap = b]
             \in TurnRecord
      BY <1>0, <2>1, RecordsChange
    <3> QED
      BY <1>0, <3>2, <3>3
  <2>3. told' \subseteq Turns /\ excused' \subseteq Turns
    BY <1>0, <1>4 DEF ToolReturns, Tells, userVars
  <2>4. PICK s \in SubagentRecord :
           /\ s.at \in {"none", "asking", "tools"} => s.iteration < MaxSubagentIterations
           /\ subagent' \in {subagent, [subagent EXCEPT ![t] = s]}
    <3>1. CASE subagent' = [subagent EXCEPT ![t].cancelled = TRUE]
      <4>1. subagent' = [subagent EXCEPT ![t] = [subagent[t] EXCEPT !.cancelled = TRUE]]
        BY <1>0, <3>1
      <4>2. /\ [subagent[t] EXCEPT !.cancelled = TRUE] \in SubagentRecord
            /\ [subagent[t] EXCEPT !.cancelled = TRUE].at = subagent[t].at
            /\ [subagent[t] EXCEPT !.cancelled = TRUE].iteration = subagent[t].iteration
        BY <1>0 DEF SubagentRecord
      <4> QED
        BY <4>1, <4>2 DEF TypeInv
    <3>2. CASE subagent' = subagent
      BY <1>2, <3>2
    <3> QED
      BY <1>4, <3>1, <3>2 DEF ToolReturns
  <2> QED
    BY <1>0, <1>1, <1>4, <2>2, <2>3, <2>4 DEF ToolReturns
<1>5. CASE BatchEnds(t)
  <2>1. CASE End(t) /\ told' \subseteq Turns
    <3>1. executed' \in [Turns -> [Calls -> Nat]]
      BY <1>0, <2>1 DEF End
    <3> QED
      BY <1>0, <1>5, <2>1, <3>1, FirstRecords, OneTurnChanges DEF End, BatchEnds
  <2>2. ASSUME NEW severity, GoOn(t, severity), turn[t].iteration # MaxIterations PROVE TypeInv'
    <3>1. turn[t].iteration + 1 \in 0..MaxIterations
      BY <1>0, <2>2, TurnAssumption DEF TurnRecord
    <3>2. Iteration(turn[t], turn[t].iteration + 1) \in TurnRecord
      BY <1>0, <3>1, RecordsChange
    <3>3. turn' = [turn EXCEPT ![t] = Iteration(turn[t], turn[t].iteration + 1)]
      BY <1>0, <2>2 DEF GoOn
    <3> QED
      BY <1>0, <1>5, <2>2, <3>2, <3>3, OneTurnChanges DEF GoOn, BatchEnds
  <2> QED
    BY <1>0, <1>5, <2>1, <2>2 DEF BatchEnds, Finish
<1>6. CASE SubagentStep(t)
  <2>1. UNCHANGED <<turn, executed, excused, council, model, cooldown>> /\ told' \subseteq Turns
    BY <1>0, <1>6 DEF SubagentStep, SubagentAsks, SubagentUsesTools, localVars, userVars
  <2>2. PICK s \in SubagentRecord :
           /\ s.at \in {"none", "asking", "tools"} => s.iteration < MaxSubagentIterations
           /\ subagent' = [subagent EXCEPT ![t] = s]
    <3>1. ASSUME SubagentAsks(t), NEW at \in {"ended", "tools"}, SubagentIs(t, at)
          PROVE  \E s \in SubagentRecord :
                    /\ s.at \in {"none", "asking", "tools"} => s.iteration < MaxSubagentIterations
                    /\ subagent' = [subagent EXCEPT ![t] = s]
      <4>1. subagent' = [subagent EXCEPT ![t] = [subagent[t] EXCEPT !.at = at]]
        BY <1>0, <3>1 DEF SubagentIs
      <4>2. /\ [subagent[t] EXCEPT !.at = at] \in SubagentRecord
            /\ [subagent[t] EXCEPT !.at = at].iteration = subagent[t].iteration
        BY <1>0 DEF SubagentRecord
      <4>3. subagent[t].iteration < MaxSubagentIterations
        BY <3>1 DEF SubagentAsks, TypeInv
      <4> QED
        BY <4>1, <4>2, <4>3
    <3>2. CASE SubagentUsesTools(t)
      <4>1. PICK at \in {"ended", "asking"} :
               /\ at = "asking" => subagent[t].iteration + 1 # MaxSubagentIterations
               /\ subagent' = [subagent EXCEPT ![t].iteration = subagent[t].iteration + 1,
                                               ![t].at = at]
        BY <1>0, <3>2 DEF SubagentUsesTools
      <4>2. /\ subagent[t].iteration \in Nat
            /\ subagent[t].iteration < MaxSubagentIterations
        BY <1>0, <3>2 DEF SubagentUsesTools, TypeInv, SubagentRecord
      <4>3. /\ subagent[t].iteration + 1 \in 0..MaxSubagentIterations
            /\ at = "asking" => subagent[t].iteration + 1 < MaxSubagentIterations
        <5>1. MaxSubagentIterations \in Nat
          BY TurnAssumption
        <5> QED
          BY <4>1, <4>2, <5>1
      <4>4. subagent' = [subagent EXCEPT ![t] = [subagent[t] EXCEPT
                            !.iteration = subagent[t].iteration + 1, !.at = at]]
        BY <1>0, <4>1
      <4>5. PICK s : s = [subagent[t] EXCEPT !.iteration = subagent[t].iteration + 1, !.at = at]
        OBVIOUS
      <4>6. s \in SubagentRecord /\ s.at = at /\ s.iteration = subagent[t].iteration + 1
        BY <1>0, <4>3, <4>5 DEF SubagentRecord
      <4> QED
        BY <4>3, <4>4, <4>5, <4>6
    <3> QED
      BY <1>6, <3>1, <3>2 DEF SubagentStep, SubagentAsks
  <2> QED
    BY <1>0, <1>1, <2>1, <2>2
<1> QED
  BY <1>3, <1>4, <1>5, <1>6

(* The turns and their subagents keep their types, and with them the       *)
(* limits of their iterations and retries.                                 *)
THEOREM TurnTypeCorrect == Spec => []TypeOK
<1>1. ASSUME TypeInv, IInv, [Next]_vars PROVE TypeInv'
  <2>1. CASE UNCHANGED vars
    BY <1>1, <2>1 DEF TypeInv, TypeOK, vars, localVars, userVars
  <2>2. ASSUME NEW m \in Models, CooldownExpires(m) PROVE TypeInv'
    <3>1. cooldown' \in [Models -> {"none", "forever", "resting", "over"}]
      BY <1>1, <2>2 DEF CooldownExpires, TypeInv, TypeOK
    <3> QED
      BY <1>1, <2>2, <3>1 DEF CooldownExpires, TypeInv, TypeOK, localVars, userVars
  <2> QED
    BY <1>1, <2>1, <2>2, RequestTypes, ToolTypes DEF Next, TurnStep
<1>2. TypeInv => TypeOK
  BY DEF TypeInv
<1> QED
  BY <1>1, <1>2, TypesInitially, Invariant, PTL DEF Spec
-----------------------------------------------------------------------------
(* Sequences: induction over data, by the least number, as in              *)
(* AgentSessionProofs.                                                     *)

(* A set of natural numbers that is not empty has a least element: this    *)
(* is how the lemmas about recursive functions are proved.                 *)
LEMMA LeastNumber ==
    ASSUME NEW T \in SUBSET Nat, T # {}
    PROVE  \E x \in T : \A y \in T : x <= y
<1> DEFINE R == OpToRel(<, Nat)
<1>1. PICK x \in T : \A y \in T : <<y, x>> \notin R
  <2>1. IsWellFoundedOn(R, Nat)
    BY NatLessThanWellFounded
  <2> HIDE DEF R
  <2> QED
    BY <2>1, WFMin
<1>2. \A y \in T : ~(y < x)
  BY <1>1 DEF OpToRel
<1> QED
  BY <1>2

(* So what holds of 0, and of each successor up to n, holds up to n.       *)
LEMMA UpTo ==
    ASSUME NEW n \in Nat, NEW T \in SUBSET Nat, 0 \in T,
           \A k \in 1..n : k - 1 \in T => k \in T
    PROVE  0..n \subseteq T
<1> SUFFICES ASSUME 0..n \ T # {} PROVE FALSE
  OBVIOUS
<1>1. PICK k \in 0..n \ T : \A j \in 0..n \ T : k <= j
  <2>1. 0..n \ T \in SUBSET Nat
    OBVIOUS
  <2> QED
    BY <2>1, LeastNumber
<1>2. k # 0 /\ k - 1 \in 0..n /\ ~(k <= k - 1)
  BY <1>1
<1>3. k - 1 \in T
  BY <1>1, <1>2
<1> QED
  BY <1>1, <1>2, <1>3

(* The recursive function by which FlattenSeq is defined.                  *)
Flattens(f, seqs, n) ==
    f = [i \in 1..n |-> IF i = 1 THEN seqs[i] ELSE f[i - 1] \o seqs[i]]

(* There is one.                                                           *)
LEMMA FlattenExists ==
    ASSUME NEW n \in Nat, NEW seqs
    PROVE  \E f : Flattens(f, seqs, n)
<1> DEFINE T == {k \in Nat : \E f : Flattens(f, seqs, k)}
<1>1. 0 \in T
  <2>1. [i \in 1..0 |-> << >>] = [i \in 1..0 |-> IF i = 1 THEN seqs[i]
           ELSE [j \in 1..0 |-> << >>][i - 1] \o seqs[i]]
    OBVIOUS
  <2> QED
    BY <2>1 DEF Flattens
<1>2. ASSUME NEW k \in 1..n, k - 1 \in T PROVE k \in T
  <2>1. PICK f : Flattens(f, seqs, k - 1)
    BY <1>2
  <2>2. \A i \in 1..(k - 1) : f[i] = IF i = 1 THEN seqs[i] ELSE f[i - 1] \o seqs[i]
    BY <2>1 DEF Flattens
  <2> DEFINE g == [i \in 1..k |-> IF i < k THEN f[i]
                                  ELSE IF i = 1 THEN seqs[i] ELSE f[i - 1] \o seqs[i]]
  <2>3. \A i \in 1..k : g[i] = IF i = 1 THEN seqs[i] ELSE g[i - 1] \o seqs[i]
    <3> TAKE i \in 1..k
    <3>1. CASE i = 1
      BY <2>2, <3>1
    <3>2. CASE i # 1
      <4>1. i - 1 \in 1..k /\ i - 1 < k /\ g[i - 1] = f[i - 1]
        BY <3>2
      <4>2. g[i] = f[i - 1] \o seqs[i]
        <5>1. CASE i < k
          <6>1. i \in 1..(k - 1)
            BY <5>1
          <6> QED
            BY <2>2, <3>2, <5>1, <6>1
        <5> QED
          BY <3>2, <5>1
      <4> QED
        BY <3>2, <4>1, <4>2
    <3> QED
      BY <3>1, <3>2
  <2>4. Flattens(g, seqs, k)
    <3>1. g = [i \in 1..k |-> g[i]]
      OBVIOUS
    <3> HIDE DEF g
    <3> QED
      BY <2>3, <3>1 DEF Flattens
  <2> QED
    BY <2>4
<1>3. 0..n \subseteq T
  <2> HIDE DEF T
  <2>1. T \in SUBSET Nat
    BY DEF T
  <2> QED
    BY <1>1, <1>2, <2>1, UpTo
<1> QED
  BY <1>3

(* What FlattenSeq returns: a sequence of what the parts hold, in which two*)
(* elements stand in the order given by their parts.                       *)
LEMMA FlattenFacts ==
    ASSUME NEW S, NEW n \in Nat, NEW seqs \in [1..n -> Seq(S)], NEW Before,
           \A p \in 1..n : \A i, j \in DOMAIN seqs[p] :
              i < j => <<seqs[p][i], seqs[p][j]>> \in Before,
           \A p, q \in 1..n : p < q =>
              \A i \in DOMAIN seqs[p], j \in DOMAIN seqs[q] :
                 <<seqs[p][i], seqs[q][j]>> \in Before
    PROVE  /\ FlattenSeq(seqs) \in Seq(S)
           /\ \A x : x \in ToSet(FlattenSeq(seqs))
                 <=> \E p \in 1..n : x \in ToSet(seqs[p])
           /\ \A i, j \in DOMAIN FlattenSeq(seqs) :
                 i < j => <<FlattenSeq(seqs)[i], FlattenSeq(seqs)[j]>> \in Before
<1>0. Len(seqs) = n /\ DOMAIN seqs = 1..n
  OBVIOUS
<1>1. CASE n = 0
  <2>1. FlattenSeq(seqs) = seqs /\ seqs = << >>
    BY <1>0, <1>1 DEF FlattenSeq
  <2> QED
    BY <1>1, <2>1 DEF ToSet
<1>2. CASE n # 0
  <2> DEFINE f == CHOOSE f : Flattens(f, seqs, n)
  <2>1. FlattenSeq(seqs) = f[n]
    BY <1>0, <1>2 DEF FlattenSeq, Flattens
  <2>2. \A i \in 1..n : f[i] = IF i = 1 THEN seqs[i] ELSE f[i - 1] \o seqs[i]
    <3>1. Flattens(f, seqs, n)
      BY FlattenExists
    <3> HIDE DEF f
    <3> QED
      BY <3>1 DEF Flattens
  <2> HIDE DEF f
  <2> DEFINE P(k) ==
        /\ f[k] \in Seq(S)
        /\ \A x : x \in ToSet(f[k]) <=> \E p \in 1..k : x \in ToSet(seqs[p])
        /\ \A i, j \in DOMAIN f[k] : i < j => <<f[k][i], f[k][j]>> \in Before
  <2> DEFINE T == {k \in Nat : k # 0 => P(k)}
  <2>3. 0 \in T
    OBVIOUS
  <2>4. ASSUME NEW k \in 1..n, k - 1 \in T PROVE k \in T
    <3>1. CASE k = 1
      <4>1. f[k] = seqs[1]
        BY <2>2, <3>1
      <4> QED
        BY <3>1, <4>1
    <3>2. CASE k # 1
      <4>1. k - 1 \in 1..n /\ P(k - 1)
        BY <2>4, <3>2
      <4>2. f[k] = f[k - 1] \o seqs[k] /\ seqs[k] \in Seq(S)
        BY <2>2, <3>2
      <4> DEFINE a == f[k - 1]
                 b == seqs[k]
      <4>3. a \in Seq(S) /\ b \in Seq(S) /\ f[k] = a \o b
        BY <4>1, <4>2
      <4>4. /\ f[k] \in Seq(S)
            /\ DOMAIN f[k] = 1..(Len(a) + Len(b))
            /\ DOMAIN a = 1..Len(a) /\ DOMAIN b = 1..Len(b)
            /\ \A i \in 1..Len(a) : f[k][i] = a[i]
            /\ \A i \in 1..Len(b) : f[k][Len(a) + i] = b[i]
            /\ \A i \in (Len(a) + 1)..(Len(a) + Len(b)) : f[k][i] = b[i - Len(a)]
        BY <4>3
      <4>5. \A x : x \in ToSet(f[k]) <=> x \in ToSet(a) \/ x \in ToSet(b)
        <5>1. ASSUME NEW i \in DOMAIN f[k] PROVE f[k][i] \in ToSet(a) \cup ToSet(b)
          <6>1. CASE i <= Len(a)
            BY <4>3, <4>4, <6>1 DEF ToSet
          <6>2. CASE i > Len(a)
            <7>1. i - Len(a) \in DOMAIN b /\ f[k][i] = b[i - Len(a)]
              BY <4>3, <4>4, <6>2, SMTT(30)
            <7> QED
              BY <7>1 DEF ToSet
          <6> QED
            BY <4>3, <4>4, <6>1, <6>2
        <5>2. ASSUME NEW i \in DOMAIN a PROVE a[i] \in ToSet(f[k])
          BY <4>3, <4>4 DEF ToSet
        <5>3. ASSUME NEW i \in DOMAIN b PROVE b[i] \in ToSet(f[k])
          <6>1. Len(a) + i \in DOMAIN f[k]
            BY <4>3, <4>4
          <6> QED
            BY <4>4, <6>1 DEF ToSet
        <5> HIDE DEF a, b
        <5> QED
          BY <5>1, <5>2, <5>3 DEF ToSet
      <4>6. \A x : x \in ToSet(f[k]) <=> \E p \in 1..k : x \in ToSet(seqs[p])
        <5>1. 1..k = 1..(k - 1) \cup {k}
          OBVIOUS
        <5> QED
          BY <4>1, <4>5, <5>1
      <4>7. ASSUME NEW i \in DOMAIN f[k], NEW j \in DOMAIN f[k], i < j
            PROVE  <<f[k][i], f[k][j]>> \in Before
        <5>1. CASE j <= Len(a)
          BY <4>1, <4>3, <4>4, <4>7, <5>1
        <5>2. CASE i > Len(a)
          <6>0. /\ i \in Nat /\ j \in Nat /\ Len(a) \in Nat /\ j > Len(a)
                /\ i \in (Len(a) + 1)..(Len(a) + Len(b))
                /\ j \in (Len(a) + 1)..(Len(a) + Len(b))
            BY <4>3, <4>4, <4>7, <5>2, SMTT(30)
          <6>1. /\ i - Len(a) \in DOMAIN b /\ j - Len(a) \in DOMAIN b
                /\ i - Len(a) < j - Len(a)
                /\ f[k][i] = b[i - Len(a)] /\ f[k][j] = b[j - Len(a)]
            <7> HIDE DEF a, b
            <7>1. i - Len(a) \in 1..Len(b) /\ j - Len(a) \in 1..Len(b)
                  /\ i - Len(a) < j - Len(a)
              BY <4>3, <4>7, <6>0
            <7> QED
              BY <4>4, <6>0, <7>1
          <6>2. <<b[i - Len(a)], b[j - Len(a)]>> \in Before
            <7> HIDE DEF a
            <7> QED
              BY <6>1
          <6> QED
            BY <6>1, <6>2
        <5>3. CASE i <= Len(a) /\ j > Len(a)
          <6>1. j - Len(a) \in DOMAIN b /\ f[k][j] = b[j - Len(a)] /\ f[k][i] = a[i]
            BY <4>3, <4>4, <4>7, <5>3, SMTT(30)
          <6>2. a[i] \in ToSet(a)
            BY <4>3, <4>4, <4>7, <5>3 DEF ToSet
          <6>3. PICK p \in 1..(k - 1) : a[i] \in ToSet(seqs[p])
            BY <4>1, <6>2
          <6>4. PICK l \in DOMAIN seqs[p] : a[i] = seqs[p][l]
            BY <6>3 DEF ToSet
          <6> QED
            BY <6>1, <6>3, <6>4
        <5> QED
          <6>1. i \in Nat /\ j \in Nat /\ Len(a) \in Nat
            BY <4>3, <4>4
          <6> QED
            BY <4>7, <5>1, <5>2, <5>3, <6>1
      <4>8. P(k)
        BY <4>4, <4>6, <4>7
      <4> QED
        BY <4>8
    <3> QED
      BY <3>1, <3>2
  <2>5. 0..n \subseteq T
    <3> HIDE DEF T
    <3>1. T \in SUBSET Nat
      BY DEF T
    <3> QED
      BY <2>3, <2>4, <3>1, UpTo
  <2>6. P(n)
    <3>1. n \in T
      <4> HIDE DEF T
      <4> QED
        BY <2>5
    <3> QED
      BY <1>2, <3>1
  <2> QED
    BY <2>1, <2>6
<1> QED
  BY <1>1, <1>2

-----------------------------------------------------------------------------
(* Messages, what they ask and what they answer.                           *)

Roles == {"user", "warning", "note", "assistant", "tool"}
Ids == {NoId} \cup {ServiceId(n, i) : n \in Nat, i \in Nat}
ParsedCalls == [id : Ids, name : {NoName}, function : Calls]
Messages == [role : Roles, calls : Seq(ParsedCalls), id : Ids]

IsCall(m, id) == HasCalls(m) /\ \E i \in DOMAIN m.calls : m.calls[i].id = id
IsResult(m, id) == m.role = "tool" /\ m.id = id

Asks(ms, id) == \E m \in ToSet(ms) : IsCall(m, id)
Has(ms, id) == \E m \in ToSet(ms) : IsResult(m, id)

\* What may stand before what: a result before no call and no result of the same identity.
Ordered ==
    {z \in Messages \X Messages :
        z[1].role = "tool" => ~IsCall(z[2], z[1].id) /\ ~IsResult(z[2], z[1].id)}

InOrder(ms) == \A i, j \in DOMAIN ms : i < j => <<ms[i], ms[j]>> \in Ordered

Settled(ms) ==
    /\ ms \in Seq(Messages) /\ InOrder(ms)
    /\ \A id \in Ids : Asks(ms, id) => Has(ms, id)

(* Calls with identities of their own are of one round if they are the same. *)
LEMMA ServiceIds ==
    ASSUME NEW n \in Nat, NEW i \in Nat, NEW k \in Nat, NEW j \in Nat,
           ServiceId(n, i) = ServiceId(k, j)
    PROVE  n = k /\ i = j
BY DEF ServiceId

(* A result comes after its call, and no other result of it does.          *)
LEMMA AfterItsCall ==
    ASSUME NEW ms \in Seq(Messages), InOrder(ms), NEW id \in Ids,
           NEW p \in DOMAIN ms, IsCall(ms[p], id), NEW q \in DOMAIN ms, IsResult(ms[q], id)
    PROVE  p < q
<1>1. p # q
  BY DEF IsCall, IsResult, HasCalls
<1>2. ASSUME q < p PROVE FALSE
  BY <1>2 DEF InOrder, Ordered, IsResult
<1>3. p \in Nat /\ q \in Nat
  OBVIOUS
<1> QED
  BY <1>1, <1>2, <1>3

(* The session's part of settled messages is settled.                      *)
LEMMA InSessionSettled ==
    ASSUME NEW ms, Settled(ms)
    PROVE  Settled(InSession(ms)) /\ ToSet(InSession(ms)) \subseteq ToSet(ms)
<1> DEFINE n == Len(ms)
           seqs == [p \in DOMAIN ms |-> IF ms[p].role = "warning" THEN << >> ELSE <<ms[p]>>]
<1>1. /\ ms \in Seq(Messages) /\ n \in Nat /\ DOMAIN ms = 1..n
      /\ \A p \in 1..n : ms[p] \in Messages
  BY DEF Settled
<1>2. InSession(ms) = FlattenSeq(seqs)
  BY DEF InSession
<1>3. \A p \in 1..n : seqs[p] = IF ms[p].role = "warning" THEN << >> ELSE <<ms[p]>>
  BY <1>1
<1>4. seqs \in [1..n -> Seq(Messages)]
  BY <1>1
<1> HIDE DEF seqs, n
<1>5. ASSUME NEW p \in 1..n
      PROVE  /\ \A i \in DOMAIN seqs[p] : i = 1 /\ seqs[p][1] = ms[p]
             /\ ToSet(seqs[p]) = IF ms[p].role = "warning" THEN {} ELSE {ms[p]}
  <2>1. CASE ms[p].role = "warning"
    <3>1. seqs[p] = << >>
      BY <1>3, <2>1
    <3>2. ToSet(<< >>) = {}
      BY DEF ToSet
    <3> QED
      BY <2>1, <3>1, <3>2
  <2>2. CASE ms[p].role # "warning"
    <3>1. seqs[p] = <<ms[p]>>
      BY <1>3, <2>2
    <3>2. ToSet(<<ms[p]>>) = {ms[p]}
      BY DEF ToSet
    <3> QED
      BY <2>2, <3>1, <3>2
  <2> QED
    BY <2>1, <2>2
<1>6. ASSUME NEW p \in 1..n, NEW i \in DOMAIN seqs[p], NEW j \in DOMAIN seqs[p], i < j
      PROVE  <<seqs[p][i], seqs[p][j]>> \in Ordered
  <2>1. i = 1 /\ j = 1
    BY <1>5
  <2> QED
    BY <1>6, <2>1
<1>7. ASSUME NEW p \in 1..n, NEW q \in 1..n, p < q,
             NEW i \in DOMAIN seqs[p], NEW j \in DOMAIN seqs[q]
      PROVE  <<seqs[p][i], seqs[q][j]>> \in Ordered
  <2>1. seqs[p][i] = ms[p] /\ seqs[q][j] = ms[q]
    BY <1>5
  <2> QED
    BY <1>1, <1>7, <2>1 DEF Settled, InOrder
<1>8. /\ FlattenSeq(seqs) \in Seq(Messages)
      /\ \A x : x \in ToSet(FlattenSeq(seqs)) <=> \E p \in 1..n : x \in ToSet(seqs[p])
      /\ \A i, j \in DOMAIN FlattenSeq(seqs) :
            i < j => <<FlattenSeq(seqs)[i], FlattenSeq(seqs)[j]>> \in Ordered
  BY <1>1, <1>4, <1>6, <1>7, FlattenFacts
<1>9. ToSet(InSession(ms)) = {m \in ToSet(ms) : m.role # "warning"}
  <2>1. ASSUME NEW x
        PROVE  x \in ToSet(InSession(ms)) <=> \E p \in 1..n : x = ms[p] /\ ms[p].role # "warning"
    <3>1. x \in ToSet(InSession(ms)) <=> \E p \in 1..n : x \in ToSet(seqs[p])
      BY <1>2, <1>8
    <3>2. ASSUME NEW p \in 1..n
          PROVE  x \in ToSet(seqs[p]) <=> x = ms[p] /\ ms[p].role # "warning"
      BY <1>5
    <3> QED
      BY <3>1, <3>2
  <2>2. ASSUME NEW x PROVE x \in ToSet(ms) <=> \E p \in 1..n : x = ms[p]
    BY <1>1 DEF ToSet
  <2> QED
    BY <2>1, <2>2
<1>10. ASSUME NEW id \in Ids, Asks(InSession(ms), id) PROVE Has(InSession(ms), id)
  <2>1. Has(ms, id)
    BY <1>9, <1>10 DEF Settled, Asks
  <2> QED
    BY <1>9, <2>1 DEF Has, IsResult
<1> QED
  BY <1>2, <1>8, <1>9, <1>10 DEF Settled, InOrder

(* So is what follows a place in them.                                     *)
LEMMA SuffixSettled ==
    ASSUME NEW ms, Settled(ms), NEW k \in 1..Len(ms)
    PROVE  /\ Settled(SubSeq(ms, k, Len(ms)))
           /\ ToSet(SubSeq(ms, k, Len(ms))) \subseteq ToSet(ms)
<1> DEFINE n == Len(ms)
           s == SubSeq(ms, k, n)
<1>1. ms \in Seq(Messages) /\ n \in Nat /\ DOMAIN ms = 1..n /\ k \in 1..n
  BY DEF Settled
<1>2. s \in Seq(Messages) /\ Len(s) = n - k + 1 /\ \A i \in 1..(n - k + 1) : s[i] = ms[k + i - 1]
  BY <1>1
<1>3. /\ DOMAIN s = 1..(n - k + 1)
      /\ \A i \in DOMAIN s : k + i - 1 \in DOMAIN ms /\ s[i] = ms[k + i - 1]
  BY <1>1, <1>2
<1> HIDE DEF s
<1>4. ToSet(s) \subseteq ToSet(ms)
  BY <1>3 DEF ToSet
<1>5. InOrder(s)
  <2> SUFFICES ASSUME NEW i \in DOMAIN s, NEW j \in DOMAIN s, i < j
               PROVE  <<s[i], s[j]>> \in Ordered
    BY DEF InOrder
  <2>1. k + i - 1 < k + j - 1
    BY <1>1, <1>3
  <2> QED
    BY <1>3, <2>1 DEF Settled, InOrder
<1>6. ASSUME NEW id \in Ids, Asks(s, id) PROVE Has(s, id)
  <2>1. PICK i \in DOMAIN s : IsCall(s[i], id)
    BY <1>6 DEF Asks, ToSet
  <2>2. k + i - 1 \in DOMAIN ms /\ IsCall(ms[k + i - 1], id)
    BY <1>3, <2>1
  <2>3. Has(ms, id)
    BY <2>2 DEF Settled, Asks, ToSet
  <2>4. PICK q \in DOMAIN ms : IsResult(ms[q], id)
    BY <2>3 DEF Has, ToSet
  <2>5. k + i - 1 < q
    BY <1>1, <2>2, <2>4, AfterItsCall DEF Settled
  <2>6. q - k + 1 \in DOMAIN s /\ s[q - k + 1] = ms[q]
    <3>1. i \in Nat /\ i >= 1 /\ q \in 1..n
      BY <1>1, <1>3
    <3>2. q - k + 1 \in 1..(n - k + 1) /\ k + (q - k + 1) - 1 = q
      BY <1>1, <2>5, <3>1
    <3> QED
      BY <1>3, <3>2
  <2> QED
    BY <2>4, <2>6 DEF Has, ToSet
<1> QED
  BY <1>2, <1>4, <1>5, <1>6 DEF Settled, s

(* A text asks and answers nothing.                                        *)
LEMMA TextSettled ==
    ASSUME NEW role \in {"user", "warning", "note"}
    PROVE  /\ Text(role) \in Messages /\ Text(role).role = role
           /\ \A id : ~IsCall(Text(role), id) /\ ~IsResult(Text(role), id)
<1>1. << >> \in Seq(ParsedCalls) /\ NoId \in Ids /\ role \in Roles
  BY DEF Ids, Roles
<1> QED
  BY <1>1 DEF Text, Messages, IsCall, IsResult, HasCalls

(* A note may be put in front.                                             *)
LEMMA NoteSettled ==
    ASSUME NEW ms, Settled(ms)
    PROVE  /\ Settled(<<Text("note")>> \o ms)
           /\ \A id : /\ Asks(<<Text("note")>> \o ms, id) => Asks(ms, id)
                      /\ Has(<<Text("note")>> \o ms, id) => Has(ms, id)
<1> DEFINE note == Text("note")
           s == <<note>> \o ms
<1>1. /\ note \in Messages /\ note.role = "note"
      /\ \A id : ~IsCall(note, id) /\ ~IsResult(note, id)
  BY TextSettled
<1>2. ms \in Seq(Messages)
  BY DEF Settled
<1> HIDE DEF note
<1>3. /\ s \in Seq(Messages) /\ DOMAIN s = 1..(Len(ms) + 1) /\ DOMAIN ms = 1..Len(ms)
      /\ Len(ms) \in Nat /\ s[1] = note /\ \A i \in 1..Len(ms) : s[i + 1] = ms[i]
  BY <1>1, <1>2
<1> HIDE DEF s
<1>4. \A i \in DOMAIN s : i # 1 => i - 1 \in DOMAIN ms /\ s[i] = ms[i - 1]
  BY <1>3
<1>5. ToSet(s) = {note} \cup ToSet(ms)
  <2>1. \A i \in DOMAIN ms : i + 1 \in DOMAIN s /\ s[i + 1] = ms[i]
    BY <1>3
  <2>2. 1 \in DOMAIN s
    BY <1>3
  <2> QED
    <3>1. ASSUME NEW i \in DOMAIN s PROVE s[i] \in {note} \cup ToSet(ms)
      BY <1>3, <1>4 DEF ToSet
    <3>2. ASSUME NEW i \in DOMAIN ms PROVE ms[i] \in ToSet(s)
      BY <2>1 DEF ToSet
    <3>3. note \in ToSet(s)
      BY <1>3, <2>2 DEF ToSet
    <3> QED
      BY <3>1, <3>2, <3>3 DEF ToSet
<1>6. InOrder(s)
  <2> SUFFICES ASSUME NEW i \in DOMAIN s, NEW j \in DOMAIN s, i < j
               PROVE  <<s[i], s[j]>> \in Ordered
    BY DEF InOrder
  <2>1. s[i] \in Messages /\ s[j] \in Messages
    BY <1>3
  <2>2. CASE i = 1
    BY <1>1, <1>3, <2>1, <2>2 DEF Ordered
  <2>3. CASE i # 1
    <3>1. j # 1 /\ i - 1 < j - 1
      BY <1>3, <2>3
    <3> QED
      BY <1>4, <2>3, <3>1 DEF Settled, InOrder
  <2> QED
    BY <2>2, <2>3
<1>7. \A id : (Asks(s, id) <=> Asks(ms, id)) /\ (Has(s, id) <=> Has(ms, id))
  BY <1>1, <1>5 DEF Asks, Has
<1> QED
  BY <1>3, <1>6, <1>7 DEF Settled, s, note

(* Forced compression keeps what it leaves of the messages settled: it     *)
(* never parts a call from a result that comes after it.                   *)
LEMMA CompressionSettled ==
    ASSUME NEW ms, Settled(ms)
    PROVE  /\ Settled(ForceCompression(ms))
           /\ \A id : /\ Asks(ForceCompression(ms), id) => Asks(ms, id)
                      /\ Has(ForceCompression(ms), id) => Has(ms, id)
<1> DEFINE session == InSession(ms)
           k == Len(session) \div 2 + 1
           rest == SubSeq(session, k, Len(session))
<1>1. Settled(session) /\ ToSet(session) \subseteq ToSet(ms)
  BY InSessionSettled
<1>2. Len(session) \in Nat
  BY <1>1 DEF Settled
<1> HIDE DEF session
<1>3. CASE Len(session) <= 4
  <2>1. ForceCompression(ms) = session
    BY <1>3 DEF ForceCompression, session
  <2> QED
    BY <1>1, <2>1 DEF Asks, Has
<1>4. CASE ~(Len(session) <= 4)
  <2>1. k \in 1..Len(session)
    BY <1>2, <1>4
  <2>2. ForceCompression(ms) = <<Text("note")>> \o rest
    BY <1>4 DEF ForceCompression, session
  <2> HIDE DEF k
  <2>3. Settled(rest) /\ ToSet(rest) \subseteq ToSet(session)
    BY <1>1, <2>1, SuffixSettled
  <2> HIDE DEF rest
  <2>4. /\ Settled(<<Text("note")>> \o rest)
        /\ \A id : /\ Asks(<<Text("note")>> \o rest, id) => Asks(rest, id)
                   /\ Has(<<Text("note")>> \o rest, id) => Has(rest, id)
    BY <2>3, NoteSettled
  <2>5. \A id : /\ Asks(rest, id) => Asks(ms, id)
                /\ Has(rest, id) => Has(ms, id)
    BY <1>1, <2>3 DEF Asks, Has
  <2> DEFINE s == <<Text("note")>> \o rest
  <2> HIDE DEF s
  <2>6. ASSUME NEW id PROVE (Asks(s, id) => Asks(ms, id)) /\ (Has(s, id) => Has(ms, id))
    <3>1. Asks(s, id) => Asks(rest, id)
      BY <2>4 DEF s
    <3>2. Has(s, id) => Has(rest, id)
      BY <2>4 DEF s
    <3> QED
      BY <2>5, <3>1, <3>2
  <2> QED
    BY <2>2, <2>4, <2>6 DEF s
<1> QED
  BY <1>3, <1>4

(* A message at the end.                                                   *)
LEMMA AppendInOrder ==
    ASSUME NEW ms \in Seq(Messages), InOrder(ms), NEW m \in Messages,
           \A id \in Ids : Has(ms, id) => ~IsCall(m, id) /\ ~IsResult(m, id)
    PROVE  /\ Append(ms, m) \in Seq(Messages) /\ InOrder(Append(ms, m))
           /\ ToSet(Append(ms, m)) = ToSet(ms) \cup {m}
<1> DEFINE s == Append(ms, m)
<1>1. /\ s \in Seq(Messages) /\ Len(ms) \in Nat /\ DOMAIN s = 1..(Len(ms) + 1)
      /\ DOMAIN ms = 1..Len(ms) /\ s[Len(ms) + 1] = m
      /\ \A i \in 1..Len(ms) : s[i] = ms[i]
  OBVIOUS
<1> HIDE DEF s
<1>2. ToSet(s) = ToSet(ms) \cup {m}
  <2>1. Len(ms) + 1 \in DOMAIN s /\ \A i \in DOMAIN ms : i \in DOMAIN s
    BY <1>1
  <2>2. \A i \in DOMAIN s : i = Len(ms) + 1 \/ i \in DOMAIN ms
    BY <1>1
  <2> QED
    BY <1>1, <2>1, <2>2 DEF ToSet
<1>3. InOrder(s)
  <2> SUFFICES ASSUME NEW i \in DOMAIN s, NEW j \in DOMAIN s, i < j
               PROVE  <<s[i], s[j]>> \in Ordered
    BY DEF InOrder
  <2>1. i \in DOMAIN ms /\ s[i] = ms[i] /\ ms[i] \in Messages /\ ms[i] \in ToSet(ms)
    BY <1>1 DEF ToSet
  <2>2. CASE j \in DOMAIN ms
    BY <1>1, <2>1, <2>2 DEF InOrder
  <2>3. CASE j \notin DOMAIN ms
    <3>1. s[j] = m
      BY <1>1, <2>3
    <3>2. ms[i].role = "tool" => Has(ms, ms[i].id) /\ ms[i].id \in Ids
      BY <2>1 DEF Has, IsResult, Messages
    <3> QED
      BY <2>1, <3>1, <3>2 DEF Ordered
  <2> QED
    BY <2>2, <2>3
<1> QED
  BY <1>1, <1>2, <1>3 DEF s
-----------------------------------------------------------------------------
(* The request that goes out for settled messages.                         *)

Wire ==
    {TextItem(r) : r \in Roles} \cup {ResultItem(id) : id \in Ids}
        \cup {CallItem(id, name) : id \in Ids, name \in Calls \cup {NoName}}

\* What may stand before what on the wire.
WireOrdered ==
    {z \in Wire \X Wire :
        z[1].type = "result" => ~(z[2].type \in {"call", "result"} /\ z[2].id = z[1].id)}

Structured == StructuredKinds \ {"vertex"}

(* An item is of one of three types.                                       *)
LEMMA ItemTypes ==
    /\ \A r \in Roles : TextItem(r) \in Wire /\ TextItem(r).type = "text"
    /\ \A id \in Ids : /\ ResultItem(id) \in Wire /\ ResultItem(id).type = "result"
                       /\ ResultItem(id).id = id
    /\ \A id \in Ids, name \in Calls \cup {NoName} :
          /\ CallItem(id, name) \in Wire /\ CallItem(id, name).type = "call"
          /\ CallItem(id, name).id = id
    /\ \A x \in Wire : \/ x.type = "text"
                       \/ x.type = "result" /\ x.id \in Ids /\ x = ResultItem(x.id)
                       \/ x.type = "call" /\ x.id \in Ids
<1>1. \A r \in Roles : TextItem(r) \in Wire /\ TextItem(r).type = "text"
  BY DEF Wire, TextItem
<1>2. \A id : ResultItem(id).type = "result" /\ ResultItem(id).id = id
  BY DEF ResultItem
<1>3. \A id \in Ids : ResultItem(id) \in Wire
  BY DEF Wire
<1>4. \A id, name : CallItem(id, name).type = "call" /\ CallItem(id, name).id = id
  BY DEF CallItem
<1>5. \A id \in Ids, name \in Calls \cup {NoName} : CallItem(id, name) \in Wire
  BY DEF Wire
<1>6. ASSUME NEW x \in Wire
      PROVE  \/ x.type = "text"
             \/ x.type = "result" /\ x.id \in Ids /\ x = ResultItem(x.id)
             \/ x.type = "call" /\ x.id \in Ids
  <2>1. CASE \E r \in Roles : x = TextItem(r)
    BY <1>1, <2>1
  <2>2. CASE \E id \in Ids : x = ResultItem(id)
    BY <1>2, <2>2
  <2>3. CASE \E id \in Ids, name \in Calls \cup {NoName} : x = CallItem(id, name)
    BY <1>4, <2>3
  <2> QED
    BY <2>1, <2>2, <2>3 DEF Wire
<1> QED
  BY <1>1, <1>2, <1>3, <1>4, <1>5, <1>6

\* What a message becomes, for any of the conversions.
ItemsOf(items, m) ==
    /\ items \in Seq(Wire)
    /\ \A i \in DOMAIN items : /\ items[i].type = "call" => IsCall(m, items[i].id)
                               /\ items[i].type = "result" => IsResult(m, items[i].id)
    /\ m.role = "tool" => items = <<ResultItem(m.id)>>

(* The messages without calls are the same for all.                        *)
LEMMA OtherItems ==
    ASSUME NEW m \in Messages, ~HasCalls(m)
    PROVE  ItemsOf(OpenAIItems(m), m)
<1>0. m.role \in Roles /\ m.id \in Ids
  BY DEF Messages
<1>1. CASE m.role = "tool"
  <2>1. OpenAIItems(m) = <<ResultItem(m.id)>>
    BY <1>1 DEF OpenAIItems
  <2>2. ResultItem(m.id) \in Wire /\ ResultItem(m.id).type = "result" /\ ResultItem(m.id).id = m.id
    BY <1>0, ItemTypes
  <2> QED
    BY <1>1, <2>1, <2>2 DEF ItemsOf, IsResult
<1>2. CASE m.role # "tool"
  <2>1. OpenAIItems(m) = <<TextItem(m.role)>>
    BY <1>2 DEF OpenAIItems
  <2>2. TextItem(m.role) \in Wire /\ TextItem(m.role).type = "text"
    BY <1>0, ItemTypes
  <2> QED
    BY <1>2, <2>1, <2>2 DEF ItemsOf
<1> QED
  BY <1>1, <1>2

(* Calls with names of some kind.                                          *)
LEMMA CallItems ==
    ASSUME NEW m \in Messages, HasCalls(m), NEW items, DOMAIN items = DOMAIN m.calls,
           items = [i \in DOMAIN items |-> items[i]],
           \A i \in DOMAIN m.calls : \E name \in Calls \cup {NoName} :
              items[i] = CallItem(m.calls[i].id, name)
    PROVE  ItemsOf(items, m)
<1>1. m.calls \in Seq(ParsedCalls) /\ m.role = "assistant"
  BY DEF Messages, HasCalls
<1>2. ASSUME NEW i \in DOMAIN m.calls
      PROVE  /\ items[i] \in Wire /\ items[i].type = "call" /\ items[i].id = m.calls[i].id
  <2>1. m.calls[i].id \in Ids
    <3>1. m.calls[i] \in ParsedCalls
      BY <1>1
    <3> QED
      BY <3>1 DEF ParsedCalls
  <2> QED
    BY <2>1, ItemTypes
<1>3. items \in Seq(Wire)
  <2>1. DOMAIN items = 1..Len(m.calls) /\ Len(m.calls) \in Nat
    BY <1>1
  <2>2. items \in [1..Len(m.calls) -> Wire]
    BY <1>2, <2>1
  <2> QED
    BY <2>1, <2>2
<1> QED
  BY <1>1, <1>2, <1>3 DEF ItemsOf, IsCall

(* OpenAI's formats and Bedrock's name a call by its function, Claude's by *)
(* the name the loop leaves empty.                                         *)
LEMMA NamedItems ==
    ASSUME NEW m \in Messages
    PROVE  ItemsOf(OpenAIItems(m), m) /\ ItemsOf(ClaudeItems(m), m)
<1>1. CASE ~HasCalls(m)
  BY <1>1, OtherItems DEF ClaudeItems
<1>2. CASE HasCalls(m)
  <2>1. m.calls \in Seq(ParsedCalls)
    BY DEF Messages
  <2>2. \A i \in DOMAIN m.calls : m.calls[i].function \in Calls /\ m.calls[i].name = NoName
    <3>1. \A i \in DOMAIN m.calls : m.calls[i] \in ParsedCalls
      BY <2>1
    <3> QED
      BY <3>1 DEF ParsedCalls
  <2> DEFINE a == [i \in DOMAIN m.calls |-> CallItem(m.calls[i].id, m.calls[i].function)]
             b == [i \in DOMAIN m.calls |-> CallItem(m.calls[i].id, m.calls[i].name)]
  <2>3. ItemsOf(a, m)
    BY <1>2, <2>2, CallItems
  <2>4. ItemsOf(b, m)
    BY <1>2, <2>2, CallItems
  <2>5. OpenAIItems(m) = a
    <3>1. m.role # "tool"
      BY <1>2 DEF HasCalls
    <3> QED
      BY <1>2, <3>1 DEF OpenAIItems
  <2>6. ClaudeItems(m) = b
    BY <1>2 DEF ClaudeItems
  <2> QED
    BY <2>3, <2>4, <2>5, <2>6
<1> QED
  BY <1>1, <1>2

(* Codex's leave out a call without a name.                                *)
LEMMA CodexItemsOf ==
    ASSUME NEW m \in Messages
    PROVE  ItemsOf(CodexItems(m), m)
<1>1. CASE ~HasCalls(m)
  BY <1>1, OtherItems DEF CodexItems
<1>2. CASE HasCalls(m)
  <2>1. m.calls \in Seq(ParsedCalls) /\ m.role = "assistant"
    BY <1>2 DEF Messages, HasCalls
  <2> DEFINE n == Len(m.calls)
             name(i) == ResolveCodexToolCall(m.calls[i])
             seqs == [i \in DOMAIN m.calls |->
                        IF name(i) # NoName THEN <<CallItem(m.calls[i].id, name(i))>> ELSE << >>]
  <2>2. n \in Nat /\ DOMAIN m.calls = 1..n
    BY <2>1
  <2>3. CodexItems(m) = FlattenSeq(seqs)
    BY <1>2 DEF CodexItems
  <2>4. ASSUME NEW i \in 1..n
        PROVE  /\ m.calls[i].id \in Ids
               /\ CallItem(m.calls[i].id, name(i)) \in Wire
               /\ CallItem(m.calls[i].id, name(i)).type = "call"
               /\ CallItem(m.calls[i].id, name(i)).id = m.calls[i].id
    <3>1. m.calls[i] \in ParsedCalls
      BY <2>1, <2>2
    <3>2. name(i) \in Calls /\ m.calls[i].id \in Ids
      BY <3>1 DEF ParsedCalls, ResolveCodexToolCall
    <3> HIDE DEF name
    <3> QED
      BY <3>2, ItemTypes
  <2>5. ASSUME NEW i \in 1..n
        PROVE  seqs[i] \in {<< >>, <<CallItem(m.calls[i].id, name(i))>>}
    BY <2>2
  <2>6. DOMAIN seqs = 1..n /\ seqs = [i \in 1..n |-> seqs[i]]
    BY <2>2
  <2> HIDE DEF seqs, name, n
  <2>7. ASSUME NEW i \in 1..n
        PROVE  /\ seqs[i] \in Seq(Wire)
               /\ \A k \in DOMAIN seqs[i] : /\ seqs[i][k] \in Wire /\ seqs[i][k].type = "call"
                                            /\ seqs[i][k].id = m.calls[i].id
    <3>1. CASE seqs[i] = << >>
      BY <3>1
    <3>2. CASE seqs[i] = <<CallItem(m.calls[i].id, name(i))>>
      BY <2>4, <3>2
    <3> QED
      BY <2>5, <3>1, <3>2
  <2>8. seqs \in [1..n -> Seq(Wire)]
    BY <2>6, <2>7
  <2>9. /\ FlattenSeq(seqs) \in Seq(Wire)
        /\ \A x : x \in ToSet(FlattenSeq(seqs)) <=> \E p \in 1..n : x \in ToSet(seqs[p])
    <3> DEFINE any == Wire \X Wire
    <3>1. \A p \in 1..n : \A i, j \in DOMAIN seqs[p] : i < j => <<seqs[p][i], seqs[p][j]>> \in any
      BY <2>7
    <3>2. \A p, q \in 1..n : p < q =>
             \A i \in DOMAIN seqs[p], j \in DOMAIN seqs[q] : <<seqs[p][i], seqs[q][j]>> \in any
      BY <2>7
    <3> HIDE DEF any
    <3> QED
      BY <2>2, <2>8, <3>1, <3>2, FlattenFacts
  <2>10. ASSUME NEW k \in DOMAIN FlattenSeq(seqs)
         PROVE  FlattenSeq(seqs)[k].type = "call" /\ IsCall(m, FlattenSeq(seqs)[k].id)
    <3>1. PICK p \in 1..n : FlattenSeq(seqs)[k] \in ToSet(seqs[p])
      BY <2>9 DEF ToSet
    <3>2. PICK l \in DOMAIN seqs[p] : FlattenSeq(seqs)[k] = seqs[p][l]
      BY <3>1 DEF ToSet
    <3> QED
      BY <1>2, <2>2, <2>7, <3>2 DEF IsCall
  <2> QED
    BY <2>1, <2>3, <2>9, <2>10 DEF ItemsOf
<1> QED
  BY <1>1, <1>2

(* So every conversion but Gemini's keeps the identities.                  *)
LEMMA ItemsFacts ==
    ASSUME NEW m \in Messages, NEW kind \in Structured
    PROVE  ItemsOf(Items(kind, m), m)
<1>1. kind \in {"http", "azure", "bedrock", "codex", "claude"}
  BY DEF Structured, StructuredKinds, HTTPKinds, SDKKinds
<1>2. Items(kind, m) \in {OpenAIItems(m), CodexItems(m), ClaudeItems(m)}
  BY <1>1 DEF Items, BedrockItems
<1> QED
  BY <1>2, NamedItems, CodexItemsOf

(* A request for settled messages holds the result of every call in it,    *)
(* once and after it.                                                      *)
LEMMA RequestIsAnswered ==
    ASSUME NEW ms, Settled(ms), NEW kind \in Structured,
           NEW i \in DOMAIN Request(kind, ms), Request(kind, ms)[i].type = "call"
    PROVE  LET items == Request(kind, ms)
           IN  \E j \in DOMAIN items : /\ j > i /\ items[j] = ResultItem(items[i].id)
                                       /\ \A k \in DOMAIN items : items[k] = items[j] => k = j
<1> DEFINE n == Len(ms)
           seqs == [p \in DOMAIN ms |-> Items(kind, ms[p])]
           items == Request(kind, ms)
<1>1. /\ ms \in Seq(Messages) /\ n \in Nat /\ DOMAIN ms = 1..n
      /\ \A p \in 1..n : ms[p] \in Messages
  BY DEF Settled
<1>2. items = FlattenSeq(seqs)
  BY DEF Request
<1>3. DOMAIN seqs = 1..n /\ seqs = [p \in 1..n |-> seqs[p]]
      /\ \A p \in 1..n : seqs[p] = Items(kind, ms[p])
  BY <1>1
<1> HIDE DEF seqs, n
<1>4. ASSUME NEW p \in 1..n
      PROVE  ItemsOf(seqs[p], ms[p])
  BY <1>1, <1>3, ItemsFacts
<1>5. seqs \in [1..n -> Seq(Wire)]
  BY <1>3, <1>4 DEF ItemsOf
<1>6. ASSUME NEW p \in 1..n, NEW x \in DOMAIN seqs[p], NEW y \in DOMAIN seqs[p], x < y
      PROVE  <<seqs[p][x], seqs[p][y]>> \in WireOrdered
  <2>1. seqs[p][x] \in Wire /\ seqs[p][y] \in Wire
    BY <1>4 DEF ItemsOf
  <2>2. ASSUME seqs[p][x].type = "result" PROVE FALSE
    <3>1. seqs[p] = <<ResultItem(ms[p].id)>>
      BY <1>4, <2>2 DEF ItemsOf, IsResult
    <3>2. x = 1 /\ y = 1
      BY <3>1
    <3> QED
      BY <1>6, <3>2
  <2> QED
    BY <2>1, <2>2 DEF WireOrdered
<1>7. ASSUME NEW p \in 1..n, NEW q \in 1..n, p < q,
             NEW x \in DOMAIN seqs[p], NEW y \in DOMAIN seqs[q]
      PROVE  <<seqs[p][x], seqs[q][y]>> \in WireOrdered
  <2> DEFINE a == seqs[p][x]
             b == seqs[q][y]
  <2>1. a \in Wire /\ b \in Wire
    BY <1>4 DEF ItemsOf
  <2>2. /\ a.type = "result" => IsResult(ms[p], a.id)
        /\ b.type = "call" => IsCall(ms[q], b.id)
        /\ b.type = "result" => IsResult(ms[q], b.id)
    BY <1>4 DEF ItemsOf
  <2>3. <<ms[p], ms[q]>> \in Ordered
    BY <1>1, <1>7 DEF Settled, InOrder
  <2> HIDE DEF a, b
  <2>4. a.type = "result" => ~(b.type \in {"call", "result"} /\ b.id = a.id)
    BY <2>2, <2>3 DEF Ordered, IsResult
  <2>5. <<a, b>> \in WireOrdered
    BY <2>1, <2>4 DEF WireOrdered
  <2> QED
    BY <2>5 DEF a, b
<1>8. /\ items \in Seq(Wire)
      /\ \A x : x \in ToSet(items) <=> \E p \in 1..n : x \in ToSet(seqs[p])
      /\ \A k, l \in DOMAIN items : k < l => <<items[k], items[l]>> \in WireOrdered
  BY <1>1, <1>2, <1>5, <1>6, <1>7, FlattenFacts
<1> HIDE DEF items
<1>9. i \in DOMAIN items /\ items[i].type = "call" /\ items[i] \in Wire
  BY <1>8 DEF items
<1> DEFINE id == items[i].id
<1>10. id \in Ids /\ Asks(ms, id)
  <2>1. id \in Ids
    BY <1>9, ItemTypes
  <2>2. PICK p \in 1..n : items[i] \in ToSet(seqs[p])
    BY <1>8, <1>9 DEF ToSet
  <2>3. PICK l \in DOMAIN seqs[p] : items[i] = seqs[p][l]
    BY <2>2 DEF ToSet
  <2>4. IsCall(ms[p], id)
    BY <1>4, <1>9, <2>3 DEF ItemsOf
  <2> QED
    BY <1>1, <2>1, <2>4 DEF Asks, ToSet
<1>11. PICK q \in 1..n : IsResult(ms[q], id)
  BY <1>1, <1>10 DEF Settled, Has, ToSet
<1>12. PICK j \in DOMAIN items : items[j] = ResultItem(id)
  <2>1. seqs[q] = <<ResultItem(id)>>
    BY <1>4, <1>11 DEF ItemsOf, IsResult
  <2>2. ResultItem(id) \in ToSet(seqs[q])
    BY <2>1 DEF ToSet
  <2> QED
    BY <1>8, <2>2 DEF ToSet
<1>13. items[j].type = "result" /\ items[j].id = id
  BY <1>10, <1>12, ItemTypes
<1>14. ASSUME NEW k \in DOMAIN items, NEW l \in DOMAIN items, k < l, items[k] = items[j]
       PROVE  items[l] # items[j] /\ l # i
  <2>1. <<items[k], items[l]>> \in WireOrdered
    BY <1>8, <1>14
  <2>2. ~(items[l].type \in {"call", "result"} /\ items[l].id = id)
    BY <1>13, <1>14, <2>1 DEF WireOrdered
  <2> QED
    BY <1>9, <1>13, <2>2
<1>15. i \in Nat /\ DOMAIN items \subseteq Nat
  BY <1>8, <1>9
<1>16. j > i
  <2>1. i # j
    BY <1>9, <1>13
  <2>2. ~(j < i)
    BY <1>9, <1>14
  <2> QED
    BY <1>15, <2>1, <2>2
<1>17. \A k \in DOMAIN items : items[k] = items[j] => k = j
  <2> SUFFICES ASSUME NEW k \in DOMAIN items, items[k] = items[j] PROVE k = j
    OBVIOUS
  <2>1. ~(k < j) /\ ~(j < k)
    BY <1>14
  <2> QED
    BY <1>15, <2>1
<1> QED
  BY <1>12, <1>16, <1>17 DEF items
-----------------------------------------------------------------------------
(* What the iterations of a turn leave in its messages.                    *)

Earlier(n, id) == \E k \in Nat, i \in Nat : k < n /\ id = ServiceId(k, i)

SettledBefore(ms, n) ==
    /\ Settled(ms)
    /\ \A id \in Ids : Asks(ms, id) \/ Has(ms, id) => Earlier(n, id)

\* The batch of iteration n is the message at p, and d of its calls have been answered.
Pending(ms, n, p, d) ==
    /\ ms \in Seq(Messages) /\ InOrder(ms)
    /\ p \in DOMAIN ms /\ HasCalls(ms[p]) /\ d \in 0..Len(ms[p].calls)
    /\ \A q \in DOMAIN ms : q > p => ~HasCalls(ms[q])
    /\ \A i \in DOMAIN ms[p].calls : ms[p].calls[i].id = ServiceId(n, i)
    /\ \A id \in Ids :
          /\ Asks(ms, id) => /\ Earlier(n + 1, id)
                             /\ \/ Has(ms, id)
                                \/ \E i \in (d + 1)..Len(ms[p].calls) : id = ServiceId(n, i)
          /\ Has(ms, id) => Earlier(n, id) \/ \E i \in 1..d : id = ServiceId(n, i)

(* Calls of an iteration are not earlier ones, but are before the next.    *)
LEMMA EarlierFacts ==
    ASSUME NEW n \in Nat
    PROVE  /\ \A i \in Nat : /\ ServiceId(n, i) \in Ids
                             /\ ~Earlier(n, ServiceId(n, i))
                             /\ Earlier(n + 1, ServiceId(n, i))
           /\ \A id : Earlier(n, id) => Earlier(n + 1, id)
<1>1. ASSUME NEW i \in Nat, Earlier(n, ServiceId(n, i)) PROVE FALSE
  <2>1. PICK k \in Nat, j \in Nat : k < n /\ ServiceId(n, i) = ServiceId(k, j)
    BY <1>1 DEF Earlier
  <2> QED
    BY <2>1, ServiceIds
<1>2. \A i \in Nat : Earlier(n + 1, ServiceId(n, i))
  BY DEF Earlier
<1>3. ASSUME NEW id, Earlier(n, id) PROVE Earlier(n + 1, id)
  <2>1. PICK k \in Nat, i \in Nat : k < n /\ id = ServiceId(k, i)
    BY <1>3 DEF Earlier
  <2>2. k < n + 1
    BY <2>1
  <2> QED
    BY <2>1, <2>2 DEF Earlier
<1>4. \A i \in Nat : ServiceId(n, i) \in Ids
  BY DEF Ids
<1> QED
  BY <1>1, <1>2, <1>3, <1>4

(* A batch is taken up.                                                    *)
LEMMA BatchBegins ==
    ASSUME NEW ms, NEW n \in Nat, SettledBefore(ms, n), NEW batch \in Seq(Calls), Len(batch) # 0,
           NEW ids, \A i \in DOMAIN batch : ids[i] = "own"
    PROVE  LET m == CallsMessage([i \in DOMAIN batch |-> ParsedCall(ids[i], n, i, batch[i])])
           IN  Pending(Append(ms, m), n, Len(ms) + 1, 0) /\ Len(m.calls) = Len(batch)
<1> DEFINE calls == [i \in DOMAIN batch |-> ParsedCall(ids[i], n, i, batch[i])]
           m == CallsMessage(calls)
           s == Append(ms, m)
           l == Len(batch)
<1>1. l \in Nat \ {0} /\ DOMAIN batch = 1..l
  OBVIOUS
<1>2. ASSUME NEW i \in 1..l
      PROVE  calls[i] \in ParsedCalls /\ calls[i].id = ServiceId(n, i)
  <2>1. calls[i] = [id |-> ServiceId(n, i), name |-> NoName, function |-> batch[i]]
    BY <1>1 DEF ParsedCall, CallId
  <2>2. ServiceId(n, i) \in Ids /\ batch[i] \in Calls
    BY <1>1, EarlierFacts
  <2> QED
    BY <2>1, <2>2 DEF ParsedCalls
<1>3. calls \in Seq(ParsedCalls) /\ Len(calls) = l /\ DOMAIN calls = 1..l /\ calls # << >>
  <2>1. calls \in [1..l -> ParsedCalls]
    BY <1>1, <1>2
  <2> HIDE DEF calls
  <2> QED
    BY <1>1, <2>1
<1> HIDE DEF calls
<1>4. m \in Messages /\ HasCalls(m) /\ m.calls = calls
  <2>1. NoId \in Ids
    BY DEF Ids
  <2> QED
    BY <1>3, <2>1 DEF CallsMessage, Messages, Roles, HasCalls
<1> HIDE DEF m
<1>5. \A id : IsCall(m, id) <=> \E i \in 1..l : id = ServiceId(n, i)
  BY <1>2, <1>3, <1>4 DEF IsCall
<1>6. \A id : ~IsResult(m, id)
  BY <1>4 DEF IsResult, HasCalls
<1>7. ms \in Seq(Messages) /\ InOrder(ms) /\ Len(ms) \in Nat /\ DOMAIN ms = 1..Len(ms)
  BY DEF SettledBefore, Settled
<1>8. \A id \in Ids : Has(ms, id) => ~IsCall(m, id) /\ ~IsResult(m, id)
  <2> SUFFICES ASSUME NEW id \in Ids, Has(ms, id), IsCall(m, id) PROVE FALSE
    BY <1>6
  <2>1. Earlier(n, id)
    BY DEF SettledBefore
  <2>2. PICK i \in 1..l : id = ServiceId(n, i)
    BY <1>5
  <2>3. ~Earlier(n, ServiceId(n, i))
    BY <1>1, EarlierFacts
  <2> QED
    BY <2>1, <2>2, <2>3, Zenon
<1>9. s \in Seq(Messages) /\ InOrder(s) /\ ToSet(s) = ToSet(ms) \cup {m}
  BY <1>4, <1>7, <1>8, AppendInOrder
<1>10. DOMAIN s = 1..(Len(ms) + 1) /\ s[Len(ms) + 1] = m
  BY <1>4, <1>7
<1> HIDE DEF s
<1>11. ASSUME NEW id \in Ids
       PROVE  /\ Asks(s, id) => /\ Earlier(n + 1, id)
                                /\ Has(s, id) \/ \E i \in 1..l : id = ServiceId(n, i)
              /\ Has(s, id) => Earlier(n, id)
  <2>1. Asks(s, id) <=> Asks(ms, id) \/ IsCall(m, id)
    BY <1>9 DEF Asks
  <2>2. Has(s, id) <=> Has(ms, id)
    BY <1>6, <1>9 DEF Has
  <2>3. IsCall(m, id) => /\ Earlier(n + 1, id)
                         /\ \E i \in 1..l : id = ServiceId(n, i)
    BY <1>5, EarlierFacts
  <2>4. Asks(ms, id) => Has(ms, id) /\ Earlier(n + 1, id)
    BY EarlierFacts DEF SettledBefore, Settled
  <2>5. Has(ms, id) => Earlier(n, id)
    BY DEF SettledBefore
  <2> QED
    BY <2>1, <2>2, <2>3, <2>4, <2>5
<1>12. Pending(s, n, Len(ms) + 1, 0)
  <2>1. Len(ms) + 1 \in DOMAIN s /\ \A q \in DOMAIN s : ~(q > Len(ms) + 1)
    BY <1>7, <1>10
  <2>2. 0 \in 0..l /\ (0 + 1)..l = 1..l
    BY <1>1
  <2>3. Len(m.calls) = l /\ DOMAIN m.calls = 1..l
    BY <1>3, <1>4
  <2>4. \A i \in DOMAIN m.calls : m.calls[i].id = ServiceId(n, i)
    BY <1>2, <1>3, <1>4
  <2> HIDE DEF l
  <2> QED
    BY <1>4, <1>9, <1>10, <1>11, <2>1, <2>2, <2>3, <2>4 DEF Pending
<1> QED
  BY <1>3, <1>4, <1>12 DEF s, m, calls

(* The next call of the batch is answered.                                 *)
LEMMA ResultFollows ==
    ASSUME NEW ms, NEW n \in Nat, NEW p, NEW d \in Nat, Pending(ms, n, p, d),
           d < Len(ms[p].calls)
    PROVE  Pending(Append(ms, ResultMessage(ServiceId(n, d + 1))), n, p, d + 1)
<1> DEFINE id0 == ServiceId(n, d + 1)
           m == ResultMessage(id0)
           s == Append(ms, m)
           l == Len(ms[p].calls)
<1>1. /\ ms \in Seq(Messages) /\ InOrder(ms) /\ Len(ms) \in Nat /\ DOMAIN ms = 1..Len(ms)
      /\ p \in 1..Len(ms) /\ ms[p] \in Messages
  BY DEF Pending
<1>2. l \in Nat /\ d + 1 \in Nat /\ d + 1 \in 0..l
  <2>1. ms[p].calls \in Seq(ParsedCalls)
    BY <1>1 DEF Messages
  <2> QED
    BY <2>1
<1>3. id0 \in Ids /\ ~Earlier(n, id0)
  BY <1>2, EarlierFacts
<1> HIDE DEF id0
<1>4. /\ m \in Messages /\ m.role = "tool" /\ ~HasCalls(m) /\ m.id = id0
      /\ \A id : ~IsCall(m, id) /\ (IsResult(m, id) <=> id = id0)
  <2>1. << >> \in Seq(ParsedCalls)
    OBVIOUS
  <2>2. m \in Messages /\ m.role = "tool" /\ m.id = id0
    BY <1>3, <2>1 DEF ResultMessage, Messages, Roles
  <2> HIDE DEF m
  <2> QED
    BY <2>2 DEF IsCall, IsResult, HasCalls
<1> HIDE DEF m
<1>5. ~Has(ms, id0)
  <2> SUFFICES ASSUME Has(ms, id0) PROVE FALSE
    OBVIOUS
  <2>1. PICK i \in 1..d : id0 = ServiceId(n, i)
    BY <1>3 DEF Pending
  <2> QED
    BY <1>2, <2>1, ServiceIds DEF id0
<1>6. s \in Seq(Messages) /\ InOrder(s) /\ ToSet(s) = ToSet(ms) \cup {m}
  BY <1>1, <1>4, <1>5, AppendInOrder
<1>7. /\ DOMAIN s = 1..(Len(ms) + 1) /\ s[Len(ms) + 1] = m
      /\ \A q \in 1..Len(ms) : s[q] = ms[q]
  BY <1>1, <1>4
<1> HIDE DEF s
<1>8. \A id : /\ Asks(s, id) <=> Asks(ms, id)
              /\ Has(s, id) <=> Has(ms, id) \/ id = id0
  BY <1>4, <1>6 DEF Asks, Has
<1>9. p \in DOMAIN s /\ s[p] = ms[p] /\ \A q \in DOMAIN s : q > p => ~HasCalls(s[q])
  <2>1. p \in DOMAIN s /\ s[p] = ms[p]
    BY <1>1, <1>7
  <2>2. \A q \in DOMAIN s : q = Len(ms) + 1 \/ q \in DOMAIN ms
    BY <1>1, <1>7
  <2> QED
    BY <1>1, <1>4, <1>7, <2>1, <2>2 DEF Pending
<1>10. ASSUME NEW id \in Ids
       PROVE  /\ Asks(s, id) => /\ Earlier(n + 1, id)
                                /\ \/ Has(s, id)
                                   \/ \E i \in (d + 1 + 1)..l : id = ServiceId(n, i)
              /\ Has(s, id) => Earlier(n, id) \/ \E i \in 1..(d + 1) : id = ServiceId(n, i)
  <2>1. Asks(ms, id) => /\ Earlier(n + 1, id)
                        /\ Has(ms, id) \/ \E i \in (d + 1)..l : id = ServiceId(n, i)
    BY DEF Pending
  <2>2. Has(ms, id) => Earlier(n, id) \/ \E i \in 1..d : id = ServiceId(n, i)
    BY DEF Pending
  <2>3. (d + 1)..l \subseteq {d + 1} \cup (d + 1 + 1)..l /\ 1..d \subseteq 1..(d + 1)
    BY <1>2
  <2>4. d + 1 \in 1..(d + 1)
    OBVIOUS
  <2>5. (\E i \in (d + 1)..l : id = ServiceId(n, i))
           => id = id0 \/ \E i \in (d + 1 + 1)..l : id = ServiceId(n, i)
    BY <2>3 DEF id0
  <2>6. id = id0 \/ (\E i \in 1..d : id = ServiceId(n, i))
           => \E i \in 1..(d + 1) : id = ServiceId(n, i)
    BY <2>3, <2>4 DEF id0
  <2> QED
    BY <1>8, <2>1, <2>2, <2>5, <2>6
<1>11. \A i \in DOMAIN s[p].calls : s[p].calls[i].id = ServiceId(n, i)
  BY <1>9 DEF Pending
<1>12. HasCalls(s[p])
  BY <1>9 DEF Pending
<1>13. Pending(s, n, p, d + 1)
  <2> HIDE DEF l
  <2>1. Len(s[p].calls) = l
    BY <1>9 DEF l
  <2> QED
    BY <1>2, <1>6, <1>9, <1>10, <1>11, <1>12, <2>1 DEF Pending
<1> QED
  BY <1>13 DEF s, m, id0

(* When all of them are, the messages are settled.                         *)
LEMMA BatchSettled ==
    ASSUME NEW ms, NEW n \in Nat, NEW p, Pending(ms, n, p, Len(ms[p].calls))
    PROVE  SettledBefore(ms, n + 1)
<1> DEFINE l == Len(ms[p].calls)
<1>1. l \in Nat /\ ms \in Seq(Messages) /\ InOrder(ms)
  <2>1. ms[p] \in Messages /\ ms \in Seq(Messages) /\ InOrder(ms)
    BY DEF Pending
  <2>2. ms[p].calls \in Seq(ParsedCalls)
    BY <2>1 DEF Messages
  <2> QED
    BY <2>1, <2>2
<1>2. ASSUME NEW id \in Ids
      PROVE  /\ Asks(ms, id) => Has(ms, id) /\ Earlier(n + 1, id)
             /\ Has(ms, id) => Earlier(n + 1, id)
  <2>1. Asks(ms, id) => /\ Earlier(n + 1, id)
                        /\ Has(ms, id) \/ \E i \in (l + 1)..l : id = ServiceId(n, i)
    BY DEF Pending
  <2>2. Has(ms, id) => Earlier(n, id) \/ \E i \in 1..l : id = ServiceId(n, i)
    BY DEF Pending
  <2>3. (l + 1)..l = {} /\ 1..l \subseteq Nat
    BY <1>1
  <2> HIDE DEF l
  <2> QED
    BY <2>1, <2>2, <2>3, EarlierFacts
<1> QED
  BY <1>1, <1>2 DEF SettledBefore, Settled

(* A warning may follow.                                                   *)
LEMMA WarningSettled ==
    ASSUME NEW ms, NEW n, SettledBefore(ms, n)
    PROVE  SettledBefore(Append(ms, Text("warning")), n)
<1> DEFINE m == Text("warning")
           s == Append(ms, m)
<1>1. m \in Messages /\ \A id : ~IsCall(m, id) /\ ~IsResult(m, id)
  BY TextSettled
<1> HIDE DEF m
<1>2. s \in Seq(Messages) /\ InOrder(s) /\ ToSet(s) = ToSet(ms) \cup {m}
  BY <1>1, AppendInOrder DEF SettledBefore, Settled
<1> HIDE DEF s
<1>3. \A id : (Asks(s, id) <=> Asks(ms, id)) /\ (Has(s, id) <=> Has(ms, id))
  BY <1>1, <1>2 DEF Asks, Has
<1>4. SettledBefore(s, n)
  BY <1>2, <1>3 DEF SettledBefore, Settled
<1> QED
  BY <1>4 DEF s, m

(* So are messages of users only.                                          *)
LEMMA UsersSettled ==
    ASSUME NEW n, NEW ms \in Seq({Text("user")})
    PROVE  SettledBefore(ms, n)
<1> DEFINE m == Text("user")
<1>1. m \in Messages /\ m.role = "user" /\ \A id : ~IsCall(m, id) /\ ~IsResult(m, id)
  BY TextSettled
<1>2. \A i \in DOMAIN ms : ms[i] = m
  OBVIOUS
<1> HIDE DEF m
<1>3. ms \in Seq(Messages)
  BY <1>1 DEF m
<1>4. InOrder(ms)
  BY <1>1, <1>2 DEF InOrder, Ordered
<1>5. \A id : ~Asks(ms, id) /\ ~Has(ms, id)
  BY <1>1, <1>2 DEF Asks, Has, ToSet
<1> QED
  BY <1>3, <1>4, <1>5 DEF SettledBefore, Settled
-----------------------------------------------------------------------------
(* The messages of the turns.                                              *)

\* The place of the batch that is being executed, and how many of its calls were answered.
Inside(t) ==
    \E p \in DOMAIN messages[t] :
        /\ Len(turn[t].left) <= Len(messages[t][p].calls)
        /\ Pending(messages[t], turn[t].iteration, p, Len(messages[t][p].calls) - Len(turn[t].left))

\* Outside of batches every call has its result, and the next calls will be new ones.
OnTheWire(t) ==
    /\ ~InBatch(t) => SettledBefore(messages[t], turn[t].iteration)
    /\ InBatch(t) => Inside(t)

WireInv ==
    /\ messages = [t \in Turns |-> messages[t]] /\ \A t \in Turns : turn[t].iteration \in Nat
    /\ CallsHaveIdentities => \A t \in Turns : OnTheWire(t)

(* No turn has messages at first.                                          *)
LEMMA WireInitially == Init => WireInv
<1> SUFFICES ASSUME Init PROVE WireInv
  OBVIOUS
<1>1. /\ NotStarted.iteration = 0 /\ Over.iteration = 0
      /\ NotStarted.at = "waiting" /\ Over.at = "done"
  BY DEF NotStarted, Over
<1>2. PICK crowd \in Crowds : turn = [t \in Turns |-> IF t \in crowd THEN NotStarted ELSE Over]
  BY DEF Init
<1>3. \A t \in Turns : messages[t] = << >> /\ turn[t].iteration \in Nat /\ ~InBatch(t)
  BY <1>1, <1>2 DEF Init, InBatch
<1>4. \A n : SettledBefore(<< >>, n)
  <2>1. << >> \in Seq({Text("user")})
    OBVIOUS
  <2> QED
    BY <2>1, UsersSettled
<1> QED
  BY <1>3, <1>4 DEF Init, WireInv, OnTheWire

(* A step of one turn that leaves the others' messages alone.              *)
LEMMA OthersOnTheWire ==
    ASSUME IInv, WireInv, NEW t \in Turns, NEW r, DOMAIN r = Fields, NEW ms,
           turn' = [turn EXCEPT ![t] = r], messages' = [messages EXCEPT ![t] = ms],
           UNCHANGED council, r.iteration \in Nat,
           CallsHaveIdentities => OnTheWire(t)'
    PROVE  WireInv'
<1>1. DOMAIN turn = Turns /\ DOMAIN messages = Turns
  BY DEF IInv, Shaped, WireInv
<1>2. /\ turn'[t] = r /\ messages'[t] = ms /\ messages' = [u \in Turns |-> messages'[u]]
      /\ \A u \in Turns \ {t} : turn'[u] = turn[u] /\ messages'[u] = messages[u]
  BY <1>1
<1>3. ASSUME CallsHaveIdentities, NEW u \in Turns \ {t} PROVE OnTheWire(u)'
  BY <1>2, <1>3 DEF WireInv, OnTheWire, InBatch, Inside
<1>4. CallsHaveIdentities' <=> CallsHaveIdentities
  BY DEF CallsHaveIdentities
<1> QED
  BY <1>2, <1>3, <1>4 DEF WireInv

(* Outside of batches, messages that are settled.                          *)
LEMMA WireOutside ==
    ASSUME IInv, WireInv, NEW t \in Turns, NEW r, DOMAIN r = Fields, NEW ms,
           turn' = [turn EXCEPT ![t] = r], messages' = [messages EXCEPT ![t] = ms],
           UNCHANGED council, r.iteration \in Nat, r.at \notin {"tools", "executing"},
           CallsHaveIdentities => SettledBefore(ms, r.iteration)
    PROVE  WireInv'
<1>1. turn'[t] = r /\ messages'[t] = ms
  BY DEF IInv, Shaped, WireInv
<1>2. CallsHaveIdentities => OnTheWire(t)'
  BY <1>1 DEF OnTheWire, InBatch
<1> QED
  BY <1>2, OthersOnTheWire

(* Nothing happens to the messages.                                        *)
LEMMA WireStays ==
    ASSUME IInv, WireInv, NEW t \in Turns, NEW r, DOMAIN r = Fields,
           turn' = [turn EXCEPT ![t] = r], UNCHANGED messages, UNCHANGED council,
           ~InBatch(t), r.at \notin {"tools", "executing"}, r.iteration = turn[t].iteration
    PROVE  WireInv'
<1>1. messages' = [messages EXCEPT ![t] = messages[t]]
  BY DEF WireInv
<1>2. /\ r.iteration \in Nat
      /\ CallsHaveIdentities => SettledBefore(messages[t], r.iteration)
  BY DEF WireInv, OnTheWire
<1> QED
  BY <1>1, <1>2, WireOutside

(* A turn that ends forgets them.                                          *)
LEMMA WireEnds ==
    ASSUME IInv, WireInv, NEW t \in Turns, End(t), UNCHANGED council
    PROVE  WireInv'
<1>1. DOMAIN Over = Fields /\ Over.at = "done" /\ Over.iteration = 0
  BY DEF NotStarted, Over, Fields
<1>2. << >> \in Seq({Text("user")})
  OBVIOUS
<1>3. SettledBefore(<< >>, Over.iteration)
  BY <1>2, UsersSettled
<1>4. turn' = [turn EXCEPT ![t] = Over] /\ messages' = [messages EXCEPT ![t] = << >>]
  BY DEF End
<1>5. Over.iteration \in Nat /\ Over.at \notin {"tools", "executing"}
  BY <1>1
<1> QED
  BY <1>1, <1>3, <1>4, <1>5, WireOutside

(* After an error the messages are as they were, or compressed.            *)
LEMMA WireAfterError ==
    ASSUME IInv, WireInv, NEW t \in Turns, ~InBatch(t), NEW words, AfterError(t, words),
           UNCHANGED council
    PROVE  WireInv'
<1>1. CASE Fail(t)
  BY <1>1, WireEnds DEF Fail
<1>2. ASSUME NEW tools, RetryWith(t, tools),
             messages' = messages \/ messages' = [messages EXCEPT ![t] = ForceCompression(@)]
      PROVE  WireInv'
  <2> DEFINE r == [turn[t] EXCEPT !.at = "cooldown", !.retry = turn[t].retry + 1,
                                  !.tools = tools,
                                  !.faults = IF turn[t].at = "skipped" THEN turn[t].faults
                                             ELSE turn[t].faults + 1]
  <2>1. turn' = [turn EXCEPT ![t] = r]
    BY <1>2 DEF RetryWith, IInv, Shaped
  <2>2. DOMAIN r = Fields /\ r.at = "cooldown" /\ r.iteration = turn[t].iteration
    BY DEF IInv, Shaped, Fields
  <2> HIDE DEF r
  <2>3. CASE messages' = messages
    BY <2>1, <2>2, <2>3, WireStays
  <2>4. CASE messages' = [messages EXCEPT ![t] = ForceCompression(@)]
    <3>1. messages' = [messages EXCEPT ![t] = ForceCompression(messages[t])]
      BY <2>4 DEF WireInv
    <3>2. r.iteration \in Nat
      BY <2>2 DEF WireInv
    <3>3. CallsHaveIdentities => SettledBefore(messages[t], r.iteration)
      BY <2>2 DEF WireInv, OnTheWire
    <3>4. CallsHaveIdentities => SettledBefore(ForceCompression(messages[t]), r.iteration)
      BY <3>3, CompressionSettled DEF SettledBefore
    <3> QED
      BY <2>1, <2>2, <3>1, <3>2, <3>4, WireOutside
  <2> QED
    BY <1>2, <2>3, <2>4
<1> QED
  BY <1>1, <1>2 DEF AfterError, localVars

(* The requests of a turn.                                                 *)
LEMMA RequestsOnTheWire ==
    ASSUME IInv, WireInv, Cooling, NEW t \in Turns,
           \/ Begin(t) \/ Command(t) \/ CheckCooldown(t) \/ ForgetCooldown(t)
           \/ SkipPrimary(t) \/ ChatFails(t) \/ ChatAnswers(t)
    PROVE  WireInv'
<1>0. DOMAIN turn = Turns /\ DOMAIN turn[t] = Fields /\ DOMAIN messages = Turns
  BY DEF IInv, Shaped, WireInv
<1>1. CASE Begin(t)
  <2> DEFINE ms == [i \in 1..OldMessages |-> Text("user")] \o <<Text("user")>>
  <2>1. /\ turn' = [turn EXCEPT ![t] = Iteration(turn[t], 1)]
        /\ messages' = [messages EXCEPT ![t] = ms]
    BY <1>0, <1>1 DEF Begin
  <2>2. /\ DOMAIN Iteration(turn[t], 1) = Fields /\ Iteration(turn[t], 1).at = "cooldown"
        /\ Iteration(turn[t], 1).iteration = 1
    BY <1>0 DEF Iteration, Fields
  <2>3. ms \in Seq({Text("user")})
    <3>1. [i \in 1..OldMessages |-> Text("user")] \in Seq({Text("user")})
      BY TurnAssumption
    <3> QED
      BY <3>1
  <2> HIDE DEF ms
  <2>4. SettledBefore(ms, 1)
    BY <2>3, UsersSettled
  <2> DEFINE r == Iteration(turn[t], 1)
  <2>5. /\ turn' = [turn EXCEPT ![t] = r] /\ DOMAIN r = Fields /\ r.iteration \in Nat
        /\ r.at \notin {"tools", "executing"} /\ SettledBefore(ms, r.iteration)
    BY <2>1, <2>2, <2>4
  <2> HIDE DEF r
  <2>6. UNCHANGED council
    BY <1>1 DEF Begin
  <2> QED
    BY <2>1, <2>5, <2>6, WireOutside
<1>2. ASSUME NEW at \in {"done", "skipped", "forget", "primary", "fallback"}, ~InBatch(t),
             turn' = [turn EXCEPT ![t].at = at], UNCHANGED messages, UNCHANGED council
      PROVE  WireInv'
  <2>1. turn' = [turn EXCEPT ![t] = [turn[t] EXCEPT !.at = at]]
    BY <1>0, <1>2
  <2>2. /\ DOMAIN [turn[t] EXCEPT !.at = at] = Fields
        /\ [turn[t] EXCEPT !.at = at].at = at
        /\ [turn[t] EXCEPT !.at = at].iteration = turn[t].iteration
    BY <1>0 DEF Fields
  <2> QED
    BY <1>2, <2>1, <2>2, WireStays
<1>3. CASE Command(t)
  BY <1>2, <1>3 DEF Command, InBatch, localVars
<1>4. CASE CheckCooldown(t) \/ ForgetCooldown(t)
  <2>1. turn[t].model \in Models /\ cooldown \in [Models -> {"none", "forever", "resting", "over"}]
    BY DEF Cooling
  <2>2. cooldown[turn[t].model] \in {"none", "forever", "resting", "over"}
    BY <2>1
  <2>3. PICK at \in {"skipped", "forget", "primary"} : turn' = [turn EXCEPT ![t].at = at]
    BY <1>4, <2>2 DEF CheckCooldown, ForgetCooldown
  <2> QED
    BY <1>2, <1>4, <2>3 DEF CheckCooldown, ForgetCooldown, InBatch, localVars
<1>5. CASE SkipPrimary(t)
  <2>1. CASE HasFallback(t)
    BY <1>2, <1>5, <2>1 DEF SkipPrimary, InBatch, localVars
  <2>2. CASE ~HasFallback(t)
    BY <1>5, <2>2, WireAfterError DEF SkipPrimary, InBatch
  <2> QED
    BY <2>1, <2>2
<1>6. CASE ChatFails(t)
  <2>1. PICK words : IF turn[t].at = "primary" /\ CouncilHelps(t, words)
                     THEN RecoverWithCouncil(t, words) ELSE AfterError(t, words)
    BY <1>6 DEF ChatFails
  <2>2. CASE RecoverWithCouncil(t, words)
    <3> DEFINE r == [turn[t] EXCEPT !.at = "fallback", !.faults = turn[t].faults + 1]
    <3>1. turn' = [turn EXCEPT ![t] = r]
      BY <1>0, <2>2 DEF RecoverWithCouncil
    <3>2. DOMAIN r = Fields /\ r.at = "fallback" /\ r.iteration = turn[t].iteration
      BY <1>0 DEF Fields
    <3> HIDE DEF r
    <3> QED
      BY <1>6, <2>2, <3>1, <3>2, WireStays DEF RecoverWithCouncil, ChatFails, InBatch, localVars
  <2>3. CASE AfterError(t, words)
    BY <1>6, <2>3, WireAfterError DEF ChatFails, InBatch
  <2> QED
    BY <2>1, <2>2, <2>3
<1>7. CASE ChatAnswers(t)
  BY <1>7, WireEnds DEF ChatAnswers, Finish
<1> QED
  BY <1>1, <1>3, <1>4, <1>5, <1>6, <1>7

(* A batch that is taken up has yet to be answered.                        *)
LEMMA CallsOnTheWire ==
    ASSUME IInv, WireInv, NEW t \in Turns, ChatCallsTools(t)
    PROVE  WireInv'
<1> DEFINE n == turn[t].iteration
           m(batch, ids) == CallsMessage([i \in DOMAIN batch |->
                                             ParsedCall(ids[i], n, i, batch[i])])
<1>0. PICK batch \in Batches[t] : \E ids \in [DOMAIN batch -> Identities(KindAsked(t))] :
         /\ turn' = [turn EXCEPT ![t].at = "tools", ![t].left = batch,
                         ![t].onlyTerminal = \A i \in DOMAIN batch : IsTerminalToolCall(batch[i]),
                         ![t].bootstrap = FALSE]
         /\ messages' = [messages EXCEPT ![t] = Append(@, m(batch, ids))]
  BY DEF ChatCallsTools
<1>1. PICK ids \in [DOMAIN batch -> Identities(KindAsked(t))] :
         /\ turn' = [turn EXCEPT ![t].at = "tools", ![t].left = batch,
                         ![t].onlyTerminal = \A i \in DOMAIN batch : IsTerminalToolCall(batch[i]),
                         ![t].bootstrap = FALSE]
         /\ messages' = [messages EXCEPT ![t] = Append(@, m(batch, ids))]
  BY <1>0
<1> DEFINE r == [turn[t] EXCEPT !.at = "tools", !.left = batch,
                     !.onlyTerminal = \A i \in DOMAIN batch : IsTerminalToolCall(batch[i]),
                     !.bootstrap = FALSE]
           ms == messages[t]
           s == Append(ms, m(batch, ids))
<1>2. batch \in Seq(Calls) /\ Len(batch) \in 1..MaxBatch /\ MaxBatch \in Nat
  BY TurnAssumption
<1>3. DOMAIN turn = Turns /\ DOMAIN turn[t] = Fields /\ DOMAIN messages = Turns /\ n \in Nat
  BY DEF IInv, Shaped, WireInv
<1>4. /\ turn' = [turn EXCEPT ![t] = r]
      /\ DOMAIN r = Fields /\ r.at = "tools" /\ r.left = batch /\ r.iteration = n
  BY <1>1, <1>3 DEF Fields
<1>5. messages' = [messages EXCEPT ![t] = s]
  BY <1>1, <1>3
<1> HIDE DEF r
<1>6. /\ UNCHANGED council /\ ~InBatch(t)
      /\ CallsHaveIdentities => Identities(KindAsked(t)) = {"own"}
  BY DEF ChatCallsTools, InBatch, CallsHaveIdentities, KindAsked
<1>7. ASSUME CallsHaveIdentities PROVE OnTheWire(t)'
  <2>1. SettledBefore(ms, n)
    BY <1>6, <1>7 DEF WireInv, OnTheWire
  <2>2. /\ batch \in Seq(Calls) /\ n \in Nat
        /\ Len(batch) # 0
        /\ \A i \in DOMAIN batch : ids[i] = "own"
    <3>1. Len(batch) # 0
      BY <1>2
    <3>2. ids \in [DOMAIN batch -> {"own"}]
      BY <1>6, <1>7, Zenon
    <3> QED
      BY <1>2, <1>3, <3>1, <3>2
  <2> HIDE DEF n
  <2>3. Pending(s, n, Len(ms) + 1, 0) /\ Len(m(batch, ids).calls) = Len(batch)
    BY <2>1, <2>2, BatchBegins, ZenonT(30)
  <2> HIDE DEF m
  <2>4. ms \in Seq(Messages)
    BY <2>1 DEF SettledBefore, Settled
  <2>5. Len(ms) + 1 \in DOMAIN s /\ s[Len(ms) + 1] = m(batch, ids)
    BY <2>4
  <2>6. Len(batch) - Len(batch) = 0 /\ Len(batch) <= Len(batch)
    BY <1>2
  <2>7. turn'[t] = r /\ messages'[t] = s
    BY <1>3, <1>4, <1>5
  <2> HIDE DEF s, n
  <2>8. Inside(t)'
    BY <1>4, <2>3, <2>5, <2>6, <2>7 DEF Inside
  <2> QED
    BY <1>4, <2>7, <2>8 DEF OnTheWire, InBatch
<1> QED
  BY <1>3, <1>4, <1>5, <1>6, <1>7, OthersOnTheWire

(* A call that is executed is still to be answered.                        *)
LEMMA ExecutesOnTheWire ==
    ASSUME IInv, WireInv, NEW t \in Turns, ExecuteTool(t)
    PROVE  WireInv'
<1> DEFINE r == [turn[t] EXCEPT !.at = "executing"]
<1>1. DOMAIN turn = Turns /\ DOMAIN turn[t] = Fields /\ DOMAIN messages = Turns /\ InBatch(t)
  BY DEF IInv, Shaped, WireInv, ExecuteTool, InBatch
<1>2. /\ turn' = [turn EXCEPT ![t] = r] /\ DOMAIN r = Fields /\ r.at = "executing"
      /\ r.left = turn[t].left /\ r.iteration = turn[t].iteration
  BY <1>1 DEF ExecuteTool, Fields
<1> HIDE DEF r
<1>3. messages' = [messages EXCEPT ![t] = messages[t]] /\ UNCHANGED council
  <2>1. messages' = messages /\ UNCHANGED council
    BY DEF ExecuteTool
  <2> QED
    BY <2>1 DEF WireInv
<1>4. turn'[t] = r /\ messages'[t] = messages[t]
  BY <1>1, <1>2, <1>3
<1>5. ASSUME CallsHaveIdentities PROVE OnTheWire(t)'
  <2>1. Inside(t)
    BY <1>1, <1>5 DEF WireInv, OnTheWire
  <2>2. Inside(t)'
    BY <1>2, <1>4, <2>1 DEF Inside
  <2> QED
    BY <1>2, <1>4, <2>2 DEF OnTheWire, InBatch
<1>6. r.iteration \in Nat
  BY <1>2 DEF WireInv
<1> QED
  BY <1>2, <1>3, <1>5, <1>6, OthersOnTheWire

(* The result that is appended is that of the first call left.             *)
LEMMA ResultIsOfTheNext ==
    ASSUME NEW t \in Turns, NEW p, NEW d \in Nat, Pending(messages[t], turn[t].iteration, p, d),
           d = Len(messages[t][p].calls) - Len(turn[t].left), Len(turn[t].left) \in Nat \ {0}
    PROVE  /\ ResultOf(t) = ResultMessage(ServiceId(turn[t].iteration, d + 1))
           /\ d < Len(messages[t][p].calls)
<1> DEFINE ms == messages[t]
           withCalls == {q \in DOMAIN ms : HasCalls(ms[q])}
           last == CHOOSE q \in withCalls : \A u \in withCalls : u <= q
<1>1. ms \in Seq(Messages) /\ DOMAIN ms = 1..Len(ms) /\ Len(ms) \in Nat /\ p \in DOMAIN ms
  BY DEF Pending
<1>2. p \in withCalls /\ \A u \in withCalls : u <= p
  BY <1>1 DEF Pending
<1>3. last = p
  <2>1. last \in withCalls /\ \A u \in withCalls : u <= last
    <3>1. \E q \in withCalls : \A u \in withCalls : u <= q
      BY <1>2
    <3> HIDE DEF withCalls
    <3> QED
      BY <3>1, Zenon
  <2>2. last <= p /\ p <= last
    BY <1>2, <2>1
  <2>3. last \in Nat /\ p \in Nat
    BY <1>1, <2>1
  <2> HIDE DEF last, withCalls
  <2> QED
    BY <2>2, <2>3
<1>4. ms[p].calls \in Seq(ParsedCalls) /\ Len(ms[p].calls) \in Nat
  <2>1. ms[p] \in Messages
    BY <1>1
  <2>2. ms[p].calls \in Seq(ParsedCalls)
    BY <2>1 DEF Messages
  <2> QED
    BY <2>2
<1>5. /\ d < Len(ms[p].calls) /\ d + 1 \in DOMAIN ms[p].calls
      /\ Len(ms[p].calls) - Len(turn[t].left) + 1 = d + 1
  <2> DEFINE l == Len(ms[p].calls)
             k == Len(turn[t].left)
  <2>1. DOMAIN ms[p].calls = 1..l
    BY <1>4
  <2>2. l \in Nat /\ k \in Nat \ {0} /\ d = l - k
    BY <1>4
  <2> HIDE DEF l, k
  <2>3. d \in Nat
    OBVIOUS
  <2>4. d < l /\ d + 1 \in 1..l /\ l - k + 1 = d + 1
    BY ONLY <2>2, <2>3
  <2> QED
    BY <2>1, <2>4 DEF l, k
<1>6. ms[p].calls[d + 1].id = ServiceId(turn[t].iteration, d + 1)
  BY <1>5 DEF Pending
<1>7. ResultOf(t) = ResultMessage(ms[last].calls[Len(ms[last].calls) - Len(turn[t].left) + 1].id)
  BY DEF ResultOf
<1> HIDE DEF last
<1> QED
  BY <1>3, <1>5, <1>6, <1>7

(* A call that returns has its result.                                     *)
LEMMA ReturnsOnTheWire ==
    ASSUME IInv, WireInv, NEW t \in Turns, ToolReturns(t)
    PROVE  WireInv'
<1> DEFINE r == [turn[t] EXCEPT !.at = "tools", !.left = Tail(turn[t].left),
                     !.bootstrap = turn[t].bootstrap
                                   \/ Head(turn[t].left) = "complete_bootstrap"]
           n == turn[t].iteration
           ms == messages[t]
           s == Append(ms, ResultOf(t))
<1>1. /\ DOMAIN turn = Turns /\ DOMAIN turn[t] = Fields /\ DOMAIN messages = Turns
      /\ turn[t].at = "executing" /\ InBatch(t) /\ n \in Nat
  BY DEF IInv, Shaped, WireInv, ToolReturns, InBatch
<1>2. /\ turn' = [turn EXCEPT ![t] = r] /\ DOMAIN r = Fields /\ r.at = "tools"
      /\ r.left = Tail(turn[t].left) /\ r.iteration = n
  BY <1>1 DEF ToolReturns, Fields
<1> HIDE DEF r
<1>3. messages' = [messages EXCEPT ![t] = s] /\ UNCHANGED council
  BY <1>1 DEF ToolReturns
<1>4. turn[t].left \in Seq(Calls) /\ turn[t].left # << >>
  BY <1>1 DEF IInv, Good, Informed, Below
<1>5. /\ Len(turn[t].left) \in Nat \ {0} /\ Len(Tail(turn[t].left)) = Len(turn[t].left) - 1
  BY <1>4
<1>6. turn'[t] = r /\ messages'[t] = s
  BY <1>1, <1>2, <1>3
<1>7. ASSUME CallsHaveIdentities PROVE OnTheWire(t)'
  <2>1. PICK p \in DOMAIN ms :
           /\ Len(turn[t].left) <= Len(ms[p].calls)
           /\ Pending(ms, n, p, Len(ms[p].calls) - Len(turn[t].left))
    BY <1>1, <1>7 DEF WireInv, OnTheWire, Inside
  <2> DEFINE l == Len(ms[p].calls)
             d == l - Len(turn[t].left)
  <2>2. ms \in Seq(Messages) /\ l \in Nat
    <3>1. ms \in Seq(Messages) /\ ms[p] \in Messages
      BY <2>1 DEF Pending
    <3>2. ms[p].calls \in Seq(ParsedCalls)
      BY <3>1 DEF Messages
    <3> QED
      BY <3>1, <3>2
  <2>3. d \in Nat /\ Pending(ms, n, p, d)
    <3>1. d \in Nat
      BY <1>5, <2>1, <2>2
    <3> QED
      BY <2>1, <3>1
  <2>4. ResultOf(t) = ResultMessage(ServiceId(n, d + 1)) /\ d < l
    BY <1>5, <2>3, ResultIsOfTheNext
  <2>5. Pending(s, n, p, d + 1)
    <3> HIDE DEF d
    <3> QED
      BY <1>1, <2>3, <2>4, ResultFollows
  <2>6. p \in DOMAIN s /\ s[p] = ms[p]
    <3> HIDE DEF s
    <3>1. s = Append(ms, ResultOf(t))
      BY DEF s
    <3>2. DOMAIN s = 1..(Len(ms) + 1) /\ DOMAIN ms = 1..Len(ms) /\ Len(ms) \in Nat
      BY <2>5, <2>2, <3>1 DEF Pending
    <3> QED
      BY <2>2, <3>1, <3>2
  <2>7. /\ Len(Tail(turn[t].left)) <= l
        /\ l - Len(Tail(turn[t].left)) = d + 1
    <3> DEFINE k == Len(turn[t].left)
               j == Len(Tail(turn[t].left))
    <3>1. k \in Nat \ {0} /\ j = k - 1 /\ k <= l /\ l \in Nat /\ d = l - k
      BY <1>5, <2>1, <2>2
    <3> HIDE DEF k, j, l, d
    <3>2. j <= l /\ l - j = d + 1
      BY <3>1
    <3> QED
      BY <3>2 DEF j
  <2> HIDE DEF s, n
  <2>8. Inside(t)'
    <3>1. messages'[t] = s /\ turn'[t].iteration = n /\ turn'[t].left = Tail(turn[t].left)
      BY <1>2, <1>6
    <3>2. Len(s[p].calls) = l
      BY <2>6
    <3> HIDE DEF d, l
    <3> QED
      BY <2>5, <2>6, <2>7, <3>1, <3>2 DEF Inside
  <2> QED
    BY <1>2, <1>6, <2>8 DEF OnTheWire, InBatch
<1> QED
  BY <1>1, <1>2, <1>3, <1>7, OthersOnTheWire

(* A batch that ends has been answered altogether.                         *)
LEMMA BatchEndsOnTheWire ==
    ASSUME IInv, WireInv, NEW t \in Turns, BatchEnds(t)
    PROVE  WireInv'
<1>1. /\ DOMAIN turn = Turns /\ DOMAIN turn[t] = Fields /\ DOMAIN messages = Turns
      /\ InBatch(t) /\ turn[t].left = << >> /\ UNCHANGED council /\ turn[t].iteration \in Nat
  BY DEF IInv, Shaped, WireInv, BatchEnds, InBatch
<1>2. CASE End(t)
  BY <1>1, <1>2, WireEnds
<1>3. ASSUME NEW severity, GoOn(t, severity) PROVE WireInv'
  <2> DEFINE n == turn[t].iteration
             r == Iteration(turn[t], n + 1)
             ms == messages[t]
             s == IF severity = LoopNone THEN ms ELSE Append(ms, Text("warning"))
  <2>1. turn' = [turn EXCEPT ![t] = r] /\ messages' = [messages EXCEPT ![t] = s]
    BY <1>1, <1>3 DEF GoOn
  <2>2. DOMAIN r = Fields /\ r.at = "cooldown" /\ r.iteration = n + 1
    BY <1>1 DEF Iteration, Fields
  <2>3. ASSUME CallsHaveIdentities PROVE SettledBefore(s, n + 1)
    <3>1. PICK p \in DOMAIN ms : Pending(ms, n, p, Len(ms[p].calls) - Len(turn[t].left))
      BY <1>1, <2>3 DEF WireInv, OnTheWire, Inside
    <3>2. Len(ms[p].calls) - Len(turn[t].left) = Len(ms[p].calls)
      <4>1. ms[p] \in Messages
        BY <3>1 DEF Pending
      <4>2. ms[p].calls \in Seq(ParsedCalls)
        BY <4>1 DEF Messages
      <4> QED
        BY <1>1, <4>2
    <3>3. Pending(ms, n, p, Len(ms[p].calls))
      BY <3>1, <3>2
    <3>4. SettledBefore(ms, n + 1)
      BY <1>1, <3>3, BatchSettled
    <3> QED
      BY <3>4, WarningSettled
  <2>4. /\ r.iteration \in Nat /\ r.at \notin {"tools", "executing"}
        /\ CallsHaveIdentities => SettledBefore(s, r.iteration)
    BY <1>1, <2>2, <2>3
  <2> HIDE DEF r, s
  <2> QED
    BY <1>1, <2>1, <2>2, <2>4, WireOutside
<1> QED
  BY <1>2, <1>3 DEF BatchEnds, Finish

(* WireInv is inductive.                                                   *)
LEMMA WireNext ==
    ASSUME IInv, Cooling, WireInv, [Next]_vars
    PROVE  WireInv'
<1>1. ASSUME NEW t \in Turns, TurnStep(t) PROVE WireInv'
  BY <1>1, RequestsOnTheWire, CallsOnTheWire, ExecutesOnTheWire, ReturnsOnTheWire,
     BatchEndsOnTheWire DEF TurnStep
<1>2. ASSUME UNCHANGED <<turn, messages, council>> PROVE WireInv'
  BY <1>2 DEF WireInv, CallsHaveIdentities, OnTheWire, InBatch, Inside
<1>3. ASSUME NEW t \in Turns, SubagentStep(t) PROVE WireInv'
  BY <1>2, <1>3 DEF SubagentStep, SubagentAsks, SubagentUsesTools, localVars
<1>4. ASSUME NEW m \in Models, CooldownExpires(m) PROVE WireInv'
  BY <1>2, <1>4 DEF CooldownExpires, localVars
<1>5. CASE UNCHANGED vars
  BY <1>2, <1>5 DEF vars, localVars
<1> QED
  BY <1>1, <1>3, <1>4, <1>5 DEF Next

(* Where the services give each call an identity of its own, whatever      *)
(* fails, is retried, warned of or compressed, and whichever conversion a  *)
(* provider uses, a request holds the result of every call in it, once and *)
(* after it.                                                               *)
THEOREM NoCallGoesOutUnanswered == Spec => []CallsAreAnsweredOnTheWire
<1>1. WireInv => CallsAreAnsweredOnTheWire
  <2> SUFFICES ASSUME WireInv, NEW t \in Turns, NEW kind \in StructuredKinds \ {"vertex"},
                      turn[t].at \in {"primary", "fallback"}, CallsHaveIdentities
               PROVE  LET items == Request(kind, messages[t]) IN
                      \A i \in DOMAIN items : items[i].type = "call" =>
                          \E j \in DOMAIN items :
                              /\ j > i /\ items[j] = ResultItem(items[i].id)
                              /\ \A k \in DOMAIN items : items[k] = items[j] => k = j
    BY DEF CallsAreAnsweredOnTheWire, EveryCallIsAnswered
  <2>1. Settled(messages[t]) /\ kind \in Structured
    BY DEF WireInv, OnTheWire, InBatch, SettledBefore, Structured
  <2> DEFINE items == Request(kind, messages[t])
  <2>2. ASSUME NEW i \in DOMAIN items, items[i].type = "call"
        PROVE  \E j \in DOMAIN items : /\ j > i /\ items[j] = ResultItem(items[i].id)
                                       /\ \A k \in DOMAIN items : items[k] = items[j] => k = j
    BY <2>1, <2>2, RequestIsAnswered
  <2> HIDE DEF items
  <2>3. \A i \in DOMAIN items : items[i].type = "call" =>
            \E j \in DOMAIN items : /\ j > i /\ items[j] = ResultItem(items[i].id)
                                    /\ \A k \in DOMAIN items : items[k] = items[j] => k = j
    BY <2>2
  <2> QED
    BY <2>3 DEF items
<1> QED
  BY <1>1, Initially, StepKeeps, CoolingInitially, CoolingKeeps, WireInitially, WireNext, PTL
  DEF Spec
=============================================================================
