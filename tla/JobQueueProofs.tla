--------------------------- MODULE JobQueueProofs ---------------------------
(***************************************************************************)
(* Proofs about JobQueue, for any number of jobs, loops, process deaths    *)
(* and failed writes.                                                      *)
(***************************************************************************)
EXTENDS JobQueue, TLAPS

(* NoJob, the contents of an unused key, is a job.                         *)
LEMMA NoJobType == NoJob \in Job
BY QueueAssumption DEF NoJob, Job, Statuses

(* NoLoop, the state of a loop that was not started, is a loop.            *)
LEMMA NoLoopType == NoLoop \in Loop
BY QueueAssumption DEF NoLoop, Loop

(* Enqueue's maxRetries is never zero or negative, whatever the caller     *)
(* passes.                                                                 *)
LEMMA RetriesPositive ==
    ASSUME NEW n \in Int
    PROVE  Retries(n) \in Nat /\ Retries(n) > 0
BY DEF Retries, DefaultRetries

(* NewQueue makes jobs of the jobs in the file.                            *)
LEMMA LoadType ==
    ASSUME NEW file \in [Keys -> Job]
    PROVE  Load(file) \in [Keys -> Job]
BY DEF Load, Job, Statuses

(* What processNext makes of a job is a job again.                         *)
LEMMA SettleType ==
    ASSUME NEW j \in Job, NEW ok \in BOOLEAN
    PROVE  Settle(j, ok) \in Job
BY DEF Settle, AfterFailure, Job, Statuses

(* save writes the jobs it is given, or leaves the file as it is.          *)
LEMMA SaveType ==
    ASSUME TypeOK, jobs' \in [Keys -> Job], Save(jobs')
    PROVE  disk' \in [Keys -> Job] /\ writeFaults' \in Nat
BY DEF Save, TypeOK

(* A loop that has returned is a loop still.                               *)
LEMMA GoneType ==
    ASSUME NEW loop \in Loop
    PROVE  Gone(loop) \in Loop /\ Gone(loop).phase = "gone"
BY DEF Gone, Loop

(* stopWithRunID keeps the types of what it changes.                       *)
LEMMA StopType ==
    ASSUME NEW id, NEW after \in [Runs -> Loop], running \in BOOLEAN,
           StopWithRunID(id, after)
    PROVE  runs' \in [Runs -> Loop] /\ running' \in BOOLEAN
<1>1. [after EXCEPT ![runID].stopped = TRUE] \in [Runs -> Loop]
  <2>1. \A loop \in Loop : [loop EXCEPT !.stopped = TRUE] \in Loop
    BY DEF Loop
  <2> QED
    BY <2>1
<1>2. runs' = after \/ runs' = [after EXCEPT ![runID].stopped = TRUE]
  BY DEF StopWithRunID
<1>3. running' \in BOOLEAN
  BY DEF StopWithRunID
<1> QED
  BY <1>1, <1>2, <1>3

(* The bounds are natural numbers.                                         *)
LEMMA BoundsType ==
    /\ MaxJobs \in Nat /\ MaxRuns \in Nat
    /\ MaxCrashes \in Nat /\ MaxWriteFaults \in Nat
    /\ Keys \subseteq Nat /\ Keys \subseteq 0..MaxJobs
    /\ Runs \subseteq Nat /\ Runs \subseteq 0..MaxRuns /\ 0 \notin Runs
    /\ 0 \in 0..MaxJobs /\ 0 \in 0..MaxRuns
BY QueueAssumption DEF Keys, Runs

-----------------------------------------------------------------------------
(* The initial state has the types.                                        *)
LEMMA InitType == Init => TypeOK
<1> SUFFICES ASSUME Init PROVE TypeOK
  OBVIOUS
<1>1. jobs \in [Keys -> Job] /\ disk \in [Keys -> Job]
  BY NoJobType DEF Init
<1>2. runs \in [Runs -> Loop]
  BY NoLoopType DEF Init
<1>3. runID \in 0..MaxRuns /\ calls \in [Keys -> Nat]
  BY BoundsType DEF Init
<1> QED
  BY <1>1, <1>2, <1>3 DEF Init, TypeOK

(* Every step of the queue, its loops, its callers and its environment     *)
(* keeps the types.                                                        *)
LEMMA NextType == TypeOK /\ [Next]_vars => TypeOK'
<1> SUFFICES ASSUME TypeOK, [Next]_vars PROVE TypeOK'
  OBVIOUS
<1>1. ASSUME NEW kind \in Kinds, RegisterHandler(kind) PROVE TypeOK'
  BY <1>1 DEF RegisterHandler, TypeOK, loopVars
<1>2. ASSUME NEW kind \in Kinds, NEW p \in Priorities, NEW n \in RetryChoices,
             NEW d \in DueChoices, Enqueue(kind, p, n, d)
      PROVE  TypeOK'
  <2>1. p \in Int /\ n \in Int /\ d \in BOOLEAN
    BY QueueAssumption
  <2>2. jobs' \in [Keys -> Job]
    BY <1>2, <2>1, RetriesPositive DEF Enqueue, TypeOK, Job, Statuses
  <2> QED
    BY <1>2, <2>2, SaveType DEF Enqueue, TypeOK, loopVars
<1>3. ASSUME NEW k \in Keys, ScheduledTimeComes(k) PROVE TypeOK'
  <2>1. jobs' \in [Keys -> Job] /\ disk' \in [Keys -> Job]
    <3>1. \A e \in Job : [e EXCEPT !.due = TRUE] \in Job
      BY DEF Job
    <3> QED
      BY <1>3, <3>1 DEF ScheduledTimeComes, TypeOK
  <2> QED
    BY <1>3, <2>1 DEF ScheduledTimeComes, TypeOK, loopVars
<1>4. ASSUME Start PROVE TypeOK'
  <2>1. runs' \in [Runs -> Loop]
    BY <1>4, NoLoopType DEF Start, TypeOK, Loop
  <2> QED
    BY <1>4, <2>1, BoundsType DEF Start, TypeOK
<1>5. ASSUME Stop PROVE TypeOK'
  <2>1. runs' \in [Runs -> Loop] /\ running' \in BOOLEAN
    BY <1>5, StopType DEF Stop, TypeOK
  <2> QED
    BY <1>5, <2>1 DEF Stop, TypeOK
<1>6. ASSUME NEW r \in Runs, TickerFires(r) PROVE TypeOK'
  <2>1. runs' \in [Runs -> Loop]
    <3>1. \A e \in Loop : [e EXCEPT !.tick = TRUE] \in Loop
      BY DEF Loop
    <3> QED
      BY <1>6, <3>1 DEF TickerFires, TypeOK
  <2> QED
    BY <1>6, <2>1 DEF TickerFires, TypeOK
<1>7. ASSUME NEW r \in Runs, ContextEnds(r) PROVE TypeOK'
  <2>1. runs' \in [Runs -> Loop]
    <3>1. \A e \in Loop : [e EXCEPT !.cancelled = TRUE] \in Loop
      BY DEF Loop
    <3> QED
      BY <1>7, <3>1 DEF ContextEnds, TypeOK
  <2> QED
    BY <1>7, <2>1 DEF ContextEnds, TypeOK
<1>8. ASSUME NEW r \in Runs, IdleTick(r) PROVE TypeOK'
  <2>1. runs' \in [Runs -> Loop]
    <3>1. \A e \in Loop : [e EXCEPT !.tick = FALSE] \in Loop
      BY DEF Loop
    <3> QED
      BY <1>8, <3>1 DEF IdleTick, TypeOK
  <2> QED
    BY <1>8, <2>1 DEF IdleTick, TypeOK
<1>9. ASSUME NEW r \in Runs, NEW k \in Keys, Claim(r, k) PROVE TypeOK'
  <2>1. jobs' \in [Keys -> Job] /\ calls' \in [Keys -> Nat]
    BY <1>9 DEF Claim, TypeOK, Job, Statuses
  <2>2. runs' \in [Runs -> Loop]
    BY <1>9, BoundsType DEF Claim, TypeOK, Loop
  <2> QED
    BY <1>9, <2>1, <2>2, SaveType DEF Claim, TypeOK
<1>10. ASSUME NEW r \in Runs, NEW ok \in BOOLEAN, HandlerReturns(r, ok)
       PROVE  TypeOK'
  <2>1. jobs' \in [Keys -> Job]
    BY <1>10, SettleType DEF HandlerReturns, TypeOK
  <2>2. runs' \in [Runs -> Loop]
    <3>1. [runs[r] EXCEPT !.phase = "polling", !.job = 0] \in Loop
      BY BoundsType DEF TypeOK, Loop
    <3> QED
      BY <1>10, <3>1 DEF HandlerReturns, TypeOK
  <2> QED
    BY <1>10, <2>1, <2>2, SaveType DEF HandlerReturns, TypeOK
<1>11. ASSUME NEW r \in Runs, LeaveOnStop(r) PROVE TypeOK'
  <2>1. runs' \in [Runs -> Loop]
    BY <1>11, GoneType DEF LeaveOnStop, TypeOK
  <2> QED
    BY <1>11, <2>1 DEF LeaveOnStop, TypeOK
<1>12. ASSUME NEW r \in Runs, LeaveOnCancel(r) PROVE TypeOK'
  <2>1. runs' \in [Runs -> Loop]
    BY <1>12 DEF LeaveOnCancel, TypeOK, Loop
  <2> QED
    BY <1>12, <2>1 DEF LeaveOnCancel, TypeOK
<1>13. ASSUME NEW r \in Runs, LoopStopsItself(r) PROVE TypeOK'
  <2>1. [runs EXCEPT ![r] = Gone(@)] \in [Runs -> Loop]
    BY GoneType DEF TypeOK
  <2>2. runs' \in [Runs -> Loop] /\ running' \in BOOLEAN
    <3>1. StopWithRunID(r, [runs EXCEPT ![r] = Gone(@)])
      BY <1>13 DEF LoopStopsItself
    <3>2. running \in BOOLEAN
      BY DEF TypeOK
    <3> QED
      BY <2>1, <3>1, <3>2, StopType
  <2> QED
    BY <1>13, <2>2 DEF LoopStopsItself, TypeOK
<1>14. ASSUME NEW k \in Keys, Purge(k) PROVE TypeOK'
  <2>1. jobs' \in [Keys -> Job]
    <3>1. \A j \in Keys : [jobs[j] EXCEPT !.status = "purged"] \in Job
      BY DEF TypeOK, Job, Statuses
    <3> QED
      BY <1>14, <3>1 DEF Purge, TypeOK
  <2> QED
    BY <1>14, <2>1, SaveType DEF Purge, TypeOK, loopVars
<1>15. ASSUME CrashAndRestart PROVE TypeOK'
  <2>1. jobs' \in [Keys -> Job]
    BY <1>15, LoadType DEF CrashAndRestart, TypeOK
  <2>2. runs' \in [Runs -> Loop]
    BY <1>15, NoLoopType DEF CrashAndRestart
  <2>3. runID' \in 0..MaxRuns
    BY <1>15, BoundsType DEF CrashAndRestart
  <2>4. /\ disk' \in [Keys -> Job] /\ nextKey' \in Nat
        /\ writeFaults' \in Nat /\ calls' \in [Keys -> Nat]
    BY <1>15 DEF CrashAndRestart, TypeOK
  <2>5. handlers' \subseteq Kinds /\ running' \in BOOLEAN
    BY <1>15 DEF CrashAndRestart
  <2>6. jobCounter' \in Nat
    BY <1>15 DEF CrashAndRestart
  <2>7. crashes' \in Nat
    BY <1>15 DEF CrashAndRestart, TypeOK
  <2> QED
    BY <2>1, <2>2, <2>3, <2>4, <2>5, <2>6, <2>7 DEF TypeOK
<1>16. ASSUME UNCHANGED vars PROVE TypeOK'
  BY <1>16 DEF vars, TypeOK
<1> QED
  BY <1>1, <1>2, <1>3, <1>4, <1>5, <1>6, <1>7, <1>8, <1>9, <1>10, <1>11,
     <1>12, <1>13, <1>14, <1>15, <1>16 DEF Next, LoopStep

(* The type invariant of the queue.                                        *)
THEOREM TypeCorrect == Spec => []TypeOK
BY InitType, NextType, PTL DEF Spec
-----------------------------------------------------------------------------
(* What the loops' records say of one another: they are started in order,  *)
(* only a loop in a handler works on a job, and only a loop whose context  *)
(* has ended is about to stop itself.                                      *)
LoopsInOrder ==
    \A r \in Runs :
        /\ runs[r].phase # "none" <=> r <= runID
        /\ runs[r].phase = "handling" => runs[r].job \in Keys
        /\ runs[r].phase = "leaving" => runs[r].cancelled

LoopInv == LoopsInOrder /\ OnlyTheCurrentLoopIsOpen

(* The loops' records in the initial state.                                *)
LEMMA InitLoops == Init => LoopInv
BY BoundsType DEF Init, LoopInv, LoopsInOrder, OnlyTheCurrentLoopIsOpen, NoLoop,
   Runs

(* A step of one loop that leaves its stopped flag alone, does not revive  *)
(* or finish it and keeps the rules about its job and its context, keeps   *)
(* the rules about all loops.                                              *)
LEMMA OneLoopMoves ==
    ASSUME TypeOK, LoopInv, NEW r \in Runs, NEW loop \in Loop,
           runs' = [runs EXCEPT ![r] = loop],
           running' = running, runID' = runID,
           loop.stopped = runs[r].stopped,
           loop.phase # "none", runs[r].phase # "none",
           loop.phase = "handling" => loop.job \in Keys,
           loop.phase = "leaving" => loop.cancelled
    PROVE  LoopInv'
<1>1. \A s \in Runs : runs'[s] = IF s = r THEN loop ELSE runs[s]
  BY DEF TypeOK
<1>2. LoopsInOrder'
  BY <1>1 DEF LoopInv, LoopsInOrder
<1>3. OnlyTheCurrentLoopIsOpen'
  BY <1>1 DEF LoopInv, OnlyTheCurrentLoopIsOpen
<1> QED
  BY <1>2, <1>3 DEF LoopInv

(* stopWithRunID, called when the loops are after: what the current loop   *)
(* must hear of it.                                                        *)
LEMMA LoopsStop ==
    ASSUME TypeOK, LoopInv, NEW id, NEW after \in [Runs -> Loop],
           StopWithRunID(id, after), runID' = runID,
           \A s \in Runs : /\ after[s].stopped = runs[s].stopped
                           /\ after[s].phase # "none" <=> runs[s].phase # "none"
                           /\ after[s].phase = "handling" => after[s].job \in Keys
                           /\ after[s].phase = "leaving" => after[s].cancelled
    PROVE  LoopInv'
<1>1. CASE running /\ (id = 0 \/ id = runID)
  <2>1. running' = FALSE /\ runs' = [after EXCEPT ![runID].stopped = TRUE]
    BY <1>1 DEF StopWithRunID
  <2>2. \A s \in Runs : /\ runs'[s].phase = after[s].phase
                        /\ runs'[s].job = after[s].job
                        /\ runs'[s].cancelled = after[s].cancelled
                        /\ runs'[s].stopped = (after[s].stopped \/ s = runID)
    BY <2>1 DEF Loop
  <2>3. LoopsInOrder'
    BY <2>2 DEF LoopInv, LoopsInOrder
  <2>4. OnlyTheCurrentLoopIsOpen'
    BY <2>1, <2>2 DEF LoopInv, OnlyTheCurrentLoopIsOpen
  <2> QED
    BY <2>3, <2>4 DEF LoopInv
<1>2. CASE ~(running /\ (id = 0 \/ id = runID))
  <2>1. running' = running /\ runs' = after
    BY <1>2 DEF StopWithRunID
  <2>2. LoopsInOrder'
    BY <2>1 DEF LoopInv, LoopsInOrder
  <2>3. OnlyTheCurrentLoopIsOpen'
    BY <2>1 DEF LoopInv, OnlyTheCurrentLoopIsOpen
  <2> QED
    BY <2>2, <2>3 DEF LoopInv
<1> QED
  BY <1>1, <1>2

(* Every step keeps the loops' records straight.                           *)
LEMMA NextLoops == TypeOK /\ LoopInv /\ [Next]_vars => LoopInv'
<1> SUFFICES ASSUME TypeOK, LoopInv, [Next]_vars PROVE LoopInv'
  OBVIOUS
<1>1. ASSUME UNCHANGED loopVars PROVE LoopInv'
  BY <1>1 DEF loopVars, LoopInv, LoopsInOrder, OnlyTheCurrentLoopIsOpen
<1>2. ASSUME Start PROVE LoopInv'
  <2>1. /\ running' = TRUE /\ runID' = runID + 1 /\ runID + 1 \in Runs
        /\ runID \in Int /\ ~running
    BY <1>2, BoundsType DEF Start, TypeOK
  <2>2. \A s \in Runs :
          runs'[s] = IF s = runID + 1 THEN [NoLoop EXCEPT !.phase = "polling"]
                     ELSE runs[s]
    BY <1>2 DEF Start, TypeOK
  <2>3. \A s \in Runs : s <= runID + 1 <=> s <= runID \/ s = runID + 1
    BY <2>1, BoundsType
  <2>4. LoopsInOrder'
    BY <2>1, <2>2, <2>3 DEF LoopInv, LoopsInOrder, NoLoop
  <2>5. OnlyTheCurrentLoopIsOpen'
    BY <2>1, <2>2 DEF LoopInv, OnlyTheCurrentLoopIsOpen, NoLoop
  <2> QED
    BY <2>4, <2>5 DEF LoopInv
<1>3. ASSUME Stop PROVE LoopInv'
  <2>1. StopWithRunID(0, runs) /\ runID' = runID
    BY <1>3 DEF Stop
  <2>2. runs \in [Runs -> Loop]
    BY DEF TypeOK
  <2> QED
    BY <2>1, <2>2, LoopsStop DEF LoopInv, LoopsInOrder
<1>4. ASSUME NEW r \in Runs, TickerFires(r) PROVE LoopInv'
  <2>1. runs[r].phase # "none"
    BY <1>4 DEF TickerFires, LoopInv, OnlyTheCurrentLoopIsOpen
  <2>2. [runs[r] EXCEPT !.tick = TRUE] \in Loop
    BY DEF TypeOK, Loop
  <2>3. runs' = [runs EXCEPT ![r] = [runs[r] EXCEPT !.tick = TRUE]]
    BY <1>4 DEF TickerFires
  <2> QED
    BY <1>4, <2>1, <2>2, <2>3, OneLoopMoves
    DEF TickerFires, LoopInv, LoopsInOrder, TypeOK, Loop
<1>5. ASSUME NEW r \in Runs, ContextEnds(r) PROVE LoopInv'
  <2>1. [runs[r] EXCEPT !.cancelled = TRUE] \in Loop
    BY DEF TypeOK, Loop
  <2>2. runs' = [runs EXCEPT ![r] = [runs[r] EXCEPT !.cancelled = TRUE]]
    BY <1>5 DEF ContextEnds
  <2> QED
    BY <1>5, <2>1, <2>2, OneLoopMoves
    DEF ContextEnds, LoopInv, LoopsInOrder, TypeOK, Loop
<1>6. ASSUME NEW r \in Runs, IdleTick(r) PROVE LoopInv'
  <2>1. [runs[r] EXCEPT !.tick = FALSE] \in Loop
    BY DEF TypeOK, Loop
  <2>2. runs' = [runs EXCEPT ![r] = [runs[r] EXCEPT !.tick = FALSE]]
    BY <1>6 DEF IdleTick
  <2> QED
    BY <1>6, <2>1, <2>2, OneLoopMoves
    DEF IdleTick, LoopInv, LoopsInOrder, TypeOK, Loop
<1>7. ASSUME NEW r \in Runs, NEW k \in Keys, Claim(r, k) PROVE LoopInv'
  <2> DEFINE loop == [runs[r] EXCEPT !.phase = "handling", !.tick = FALSE,
                                     !.job = k]
  <2>1. loop \in Loop
    BY BoundsType DEF TypeOK, Loop
  <2>2. runs' = [runs EXCEPT ![r] = loop]
    BY <1>7 DEF Claim
  <2>3. /\ loop.phase = "handling" /\ loop.job = k
        /\ loop.stopped = runs[r].stopped
    BY DEF TypeOK, Loop
  <2>4. runs[r].phase # "none" /\ running' = running /\ runID' = runID
    BY <1>7 DEF Claim
  <2> HIDE DEF loop
  <2> QED
    BY <2>1, <2>2, <2>3, <2>4, OneLoopMoves
<1>8. ASSUME NEW r \in Runs, NEW ok \in BOOLEAN, HandlerReturns(r, ok)
      PROVE  LoopInv'
  <2>1. [runs[r] EXCEPT !.phase = "polling", !.job = 0] \in Loop
    BY BoundsType DEF TypeOK, Loop
  <2>2. runs' = [runs EXCEPT ![r] = [runs[r] EXCEPT !.phase = "polling",
                                                    !.job = 0]]
    BY <1>8 DEF HandlerReturns
  <2> QED
    BY <1>8, <2>1, <2>2, OneLoopMoves DEF HandlerReturns, TypeOK, Loop
<1>9. ASSUME NEW r \in Runs, LeaveOnStop(r) PROVE LoopInv'
  <2>1. Gone(runs[r]) \in Loop
    BY GoneType DEF TypeOK
  <2>2. runs' = [runs EXCEPT ![r] = Gone(runs[r])]
    BY <1>9 DEF LeaveOnStop
  <2>3. /\ Gone(runs[r]).phase = "gone"
        /\ Gone(runs[r]).stopped = runs[r].stopped
    BY DEF Gone, TypeOK, Loop
  <2> QED
    BY <1>9, <2>1, <2>2, <2>3, OneLoopMoves DEF LeaveOnStop
<1>10. ASSUME NEW r \in Runs, LeaveOnCancel(r) PROVE LoopInv'
  <2>1. [runs[r] EXCEPT !.phase = "leaving"] \in Loop
    BY DEF TypeOK, Loop
  <2>2. runs' = [runs EXCEPT ![r] = [runs[r] EXCEPT !.phase = "leaving"]]
    BY <1>10 DEF LeaveOnCancel
  <2> QED
    BY <1>10, <2>1, <2>2, OneLoopMoves DEF LeaveOnCancel, TypeOK, Loop
<1>11. ASSUME NEW r \in Runs, LoopStopsItself(r) PROVE LoopInv'
  <2> DEFINE after == [runs EXCEPT ![r] = Gone(@)]
  <2>1. after \in [Runs -> Loop]
    BY GoneType DEF TypeOK
  <2>2. \A s \in Runs : after[s] = IF s = r THEN Gone(runs[r]) ELSE runs[s]
    BY DEF TypeOK
  <2>3. /\ Gone(runs[r]).phase = "gone"
        /\ Gone(runs[r]).stopped = runs[r].stopped
    BY DEF Gone, TypeOK, Loop
  <2>4. StopWithRunID(r, after) /\ runID' = runID /\ runs[r].phase = "leaving"
    BY <1>11 DEF LoopStopsItself
  <2>5. \A s \in Runs : /\ after[s].stopped = runs[s].stopped
                        /\ after[s].phase # "none" <=> runs[s].phase # "none"
                        /\ after[s].phase = "handling" => after[s].job \in Keys
                        /\ after[s].phase = "leaving" => after[s].cancelled
    BY <2>2, <2>3, <2>4 DEF LoopInv, LoopsInOrder
  <2> HIDE DEF after
  <2> QED
    BY <2>1, <2>4, <2>5, LoopsStop
<1>12. ASSUME CrashAndRestart PROVE LoopInv'
  <2>1. /\ running' = FALSE /\ runID' = 0 /\ \A s \in Runs : runs'[s] = NoLoop
    BY <1>12 DEF CrashAndRestart
  <2>2. \A s \in Runs : ~(s <= 0)
    BY BoundsType DEF Runs
  <2> QED
    BY <2>1, <2>2
    DEF LoopInv, LoopsInOrder, OnlyTheCurrentLoopIsOpen, NoLoop
<1> QED
  BY <1>1, <1>2, <1>3, <1>4, <1>5, <1>6, <1>7, <1>8, <1>9, <1>10, <1>11, <1>12
  DEF Next, LoopStep, vars, loopVars, RegisterHandler, Enqueue,
      ScheduledTimeComes, Purge

(* q.running and the loops agree, for any number of loops: exactly the     *)
(* current one is live while the queue is running.                         *)
THEOREM CurrentLoopOnly == Spec => []OnlyTheCurrentLoopIsOpen
<1>1. LoopInv => OnlyTheCurrentLoopIsOpen
  BY DEF LoopInv
<1> QED
  BY <1>1, TypeCorrect, InitLoops, NextLoops, PTL DEF Spec
-----------------------------------------------------------------------------
(* A loop is told to stop only by Stop or after the end of its own context,*)
(* whatever earlier loops do when they come to an end.                     *)
LEMMA NextRetires ==
    TypeOK /\ LoopInv /\ [Next]_vars
        => [\A r \in Runs : ~runs[r].stopped /\ runs'[r].stopped
                                => runs[r].cancelled \/ Stop]_vars
<1> SUFFICES ASSUME TypeOK, LoopInv, Next, NEW s \in Runs,
                    ~runs[s].stopped, runs'[s].stopped
             PROVE  runs[s].cancelled \/ Stop
  BY DEF vars
<1>1. ASSUME runs' = runs PROVE FALSE
  BY <1>1
<1>2. ASSUME NEW r \in Runs, NEW loop \in Loop, loop.stopped = runs[r].stopped,
             runs' = [runs EXCEPT ![r] = loop]
      PROVE  FALSE
  BY <1>2 DEF TypeOK
<1>3. ASSUME Start PROVE FALSE
  BY <1>3 DEF Start, TypeOK, NoLoop
<1>4. ASSUME NEW r \in Runs, TickerFires(r) PROVE FALSE
  BY <1>4 DEF TickerFires, TypeOK, Loop
<1>5. ASSUME NEW r \in Runs, ContextEnds(r) PROVE FALSE
  BY <1>5 DEF ContextEnds, TypeOK, Loop
<1>6. ASSUME NEW r \in Runs, IdleTick(r) PROVE FALSE
  BY <1>6 DEF IdleTick, TypeOK, Loop
<1>7. ASSUME NEW r \in Runs, NEW k \in Keys, Claim(r, k) PROVE FALSE
  BY <1>7 DEF Claim, TypeOK, Loop
<1>8. ASSUME NEW r \in Runs, NEW ok \in BOOLEAN, HandlerReturns(r, ok)
      PROVE  FALSE
  BY <1>8 DEF HandlerReturns, TypeOK, Loop
<1>9. ASSUME NEW r \in Runs, LeaveOnStop(r) PROVE FALSE
  BY <1>9 DEF LeaveOnStop, Gone, TypeOK, Loop
<1>10. ASSUME NEW r \in Runs, LeaveOnCancel(r) PROVE FALSE
  BY <1>10 DEF LeaveOnCancel, TypeOK, Loop
<1>11. ASSUME NEW r \in Runs, LoopStopsItself(r) PROVE runs[s].cancelled
  <2> DEFINE after == [runs EXCEPT ![r] = Gone(@)]
  <2>1. \A q \in Runs : after[q].stopped = runs[q].stopped
    BY DEF Gone, TypeOK, Loop
  <2>2. after \in [Runs -> Loop]
    BY GoneType DEF TypeOK
  <2>3. StopWithRunID(r, after) /\ runs[r].cancelled
    BY <1>11 DEF LoopStopsItself, LoopInv, LoopsInOrder
  <2> HIDE DEF after
  <2>4. runs' # after
    BY <2>1
  <2>5. r = runID /\ runs' = [after EXCEPT ![runID].stopped = TRUE]
    BY <2>3, <2>4, BoundsType DEF StopWithRunID
  <2>6. s = r
    BY <2>1, <2>2, <2>5 DEF Loop
  <2> QED
    BY <2>3, <2>6
<1>12. ASSUME CrashAndRestart PROVE FALSE
  BY <1>12 DEF CrashAndRestart, NoLoop
<1> QED
  BY <1>1, <1>3, <1>4, <1>5, <1>6, <1>7, <1>8, <1>9, <1>10, <1>11, <1>12
  DEF Next, LoopStep, loopVars, RegisterHandler, Enqueue, ScheduledTimeComes,
      Purge

(* The runID check: no loop retires its successor.                         *)
THEOREM NoLoopRetiresAnother == Spec => RetiredForAReason
BY TypeCorrect, InitLoops, NextLoops, NextRetires, PTL
   DEF Spec, RetiredForAReason

-----------------------------------------------------------------------------
(* A key that was not handed out yet has no job, no file entry and no call.*)
FreshKeys ==
    \A k \in Keys :
        k >= nextKey => jobs[k] = NoJob /\ disk[k] = NoJob /\ calls[k] = 0

RunInv == RunningIffHandled /\ FreshKeys

(* No job and no loop is at work in the initial state.                     *)
LEMMA InitRun == Init => RunInv
BY DEF Init, RunInv, RunningIffHandled, FreshKeys, Handles, NoJob, NoLoop

(* A step that starts and ends no handler and changes no job to or from    *)
(* running keeps the handlers exclusive.                                   *)
LEMMA NoHandlerMoves ==
    ASSUME RunningIffHandled,
           \A r \in Runs, k \in Keys : Handles(r, k)' <=> Handles(r, k),
           \A k \in Keys : jobs'[k].status = "running" <=> jobs[k].status = "running"
    PROVE  RunningIffHandled'
BY DEF RunningIffHandled

(* A step that touches no unused key keeps the unused keys fresh.          *)
LEMMA FreshKeysStay ==
    ASSUME TypeOK, FreshKeys, nextKey' \in Nat, nextKey' >= nextKey,
           \A k \in Keys : k >= nextKey' =>
               jobs'[k] = jobs[k] /\ disk'[k] \in {disk[k], jobs'[k]}
                   /\ calls'[k] = calls[k]
    PROVE  FreshKeys'
BY BoundsType DEF TypeOK, FreshKeys

(* A key that holds a job has been handed out.                             *)
LEMMA UsedKeys ==
    ASSUME TypeOK, FreshKeys, NEW k \in Keys, jobs[k].status # "none"
    PROVE  k < nextKey
BY BoundsType DEF TypeOK, FreshKeys, NoJob

(* Every step keeps handlers exclusive and unused keys fresh.              *)
LEMMA NextRun == TypeOK /\ LoopInv /\ RunInv /\ [Next]_vars => RunInv'
<1> SUFFICES ASSUME TypeOK, LoopInv, RunningIffHandled, FreshKeys, [Next]_vars
             PROVE  RunningIffHandled' /\ FreshKeys'
  BY DEF RunInv
<1>0. nextKey \in Nat
  BY DEF TypeOK
<1>1. ASSUME UNCHANGED <<jobs, disk, nextKey, calls>>,
             \A r \in Runs, k \in Keys : Handles(r, k)' <=> Handles(r, k)
      PROVE  RunningIffHandled' /\ FreshKeys'
  <2>1. RunningIffHandled'
    BY <1>1, NoHandlerMoves
  <2>2. FreshKeys'
    BY <1>1 DEF FreshKeys
  <2> QED
    BY <2>1, <2>2
<1>2. ASSUME NEW kind \in Kinds, NEW p \in Priorities, NEW n \in RetryChoices,
             NEW d \in DueChoices, Enqueue(kind, p, n, d)
      PROVE  RunningIffHandled' /\ FreshKeys'
  <2>1. \A k \in Keys : k # nextKey => jobs'[k] = jobs[k]
    BY <1>2 DEF Enqueue, TypeOK
  <2>2. jobs'[nextKey].status = "pending" /\ nextKey \in Keys
    BY <1>2 DEF Enqueue, TypeOK
  <2>3. jobs[nextKey].status = "none"
    <3>1. nextKey >= nextKey
      BY <1>0
    <3>2. jobs[nextKey] = NoJob
      BY <2>2, <3>1 DEF FreshKeys
    <3> QED
      BY <3>2 DEF NoJob
  <2>4. \A r \in Runs, k \in Keys : Handles(r, k)' <=> Handles(r, k)
    BY <1>2 DEF Enqueue, loopVars, Handles
  <2>5. RunningIffHandled'
    BY <2>1, <2>2, <2>3, <2>4, NoHandlerMoves
  <2>6. /\ nextKey' = nextKey + 1 /\ calls' = calls
        /\ disk' = jobs' \/ disk' = disk
    BY <1>2 DEF Enqueue, Save
  <2>7. FreshKeys'
    BY <1>0, <2>1, <2>6, FreshKeysStay, BoundsType
  <2> QED
    BY <2>5, <2>7
<1>3. ASSUME NEW k \in Keys, ScheduledTimeComes(k)
      PROVE  RunningIffHandled' /\ FreshKeys'
  <2>1. k < nextKey
    BY <1>3, UsedKeys DEF ScheduledTimeComes
  <2>2. \A j \in Keys : /\ j # k => jobs'[j] = jobs[j] /\ disk'[j] = disk[j]
                        /\ jobs'[j].status = jobs[j].status
    BY <1>3 DEF ScheduledTimeComes, TypeOK, Job
  <2>3. \A r \in Runs, j \in Keys : Handles(r, j)' <=> Handles(r, j)
    BY <1>3 DEF ScheduledTimeComes, loopVars, Handles
  <2>4. RunningIffHandled'
    BY <2>2, <2>3, NoHandlerMoves
  <2>5. nextKey' = nextKey /\ calls' = calls
    BY <1>3 DEF ScheduledTimeComes
  <2>6. FreshKeys'
    BY <1>0, <2>1, <2>2, <2>5, FreshKeysStay, BoundsType
  <2> QED
    BY <2>4, <2>6
<1>4. ASSUME Start PROVE RunningIffHandled' /\ FreshKeys'
  <2>1. \A s \in Runs : runs'[s] = IF s = runID + 1
                                   THEN [NoLoop EXCEPT !.phase = "polling"]
                                   ELSE runs[s]
    BY <1>4 DEF Start, TypeOK
  <2>2. runID + 1 \in Runs => runs[runID + 1].phase = "none"
    BY BoundsType DEF TypeOK, LoopInv, LoopsInOrder
  <2>3. \A r \in Runs, k \in Keys : Handles(r, k)' <=> Handles(r, k)
    BY <2>1, <2>2 DEF Handles, NoLoop
  <2> QED
    BY <1>1, <1>4, <2>3 DEF Start
<1>5. ASSUME NEW r \in Runs, NEW k \in Keys, Claim(r, k)
      PROVE  RunningIffHandled' /\ FreshKeys'
  <2>1. \A s \in Runs : runs'[s] = IF s = r
                                   THEN [runs[r] EXCEPT !.phase = "handling",
                                                        !.tick = FALSE, !.job = k]
                                   ELSE runs[s]
    BY <1>5 DEF Claim, TypeOK
  <2>2. \A s \in Runs, j \in Keys :
          Handles(s, j)' <=> IF s = r THEN j = k ELSE Handles(s, j)
    BY <2>1 DEF Handles, TypeOK, Loop
  <2>3. \A j \in Keys : j # k => jobs'[j] = jobs[j]
    BY <1>5 DEF Claim, TypeOK
  <2>4. jobs'[k].status = "running"
    BY <1>5 DEF Claim, TypeOK, Job
  <2>5. jobs[k].status = "pending" /\ runs[r].phase = "polling"
    BY <1>5 DEF Claim, IsNextPending, Candidates
  <2>6. \A s \in Runs : ~Handles(s, k)
    BY <2>5 DEF RunningIffHandled
  <2>7. \A j \in Keys : ~Handles(r, j)
    BY <2>5 DEF Handles
  <2>8. RunningIffHandled'
    BY <2>2, <2>3, <2>4, <2>6, <2>7 DEF RunningIffHandled
  <2>9. k < nextKey
    BY <2>5, UsedKeys
  <2>10. /\ nextKey' = nextKey /\ \A j \in Keys : j # k => calls'[j] = calls[j]
         /\ disk' = jobs' \/ disk' = disk
    BY <1>5 DEF Claim, Save, TypeOK
  <2>11. FreshKeys'
    BY <1>0, <2>3, <2>9, <2>10, FreshKeysStay, BoundsType
  <2> QED
    BY <2>8, <2>11
<1>6. ASSUME NEW r \in Runs, NEW ok \in BOOLEAN, HandlerReturns(r, ok)
      PROVE  RunningIffHandled' /\ FreshKeys'
  <2> DEFINE k == runs[r].job
  <2>1. k \in Keys /\ Handles(r, k)
    BY <1>6 DEF HandlerReturns, LoopInv, LoopsInOrder, Handles
  <2>2. jobs[k].status = "running"
    BY <2>1 DEF RunningIffHandled
  <2>3. \A s \in Runs : runs'[s] = IF s = r
                                   THEN [runs[r] EXCEPT !.phase = "polling",
                                                        !.job = 0]
                                   ELSE runs[s]
    BY <1>6 DEF HandlerReturns, TypeOK
  <2>4. \A s \in Runs, j \in Keys : Handles(s, j)' <=> s # r /\ Handles(s, j)
    BY <2>3 DEF Handles, TypeOK, Loop
  <2>5. \A j \in Keys : j # k => jobs'[j] = jobs[j]
    BY <1>6 DEF HandlerReturns, TypeOK
  <2>6. jobs'[k] = Settle(jobs[k], ok)
    BY <1>6, <2>1 DEF HandlerReturns, TypeOK
  <2>7. jobs'[k].status # "running"
    BY <2>1, <2>6 DEF Settle, AfterFailure, TypeOK, Job
  <2>8. \A s \in Runs : Handles(s, k) => s = r
    BY <2>1 DEF RunningIffHandled
  <2>9. \A j \in Keys : j # k => ~Handles(r, j)
    BY DEF Handles
  <2> HIDE DEF k
  <2>10. RunningIffHandled'
    BY <2>1, <2>4, <2>5, <2>7, <2>8, <2>9 DEF RunningIffHandled
  <2>11. k < nextKey
    BY <2>1, <2>2, UsedKeys
  <2>12. nextKey' = nextKey /\ calls' = calls /\ (disk' = jobs' \/ disk' = disk)
    BY <1>6 DEF HandlerReturns, Save
  <2>13. FreshKeys'
    BY <1>0, <2>5, <2>11, <2>12, FreshKeysStay, BoundsType
  <2> QED
    BY <2>10, <2>13
<1>7. ASSUME NEW cutoff \in Keys, Purge(cutoff)
      PROVE  RunningIffHandled' /\ FreshKeys'
  <2>1. \A j \in Keys :
          \/ jobs'[j] = jobs[j]
          \/ /\ jobs[j].status \in Finished
             /\ jobs'[j] = [jobs[j] EXCEPT !.status = "purged"]
    BY <1>7 DEF Purge
  <2>2. \A j \in Keys :
          jobs'[j].status = "running" <=> jobs[j].status = "running"
    BY <2>1 DEF Finished, TypeOK, Job
  <2>3. \A r \in Runs, j \in Keys : Handles(r, j)' <=> Handles(r, j)
    BY <1>7 DEF Purge, loopVars, Handles
  <2>4. RunningIffHandled'
    BY <2>2, <2>3, NoHandlerMoves
  <2>5. nextKey' = nextKey /\ calls' = calls /\ (disk' = jobs' \/ disk' = disk)
    BY <1>7 DEF Purge, Save
  <2>6. \A j \in Keys : jobs[j].status \in Finished => j < nextKey
    BY UsedKeys DEF Finished
  <2>7. \A j \in Keys : j >= nextKey => jobs'[j] = jobs[j]
    <3>1. \A j \in Keys : j >= nextKey => ~(j < nextKey)
      BY <1>0, BoundsType
    <3> QED
      BY <2>1, <2>6, <3>1
  <2>8. FreshKeys'
    BY <1>0, <2>5, <2>7, FreshKeysStay, BoundsType
  <2> QED
    BY <2>4, <2>8
<1>8. ASSUME CrashAndRestart PROVE RunningIffHandled' /\ FreshKeys'
  <2>1. jobs' = Load(disk) /\ \A s \in Runs : runs'[s] = NoLoop
    BY <1>8 DEF CrashAndRestart
  <2>2. \A k \in Keys : jobs'[k].status # "running"
    BY <2>1 DEF Load, TypeOK, Job
  <2>3. RunningIffHandled'
    BY <2>1, <2>2 DEF RunningIffHandled, Handles, NoLoop
  <2>4. disk' = disk /\ nextKey' = nextKey /\ calls' = calls
    BY <1>8 DEF CrashAndRestart
  <2>5. \A k \in Keys : k >= nextKey => jobs'[k] = NoJob
    BY <2>1 DEF Load, FreshKeys, NoJob
  <2>6. FreshKeys'
    BY <2>4, <2>5 DEF FreshKeys
  <2> QED
    BY <2>3, <2>6
<1>9. ASSUME NEW r \in Runs, NEW loop \in Loop, runs' = [runs EXCEPT ![r] = loop],
             runs[r].phase # "handling", loop.phase # "handling",
             UNCHANGED <<jobs, disk, nextKey, calls>>
      PROVE  RunningIffHandled' /\ FreshKeys'
  <2>1. \A s \in Runs, k \in Keys : Handles(s, k)' <=> Handles(s, k)
    BY <1>9 DEF Handles, TypeOK
  <2> QED
    BY <1>1, <1>9, <2>1
<1>10. ASSUME NEW r \in Runs, TickerFires(r) \/ ContextEnds(r) \/ IdleTick(r)
       PROVE  RunningIffHandled' /\ FreshKeys'
  <2>1. \A s \in Runs : /\ runs'[s].phase = runs[s].phase
                        /\ runs'[s].job = runs[s].job
    <3>1. \A e \in Loop, t \in BOOLEAN :
            /\ [e EXCEPT !.tick = t].phase = e.phase
            /\ [e EXCEPT !.tick = t].job = e.job
            /\ [e EXCEPT !.cancelled = t].phase = e.phase
            /\ [e EXCEPT !.cancelled = t].job = e.job
      BY DEF Loop
    <3>2. \A s \in Runs : /\ runs[s] \in Loop
                          /\ \E t \in BOOLEAN :
                               \/ runs'[s] = runs[s]
                               \/ runs'[s] = [runs[s] EXCEPT !.tick = t]
                               \/ runs'[s] = [runs[s] EXCEPT !.cancelled = t]
      BY <1>10 DEF TickerFires, ContextEnds, IdleTick, TypeOK
    <3> SUFFICES ASSUME NEW s \in Runs
                 PROVE  runs'[s].phase = runs[s].phase /\ runs'[s].job = runs[s].job
      OBVIOUS
    <3>3. CASE runs'[s] = runs[s]
      BY <3>3
    <3>4. CASE \E t \in BOOLEAN : runs'[s] = [runs[s] EXCEPT !.tick = t]
      BY <3>1, <3>2, <3>4
    <3>5. CASE \E t \in BOOLEAN : runs'[s] = [runs[s] EXCEPT !.cancelled = t]
      BY <3>1, <3>2, <3>5
    <3> QED
      BY <3>2, <3>3, <3>4, <3>5
  <2>2. \A s \in Runs, k \in Keys : Handles(s, k)' <=> Handles(s, k)
    BY <2>1 DEF Handles
  <2> QED
    BY <1>1, <1>10, <2>2 DEF TickerFires, ContextEnds, IdleTick
<1>11. ASSUME NEW r \in Runs, LeaveOnStop(r) PROVE RunningIffHandled' /\ FreshKeys'
  <2>1. Gone(runs[r]) \in Loop /\ Gone(runs[r]).phase = "gone"
    BY GoneType DEF TypeOK
  <2> QED
    BY <1>9, <1>11, <2>1 DEF LeaveOnStop
<1>12. ASSUME NEW r \in Runs, LeaveOnCancel(r)
       PROVE  RunningIffHandled' /\ FreshKeys'
  <2>1. /\ [runs[r] EXCEPT !.phase = "leaving"] \in Loop
        /\ [runs[r] EXCEPT !.phase = "leaving"].phase = "leaving"
    BY DEF TypeOK, Loop
  <2>2. runs' = [runs EXCEPT ![r] = [runs[r] EXCEPT !.phase = "leaving"]]
    BY <1>12 DEF LeaveOnCancel
  <2> QED
    BY <1>9, <1>12, <2>1, <2>2 DEF LeaveOnCancel
<1>13. ASSUME NEW after \in [Runs -> Loop], NEW id, StopWithRunID(id, after),
              \A s \in Runs : /\ after[s].phase = "handling" <=> runs[s].phase = "handling"
                              /\ after[s].phase = "handling" => after[s] = runs[s],
              UNCHANGED <<jobs, disk, nextKey, calls>>
       PROVE  RunningIffHandled' /\ FreshKeys'
  <2>1. runs' = after \/ runs' = [after EXCEPT ![runID].stopped = TRUE]
    BY <1>13 DEF StopWithRunID
  <2>2. \A s \in Runs : /\ runs'[s].phase = after[s].phase
                        /\ runs'[s].job = after[s].job
    BY <2>1 DEF Loop
  <2>3. \A s \in Runs, k \in Keys : Handles(s, k)' <=> Handles(s, k)
    BY <1>13, <2>2 DEF Handles
  <2> QED
    BY <1>1, <1>13, <2>3
<1>14. ASSUME Stop PROVE RunningIffHandled' /\ FreshKeys'
  <2>1. runs \in [Runs -> Loop]
    BY DEF TypeOK
  <2> QED
    BY <1>13, <1>14, <2>1 DEF Stop
<1>15. ASSUME NEW r \in Runs, LoopStopsItself(r)
       PROVE  RunningIffHandled' /\ FreshKeys'
  <2> DEFINE after == [runs EXCEPT ![r] = Gone(@)]
  <2>1. after \in [Runs -> Loop]
    BY GoneType DEF TypeOK
  <2>2. \A s \in Runs : after[s] = IF s = r THEN Gone(runs[r]) ELSE runs[s]
    BY DEF TypeOK
  <2>3. Gone(runs[r]).phase = "gone"
    BY DEF Gone, TypeOK, Loop
  <2>4. /\ StopWithRunID(r, after) /\ runs[r].phase = "leaving"
        /\ UNCHANGED <<jobs, disk, nextKey, calls>>
    BY <1>15 DEF LoopStopsItself
  <2> HIDE DEF after
  <2> QED
    BY <1>13, <2>1, <2>2, <2>3, <2>4
<1>16. ASSUME (\E kind \in Kinds : RegisterHandler(kind)) \/ UNCHANGED vars
       PROVE  RunningIffHandled' /\ FreshKeys'
  <2>1. \A s \in Runs, k \in Keys : Handles(s, k)' <=> Handles(s, k)
    BY <1>16 DEF RegisterHandler, vars, loopVars, Handles
  <2> QED
    BY <1>1, <1>16, <2>1 DEF RegisterHandler, vars
<1> QED
  BY <1>2, <1>3, <1>4, <1>5, <1>6, <1>7, <1>8, <1>10, <1>11, <1>12, <1>14, <1>15,
     <1>16 DEF Next, LoopStep

(* A job is marked running exactly while one loop of this process, and no  *)
(* other, is in its handler.                                               *)
THEOREM HandlersExclusive == Spec => []RunningIffHandled
<1>1. RunInv => RunningIffHandled
  BY DEF RunInv
<1> QED
  BY <1>1, TypeCorrect, InitLoops, NextLoops, InitRun, NextRun, PTL DEF Spec
-----------------------------------------------------------------------------
(* What the retry limit leaves room for, in memory and in the file, given  *)
(* the deaths so far: a job that can be claimed has an attempt to spend.   *)
Spent(j, deaths) ==
    j.status # "none" =>
        /\ j.attempts <= j.maxRetries + deaths
        /\ j.status = "pending" => j.attempts < j.maxRetries + deaths

RetryInv == \A k \in Keys : Spent(jobs[k], crashes) /\ Spent(disk[k], crashes)

(* More deaths leave more room.                                            *)
LEMMA SpentGrows ==
    ASSUME NEW j \in Job, NEW c \in Nat, NEW d \in Nat, c <= d, Spent(j, c)
    PROVE  Spent(j, d)
BY DEF Spent, Job

(* There are no jobs in the initial state.                                 *)
LEMMA InitRetries == Init => RetryInv
BY DEF Init, RetryInv, Spent, NoJob

(* A step that keeps to the limit in memory keeps to it in the file too.   *)
LEMMA RetriesSaved ==
    ASSUME RetryInv, crashes' = crashes,
           \A k \in Keys : Spent(jobs'[k], crashes),
           disk' = jobs' \/ disk' = disk
    PROVE  RetryInv'
BY DEF RetryInv

(* Every step keeps to the limit.                                          *)
LEMMA NextRetries ==
    TypeOK /\ LoopInv /\ RunInv /\ RetryInv /\ [Next]_vars => RetryInv'
<1> SUFFICES ASSUME TypeOK, LoopInv, RunInv, RetryInv, [Next]_vars
             PROVE  RetryInv'
  OBVIOUS
<1>0. crashes \in Nat
  BY DEF TypeOK
<1>1. ASSUME UNCHANGED <<jobs, disk, crashes>> PROVE RetryInv'
  BY <1>1 DEF RetryInv
<1>2. ASSUME NEW kind \in Kinds, NEW p \in Priorities, NEW n \in RetryChoices,
             NEW d \in DueChoices, Enqueue(kind, p, n, d)
      PROVE  RetryInv'
  <2>1. \A k \in Keys : k # nextKey => jobs'[k] = jobs[k]
    BY <1>2 DEF Enqueue, TypeOK
  <2>2. /\ nextKey \in Keys
        /\ jobs'[nextKey].attempts = 0
        /\ jobs'[nextKey].maxRetries = Retries(n)
    BY <1>2 DEF Enqueue, TypeOK
  <2>3. Retries(n) \in Nat /\ Retries(n) > 0
    BY QueueAssumption, RetriesPositive
  <2>4. Spent(jobs'[nextKey], crashes)
    BY <1>0, <2>2, <2>3 DEF Spent
  <2>5. \A k \in Keys : Spent(jobs'[k], crashes)
    BY <2>1, <2>4 DEF RetryInv
  <2> QED
    BY <1>2, <2>5, RetriesSaved DEF Enqueue, Save
<1>3. ASSUME NEW k \in Keys, ScheduledTimeComes(k) PROVE RetryInv'
  <2>1. \A j \in Keys :
          /\ jobs'[j].status = jobs[j].status /\ disk'[j].status = disk[j].status
          /\ jobs'[j].attempts = jobs[j].attempts
          /\ disk'[j].attempts = disk[j].attempts
          /\ jobs'[j].maxRetries = jobs[j].maxRetries
          /\ disk'[j].maxRetries = disk[j].maxRetries
    BY <1>3 DEF ScheduledTimeComes, TypeOK, Job
  <2>2. crashes' = crashes
    BY <1>3 DEF ScheduledTimeComes
  <2> QED
    BY <2>1, <2>2 DEF RetryInv, Spent
<1>4. ASSUME NEW r \in Runs, NEW k \in Keys, Claim(r, k) PROVE RetryInv'
  <2>1. \A j \in Keys : j # k => jobs'[j] = jobs[j]
    BY <1>4 DEF Claim, TypeOK
  <2>2. /\ jobs'[k].status = "running"
        /\ jobs'[k].attempts = jobs[k].attempts + 1
        /\ jobs'[k].maxRetries = jobs[k].maxRetries
    BY <1>4 DEF Claim, TypeOK, Job
  <2>3. jobs[k].status = "pending" /\ jobs[k] \in Job
    BY <1>4 DEF Claim, IsNextPending, Candidates, TypeOK
  <2>4. jobs[k].attempts < jobs[k].maxRetries + crashes
    BY <2>3 DEF RetryInv, Spent
  <2>5. Spent(jobs'[k], crashes)
    BY <1>0, <2>2, <2>3, <2>4 DEF Spent, Job
  <2>6. \A j \in Keys : Spent(jobs'[j], crashes)
    BY <2>1, <2>5 DEF RetryInv
  <2> QED
    BY <1>4, <2>6, RetriesSaved DEF Claim, Save
<1>5. ASSUME NEW r \in Runs, NEW ok \in BOOLEAN, HandlerReturns(r, ok)
      PROVE  RetryInv'
  <2> DEFINE k == runs[r].job
  <2>1. k \in Keys /\ jobs[k] \in Job
    BY <1>5 DEF HandlerReturns, LoopInv, LoopsInOrder, TypeOK
  <2>2. \A j \in Keys : j # k => jobs'[j] = jobs[j]
    BY <1>5 DEF HandlerReturns, TypeOK
  <2>3. jobs'[k] = Settle(jobs[k], ok)
    BY <1>5, <2>1 DEF HandlerReturns, TypeOK
  <2>4. jobs[k].status # "none"
    BY <1>5, <2>1 DEF HandlerReturns, RunInv, RunningIffHandled, Handles
  <2>5. Spent(jobs[k], crashes)
    BY <2>1 DEF RetryInv
  <2> HIDE DEF k
  <2>6. Spent(Settle(jobs[k], ok), crashes)
    BY <1>0, <2>1, <2>4, <2>5 DEF Spent, Settle, AfterFailure, Job
  <2>7. \A j \in Keys : Spent(jobs'[j], crashes)
    BY <2>2, <2>3, <2>6 DEF RetryInv
  <2> QED
    BY <1>5, <2>7, RetriesSaved DEF HandlerReturns, Save
<1>6. ASSUME NEW cutoff \in Keys, Purge(cutoff) PROVE RetryInv'
  <2>1. \A j \in Keys :
          \/ jobs'[j] = jobs[j]
          \/ /\ jobs[j].status \in Finished
             /\ jobs'[j] = [jobs[j] EXCEPT !.status = "purged"]
    BY <1>6 DEF Purge
  <2>2. ASSUME NEW j \in Keys, jobs[j].status \in Finished,
               jobs'[j] = [jobs[j] EXCEPT !.status = "purged"]
        PROVE  Spent(jobs'[j], crashes)
    <3>1. jobs[j] \in Job /\ Spent(jobs[j], crashes)
      BY DEF RetryInv, TypeOK
    <3>2. /\ jobs'[j].attempts = jobs[j].attempts
          /\ jobs'[j].maxRetries = jobs[j].maxRetries
          /\ jobs'[j].status = "purged"
      BY <2>2, <3>1 DEF Job
    <3> QED
      BY <2>2, <3>1, <3>2 DEF Spent, Finished
  <2>3. \A j \in Keys : Spent(jobs'[j], crashes)
    BY <2>1, <2>2 DEF RetryInv
  <2> QED
    BY <1>6, <2>3, RetriesSaved DEF Purge, Save
<1>7. ASSUME CrashAndRestart PROVE RetryInv'
  <2>1. jobs' = Load(disk) /\ disk' = disk /\ crashes' = crashes + 1
    BY <1>7 DEF CrashAndRestart
  <2>2. \A k \in Keys : disk[k] \in Job /\ Spent(disk[k], crashes)
    BY DEF RetryInv, TypeOK
  <2>3. \A k \in Keys : Spent(disk[k], crashes + 1)
    BY <1>0, <2>2, SpentGrows
  <2>4. \A k \in Keys :
          \/ jobs'[k] = disk[k]
          \/ /\ disk[k].status = "running"
             /\ jobs'[k] = [disk[k] EXCEPT !.status = "pending"]
    BY <2>1 DEF Load
  <2>5. ASSUME NEW k \in Keys, disk[k].status = "running",
               jobs'[k] = [disk[k] EXCEPT !.status = "pending"]
        PROVE  Spent(jobs'[k], crashes + 1)
    <3>0. disk[k] \in Job
      BY <2>2
    <3>1. disk[k].attempts \in Nat /\ disk[k].maxRetries \in Int
      BY <3>0 DEF Job
    <3>2. disk[k].attempts <= disk[k].maxRetries + crashes
      BY <2>2, <2>5 DEF Spent
    <3>3. /\ jobs'[k].attempts = disk[k].attempts
          /\ jobs'[k].maxRetries = disk[k].maxRetries
      BY <3>0, <2>5 DEF Job
    <3> QED
      BY <1>0, <3>1, <3>2, <3>3 DEF Spent
  <2> QED
    BY <2>1, <2>3, <2>4, <2>5 DEF RetryInv
<1> QED
  BY <1>1, <1>2, <1>3, <1>4, <1>5, <1>6, <1>7
  DEF Next, LoopStep, vars, RegisterHandler, Start, Stop, TickerFires,
      ContextEnds, IdleTick, LeaveOnStop, LeaveOnCancel, LoopStopsItself

(* MaxRetries, plus one for each death of the process, bounds the attempts *)
(* of every job.                                                           *)
THEOREM AttemptsStayBounded == Spec => []AttemptsBounded
<1>1. RetryInv => AttemptsBounded
  BY DEF RetryInv, Spent, AttemptsBounded
<1> QED
  BY <1>1, TypeCorrect, InitLoops, NextLoops, InitRun, NextRun, InitRetries,
     NextRetries, PTL DEF Spec
-----------------------------------------------------------------------------
(* Later(i, j): the record i of a job may become j, in one or more steps.  *)
Later(i, j) ==
    \/ i.status = j.status /\ i.attempts = j.attempts
    \/ i.status = "none"
    \/ /\ i.status \in {"pending", "running"}
       /\ j.status # "none" /\ j.attempts >= i.attempts
    \/ /\ i.status \in Finished
       /\ j.status = "purged" /\ j.attempts = i.attempts

(* Steps that only go forward go forward together.                         *)
LEMMA LaterTransitive ==
    ASSUME NEW i \in Job, NEW j \in Job, NEW k \in Job, Later(i, j), Later(j, k)
    PROVE  Later(i, k)
BY DEF Later, Job, Finished

(* What goes forward in memory goes forward in the ledger's terms.         *)
LEMMA LaterIsForward ==
    ASSUME NEW i \in Job, NEW j \in Job, Later(i, j)
    PROVE  Ledger!Forward([stage |-> StageOf(i.status), tries |-> i.attempts],
                          [stage |-> StageOf(j.status), tries |-> j.attempts])
<1> DEFINE e == [stage |-> StageOf(i.status), tries |-> i.attempts]
           f == [stage |-> StageOf(j.status), tries |-> j.attempts]
<1>1. CASE i.status = j.status /\ i.attempts = j.attempts
  <2>1. e = f
    BY <1>1
  <2> QED
    BY <2>1 DEF Ledger!Forward
<1>2. CASE i.status = "none"
  <2>1. e.stage = "absent"
    BY <1>2 DEF StageOf
  <2> QED
    BY <2>1 DEF Ledger!Forward
<1>3. CASE i.status \in {"pending", "running"} /\ j.status # "none"
             /\ j.attempts >= i.attempts
  <2>1. e.stage = "open" /\ f.tries >= e.tries
    BY <1>3 DEF StageOf
  <2>2. f.stage \in Ledger!Stages \ {"absent"}
    BY <1>3 DEF StageOf, Ledger!Stages, Job, Statuses
  <2> QED
    BY <2>1, <2>2 DEF Ledger!Forward
<1>4. CASE i.status \in Finished /\ j.status = "purged" /\ j.attempts = i.attempts
  <2>1. /\ e.stage \in {"done", "dead"} /\ f.stage = "purged"
        /\ f.tries = e.tries
    BY <1>4 DEF StageOf, Finished
  <2> QED
    BY <2>1 DEF Ledger!Forward
<1> QED
  BY <1>1, <1>2, <1>3, <1>4 DEF Later

(* The file never runs ahead of memory.                                    *)
Ahead == \A k \in Keys : Later(disk[k], jobs[k])

(* Memory and file agree in the initial state.                             *)
LEMMA InitAhead == Init => Ahead
BY DEF Init, Ahead, Later

(* What a step does to memory and file: memory goes forward and the file   *)
(* follows it at once or keeps its records; or memory goes back to the     *)
(* file, and the file stays.                                               *)
LEMMA NextForward ==
    ASSUME TypeOK, LoopInv, RunInv, [Next]_vars
    PROVE  \/ /\ \A k \in Keys : Later(jobs[k], jobs'[k])
              /\ \/ disk' = jobs'
                 \/ \A k \in Keys : /\ disk'[k].status = disk[k].status
                                    /\ disk'[k].attempts = disk[k].attempts
           \/ /\ disk' = disk
              /\ \A k \in Keys : Later(disk[k], jobs'[k])
<1> DEFINE Goal ==
      \/ /\ \A k \in Keys : Later(jobs[k], jobs'[k])
         /\ \/ disk' = jobs'
            \/ \A k \in Keys : /\ disk'[k].status = disk[k].status
                               /\ disk'[k].attempts = disk[k].attempts
      \/ /\ disk' = disk
         /\ \A k \in Keys : Later(disk[k], jobs'[k])
<1>1. ASSUME UNCHANGED <<jobs, disk>> PROVE Goal
  BY <1>1 DEF Later
<1>2. ASSUME NEW kind \in Kinds, NEW p \in Priorities, NEW n \in RetryChoices,
             NEW d \in DueChoices, Enqueue(kind, p, n, d)
      PROVE  Goal
  <2>1. \A k \in Keys : k # nextKey => jobs'[k] = jobs[k]
    BY <1>2 DEF Enqueue, TypeOK
  <2>2. nextKey \in Keys /\ nextKey >= nextKey
    BY <1>2 DEF Enqueue, TypeOK
  <2>3. jobs[nextKey].status = "none"
    <3>1. jobs[nextKey] = NoJob
      BY <2>2 DEF RunInv, FreshKeys
    <3> QED
      BY <3>1 DEF NoJob
  <2>4. \A k \in Keys : Later(jobs[k], jobs'[k])
    BY <2>1, <2>3 DEF Later
  <2> QED
    BY <1>2, <2>4 DEF Enqueue, Save
<1>3. ASSUME NEW k \in Keys, ScheduledTimeComes(k) PROVE Goal
  <2>1. \A j \in Keys :
          /\ jobs'[j].status = jobs[j].status /\ disk'[j].status = disk[j].status
          /\ jobs'[j].attempts = jobs[j].attempts
          /\ disk'[j].attempts = disk[j].attempts
    BY <1>3 DEF ScheduledTimeComes, TypeOK, Job
  <2> QED
    BY <2>1 DEF Later
<1>4. ASSUME NEW r \in Runs, NEW k \in Keys, Claim(r, k) PROVE Goal
  <2>1. \A j \in Keys : j # k => jobs'[j] = jobs[j]
    BY <1>4 DEF Claim, TypeOK
  <2>2. /\ jobs'[k].status = "running"
        /\ jobs'[k].attempts = jobs[k].attempts + 1
    BY <1>4 DEF Claim, TypeOK, Job
  <2>3. jobs[k].status = "pending" /\ jobs[k].attempts \in Nat
    BY <1>4 DEF Claim, IsNextPending, Candidates, TypeOK, Job
  <2>4. \A j \in Keys : Later(jobs[j], jobs'[j])
    BY <2>1, <2>2, <2>3 DEF Later
  <2> QED
    BY <1>4, <2>4 DEF Claim, Save
<1>5. ASSUME NEW r \in Runs, NEW ok \in BOOLEAN, HandlerReturns(r, ok) PROVE Goal
  <2> DEFINE k == runs[r].job
  <2>1. k \in Keys /\ jobs[k] \in Job
    BY <1>5 DEF HandlerReturns, LoopInv, LoopsInOrder, TypeOK
  <2>2. \A j \in Keys : j # k => jobs'[j] = jobs[j]
    BY <1>5 DEF HandlerReturns, TypeOK
  <2>3. jobs'[k] = Settle(jobs[k], ok)
    BY <1>5, <2>1 DEF HandlerReturns, TypeOK
  <2>4. jobs[k].status = "running"
    BY <1>5, <2>1 DEF HandlerReturns, RunInv, RunningIffHandled, Handles
  <2> HIDE DEF k
  <2>5. /\ Settle(jobs[k], ok).status # "none"
        /\ Settle(jobs[k], ok).attempts = jobs[k].attempts
    BY <2>1, <2>4 DEF Settle, AfterFailure, Job
  <2>6. jobs[k].attempts \in Nat
    BY <2>1 DEF Job
  <2>7. \A j \in Keys : Later(jobs[j], jobs'[j])
    BY <2>2, <2>3, <2>4, <2>5, <2>6 DEF Later
  <2> QED
    BY <1>5, <2>7 DEF HandlerReturns, Save
<1>6. ASSUME NEW cutoff \in Keys, Purge(cutoff) PROVE Goal
  <2>1. \A j \in Keys :
          \/ jobs'[j] = jobs[j]
          \/ /\ jobs[j].status \in Finished
             /\ jobs'[j] = [jobs[j] EXCEPT !.status = "purged"]
    BY <1>6 DEF Purge
  <2>2. ASSUME NEW j \in Keys, jobs[j].status \in Finished,
               jobs'[j] = [jobs[j] EXCEPT !.status = "purged"]
        PROVE  Later(jobs[j], jobs'[j])
    <3>1. jobs'[j].attempts = jobs[j].attempts /\ jobs'[j].status = "purged"
      BY <2>2 DEF TypeOK, Job
    <3> QED
      BY <2>2, <3>1 DEF Later
  <2>3. \A j \in Keys : jobs'[j] = jobs[j] => Later(jobs[j], jobs'[j])
    BY DEF Later
  <2>4. \A j \in Keys : Later(jobs[j], jobs'[j])
    BY <2>1, <2>2, <2>3
  <2> QED
    BY <1>6, <2>4 DEF Purge, Save
<1>7. ASSUME CrashAndRestart PROVE Goal
  <2>1. jobs' = Load(disk) /\ disk' = disk
    BY <1>7 DEF CrashAndRestart
  <2>2. \A k \in Keys :
          \/ jobs'[k] = disk[k]
          \/ /\ disk[k].status = "running"
             /\ jobs'[k] = [disk[k] EXCEPT !.status = "pending"]
    BY <2>1 DEF Load
  <2>3. ASSUME NEW k \in Keys, disk[k].status = "running",
               jobs'[k] = [disk[k] EXCEPT !.status = "pending"]
        PROVE  Later(disk[k], jobs'[k])
    <3>1. /\ jobs'[k].attempts = disk[k].attempts
          /\ jobs'[k].status = "pending" /\ disk[k].attempts \in Nat
      BY <2>3 DEF TypeOK, Job
    <3> QED
      BY <2>3, <3>1 DEF Later
  <2>4. \A k \in Keys : jobs'[k] = disk[k] => Later(disk[k], jobs'[k])
    BY DEF Later
  <2> QED
    BY <2>1, <2>2, <2>3, <2>4
<1> QED
  BY <1>1, <1>2, <1>3, <1>4, <1>5, <1>6, <1>7
  DEF Next, LoopStep, vars, RegisterHandler, Start, Stop, TickerFires,
      ContextEnds, IdleTick, LeaveOnStop, LeaveOnCancel, LoopStopsItself

(* No step lets the file run ahead, and each moves the file forward only.  *)
LEMMA NextAhead ==
    TypeOK /\ TypeOK' /\ LoopInv /\ RunInv /\ Ahead /\ [Next]_vars
        => Ahead' /\ \A k \in Keys : Later(disk[k], disk'[k])
<1> SUFFICES ASSUME TypeOK, TypeOK', LoopInv, RunInv, Ahead, [Next]_vars,
                    NEW k \in Keys
             PROVE  Later(disk'[k], jobs'[k]) /\ Later(disk[k], disk'[k])
  BY DEF Ahead
<1>1. jobs[k] \in Job /\ disk[k] \in Job /\ jobs'[k] \in Job /\ disk'[k] \in Job
  BY DEF TypeOK
<1>2. Later(disk[k], jobs[k])
  BY DEF Ahead
<1>3. ASSUME NEW i, NEW j, i.status = j.status, i.attempts = j.attempts
      PROVE  Later(i, j)
  BY <1>3 DEF Later
<1>4. CASE Later(jobs[k], jobs'[k]) /\ disk' = jobs'
  <2>1. Later(disk[k], jobs'[k])
    BY <1>1, <1>2, <1>4, LaterTransitive
  <2> QED
    BY <1>3, <1>4, <2>1
<1>5. CASE Later(jobs[k], jobs'[k]) /\ disk'[k].status = disk[k].status
             /\ disk'[k].attempts = disk[k].attempts
  <2>1. Later(disk[k], disk'[k]) /\ Later(disk'[k], disk[k])
    BY <1>3, <1>5
  <2>2. Later(disk'[k], jobs[k])
    BY <1>1, <1>2, <2>1, LaterTransitive
  <2> QED
    BY <1>1, <1>5, <2>1, <2>2, LaterTransitive
<1>6. CASE disk' = disk /\ Later(disk[k], jobs'[k])
  BY <1>3, <1>6
<1> QED
  BY <1>4, <1>5, <1>6, NextForward

(* The file's first contents are the ledger's.                             *)
LEMMA InitLedger == Init => Ledger!Init
BY DEF Init, Ledger!Init, LedgerView, StageOf, NoJob

(* Every step of the queue is a write of the ledger, or none.              *)
LEMMA NextLedger ==
    TypeOK /\ TypeOK' /\ LoopInv /\ RunInv /\ Ahead /\ [Next]_vars
        => [Ledger!Write]_(LedgerView(disk))
<1> SUFFICES ASSUME TypeOK, TypeOK', \A k \in Keys : Later(disk[k], disk'[k])
             PROVE  Ledger!Write
  BY NextAhead
<1>1. \A k \in Keys : /\ disk[k] \in Job /\ disk'[k] \in Job
                      /\ Later(disk[k], disk'[k])
  BY DEF TypeOK
<1>2. \A k \in Keys : Ledger!Forward(LedgerView(disk)[k], LedgerView(disk)'[k])
  BY <1>1, LaterIsForward DEF LedgerView
<1>3. \A j \in Job : StageOf(j.status) \in Ledger!Stages /\ j.attempts \in Nat
  BY DEF Job, Statuses, StageOf, Ledger!Stages
<1>4. LedgerView(disk)' \in [Keys -> Ledger!Entry]
  BY <1>1, <1>3 DEF LedgerView, Ledger!Entry
<1> QED
  BY <1>2, <1>4 DEF Ledger!Write

(* The persistent queue implements the ledger: whatever crashes and write  *)
(* errors do, a job's durable record only moves forward.                   *)
THEOREM QueueImplementsLedger == Spec => ImplementsLedger
BY TypeCorrect, InitLoops, NextLoops, InitRun, NextRun, InitAhead, NextAhead,
   InitLedger, NextLedger, PTL DEF Spec, ImplementsLedger, Ledger!Spec
-----------------------------------------------------------------------------
(* The calls of a job's handler are counted in memory and in the file, up  *)
(* to the writes that failed.                                              *)
CallsInv ==
    \A k \in Keys : /\ calls[k] <= jobs[k].attempts + writeFaults
                    /\ calls[k] <= disk[k].attempts + writeFaults

(* No handler was called in the initial state.                             *)
LEMMA InitCalls == Init => CallsInv
BY DEF Init, CallsInv, NoJob

(* A step that counts the calls it makes in memory counts them in the file *)
(* or has seen a write fail: a step makes one call of a handler at most.   *)
LEMMA CallsSaved ==
    ASSUME TypeOK, TypeOK', CallsInv, Save(jobs'),
           \A k \in Keys : /\ calls'[k] <= calls[k] + 1
                           /\ calls'[k] <= jobs'[k].attempts + writeFaults
    PROVE  CallsInv'
<1> SUFFICES ASSUME NEW k \in Keys
             PROVE  /\ calls'[k] <= jobs'[k].attempts + writeFaults'
                    /\ calls'[k] <= disk'[k].attempts + writeFaults'
  BY DEF CallsInv
<1>1. /\ calls[k] \in Nat /\ calls'[k] \in Nat /\ writeFaults \in Nat
      /\ jobs'[k].attempts \in Nat /\ disk[k].attempts \in Nat
  BY DEF TypeOK, Job
<1>2. /\ calls[k] <= disk[k].attempts + writeFaults
      /\ calls'[k] <= calls[k] + 1
      /\ calls'[k] <= jobs'[k].attempts + writeFaults
  BY DEF CallsInv
<1>3. CASE disk' = jobs' /\ writeFaults' = writeFaults
  BY <1>2, <1>3
<1>4. CASE disk' = disk /\ writeFaults' = writeFaults + 1
  BY <1>1, <1>2, <1>4
<1> QED
  BY <1>3, <1>4 DEF Save

(* Every step keeps the calls counted.                                     *)
LEMMA NextCalls ==
    TypeOK /\ TypeOK' /\ LoopInv /\ RunInv /\ CallsInv /\ [Next]_vars => CallsInv'
<1> SUFFICES ASSUME TypeOK, TypeOK', LoopInv, RunInv, CallsInv, [Next]_vars
             PROVE  CallsInv'
  OBVIOUS
<1>0. \A k \in Keys : /\ calls[k] \in Nat /\ writeFaults \in Nat
                      /\ jobs[k] \in Job /\ jobs[k].attempts \in Nat
                      /\ calls[k] <= jobs[k].attempts + writeFaults
  BY DEF TypeOK, Job, CallsInv
<1>1. ASSUME UNCHANGED <<jobs, disk, writeFaults, calls>> PROVE CallsInv'
  BY <1>1 DEF CallsInv
<1>2. ASSUME calls' = calls, Save(jobs'),
             \A k \in Keys : jobs'[k].attempts = jobs[k].attempts
      PROVE  CallsInv'
  <2>1. \A k \in Keys : /\ calls'[k] <= calls[k] + 1
                        /\ calls'[k] <= jobs'[k].attempts + writeFaults
    BY <1>0, <1>2
  <2> QED
    BY <1>2, <2>1, CallsSaved
<1>3. ASSUME NEW kind \in Kinds, NEW p \in Priorities, NEW n \in RetryChoices,
             NEW d \in DueChoices, Enqueue(kind, p, n, d)
      PROVE  CallsInv'
  <2>1. nextKey \in Keys /\ nextKey >= nextKey
    BY <1>3 DEF Enqueue, TypeOK
  <2>2. jobs[nextKey].attempts = 0
    <3>1. jobs[nextKey] = NoJob
      BY <2>1 DEF RunInv, FreshKeys
    <3> QED
      BY <3>1 DEF NoJob
  <2>3. \A k \in Keys : jobs'[k].attempts = jobs[k].attempts
    BY <1>3, <2>1, <2>2 DEF Enqueue, TypeOK
  <2> QED
    BY <1>2, <1>3, <2>3 DEF Enqueue
<1>4. ASSUME NEW k \in Keys, ScheduledTimeComes(k) PROVE CallsInv'
  <2>1. \A j \in Keys : /\ jobs'[j].attempts = jobs[j].attempts
                        /\ disk'[j].attempts = disk[j].attempts
    BY <1>4 DEF ScheduledTimeComes, TypeOK, Job
  <2>2. calls' = calls /\ writeFaults' = writeFaults
    BY <1>4 DEF ScheduledTimeComes
  <2> QED
    BY <2>1, <2>2 DEF CallsInv
<1>5. ASSUME NEW r \in Runs, NEW k \in Keys, Claim(r, k) PROVE CallsInv'
  <2>1. \A j \in Keys : j # k => jobs'[j] = jobs[j] /\ calls'[j] = calls[j]
    BY <1>5 DEF Claim, TypeOK
  <2>2. /\ jobs'[k].attempts = jobs[k].attempts + 1
        /\ calls'[k] = calls[k] + 1
    BY <1>5 DEF Claim, TypeOK, Job
  <2>3. \A j \in Keys : /\ calls'[j] <= calls[j] + 1
                        /\ calls'[j] <= jobs'[j].attempts + writeFaults
    BY <1>0, <2>1, <2>2
  <2> QED
    BY <1>5, <2>3, CallsSaved DEF Claim
<1>6. ASSUME NEW r \in Runs, NEW ok \in BOOLEAN, HandlerReturns(r, ok)
      PROVE  CallsInv'
  <2>1. \A j \in Job : Settle(j, ok).attempts = j.attempts
    BY DEF Settle, AfterFailure, Job
  <2>2. \A j \in Keys : \/ jobs'[j] = jobs[j]
                        \/ jobs'[j] = Settle(jobs[j], ok)
    BY <1>6 DEF HandlerReturns, TypeOK
  <2>3. \A j \in Keys : jobs'[j].attempts = jobs[j].attempts
    BY <1>0, <2>1, <2>2
  <2> QED
    BY <1>2, <1>6, <2>3 DEF HandlerReturns
<1>7. ASSUME NEW cutoff \in Keys, Purge(cutoff) PROVE CallsInv'
  <2>1. \A j \in Keys : jobs'[j].attempts = jobs[j].attempts
    BY <1>7 DEF Purge, TypeOK, Job
  <2> QED
    BY <1>2, <1>7, <2>1 DEF Purge, loopVars
<1>8. ASSUME CrashAndRestart PROVE CallsInv'
  <2>1. /\ jobs' = Load(disk) /\ disk' = disk
        /\ calls' = calls /\ writeFaults' = writeFaults
    BY <1>8 DEF CrashAndRestart
  <2>2. \A k \in Keys : jobs'[k].attempts = disk[k].attempts
    BY <2>1 DEF Load, TypeOK, Job
  <2> QED
    BY <2>1, <2>2 DEF CallsInv
<1> QED
  BY <1>1, <1>3, <1>4, <1>5, <1>6, <1>7, <1>8
  DEF Next, LoopStep, vars, RegisterHandler, Start, Stop, TickerFires,
      ContextEnds, IdleTick, LeaveOnStop, LeaveOnCancel, LoopStopsItself

(* Every invocation of a handler is in the job's count of attempts, unless *)
(* a write of the file failed.                                             *)
THEOREM CallsAreCounted == Spec => []EveryCallIsCounted
<1>1. CallsInv => EveryCallIsCounted
  BY DEF CallsInv, EveryCallIsCounted
<1> QED
  BY <1>1, TypeCorrect, InitLoops, NextLoops, InitRun, NextRun, InitCalls,
     NextCalls, PTL DEF Spec
=============================================================================
