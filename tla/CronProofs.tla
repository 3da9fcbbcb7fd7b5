------------------------------ MODULE CronProofs ------------------------------
(***************************************************************************)
(* Proofs about the scheduler: for any number of jobs, of loops, and of    *)
(* disturbances.                                                           *)
(***************************************************************************)
EXTENDS CronService, FiniteSetTheorems, WellFoundedInduction, TLAPS
-----------------------------------------------------------------------------
(***************************************************************************)
(* A list of jobs, in memory or in the file: a job that is not in it has   *)
(* left nothing behind.                                                    *)
(***************************************************************************)
Tidy(st) == st \in [Jobs -> Job] /\ \A j \in Jobs : st[j].present \/ st[j] = NoJob

Unmarked(st) == \A j \in Jobs : ~st[j].marked

(* What is unmarked stays as it is when its mark is taken away.            *)
LEMMA UnmarkedStays == [NoJob EXCEPT !.marked = FALSE] = NoJob
<1>1. ASSUME NEW a, NEW b, NEW c, NEW d
      PROVE  LET e == [present |-> a, enabled |-> b, next |-> c, marked |-> d]
             IN  [e EXCEPT !.marked = d] = e
  OBVIOUS
<1>2. NoJob.marked = FALSE
  BY DEF NoJob
<1>3. [NoJob EXCEPT !.marked = NoJob.marked] = NoJob
  <2> DEFINE b == NoJob.enabled
             c == NoJob.next
             d == NoJob.marked
             a == NoJob.present
  <2>1. NoJob = [present |-> a, enabled |-> b, next |-> c, marked |-> d]
    BY DEF NoJob
  <2> HIDE DEF a, b, c, d
  <2> QED
    BY <1>1, <2>1 DEF d
<1> QED
  BY <1>2, <1>3

(* The list without a job is tidy.                                         *)
LEMMA EmptyTidy == Tidy(Empty) /\ Unmarked(Empty)
BY DEF Tidy, Unmarked, Empty, NoJob, Job

(* What loadStore makes of a file is tidy, and has no mark.                *)
LEMMA RecoverTidy ==
    ASSUME NEW st, Tidy(st)
    PROVE  Tidy(Recover(st)) /\ Unmarked(Recover(st))
<1>1. \A e \in Job : /\ [e EXCEPT !.marked = FALSE] \in Job
                     /\ [e EXCEPT !.marked = FALSE].marked = FALSE
                     /\ [e EXCEPT !.marked = FALSE].present = e.present
  BY DEF Job
<1> QED
  BY <1>1, UnmarkedStays DEF Tidy, Unmarked, Recover

(* Computing the next runs anew touches no mark.                           *)
LEMMA RecomputeTidy ==
    ASSUME NEW st, Tidy(st)
    PROVE  /\ Tidy(RecomputeNextRuns(st))
           /\ Unmarked(st) => Unmarked(RecomputeNextRuns(st))
<1>1. \A e \in Job, n \in {"none", "later"} :
         /\ [e EXCEPT !.next = n] \in Job
         /\ [e EXCEPT !.next = n].marked = e.marked
         /\ [e EXCEPT !.next = n].present = e.present
  BY DEF Job
<1>2. \A j \in Jobs : ComputeNextRun(j) \in {"none", "later"}
  BY DEF ComputeNextRun
<1>3. \A j \in Jobs : st[j].enabled => st[j].present
  BY DEF Tidy, NoJob
<1> QED
  BY <1>1, <1>2, <1>3 DEF Tidy, Unmarked, RecomputeNextRuns

(* A job is put into the list, or taken out of it.                         *)
LEMMA PutTidy ==
    ASSUME NEW st, Tidy(st), NEW j, NEW e \in Job, e.present \/ e = NoJob
    PROVE  Tidy([st EXCEPT ![j] = e])
BY DEF Tidy

(* A new job is a job, without a mark.                                     *)
LEMMA NewJobType ==
    ASSUME NEW j
    PROVE  NewJob(j) \in Job /\ NewJob(j).present /\ ~NewJob(j).marked
BY DEF NewJob, Job, ComputeNextRun

(* Enabling and disabling touch no mark.                                   *)
LEMMA WithEnabledTidy ==
    ASSUME NEW st, Tidy(st), NEW j \in Jobs, st[j].present, NEW enabled \in BOOLEAN
    PROVE  /\ Tidy(WithEnabled(st, j, enabled))
           /\ \A k \in Jobs : /\ WithEnabled(st, j, enabled)[k].marked = st[k].marked
                              /\ WithEnabled(st, j, enabled)[k].present = st[k].present
<1> DEFINE next == IF enabled THEN ComputeNextRun(j) ELSE "none"
<1>1. next \in {"none", "later"}
  BY DEF ComputeNextRun
<1>2. WithEnabled(st, j, enabled)
        = [st EXCEPT ![j].enabled = enabled, ![j].next = next]
  BY DEF WithEnabled
<1> HIDE DEF next
<1>3. \A e \in Job :
         LET f == [e EXCEPT !.enabled = enabled, !.next = next]
         IN  f \in Job /\ f.marked = e.marked /\ f.present = e.present
  <2>1. \A e \in Job : LET f == [e EXCEPT !.enabled = enabled]
                       IN  f \in Job /\ f.marked = e.marked /\ f.present = e.present
    BY DEF Job
  <2>2. \A e \in Job : LET f == [e EXCEPT !.next = next]
                       IN  f \in Job /\ f.marked = e.marked /\ f.present = e.present
    BY <1>1 DEF Job
  <2>3. \A e : [e EXCEPT !.enabled = enabled, !.next = next]
                 = [[e EXCEPT !.enabled = enabled] EXCEPT !.next = next]
    OBVIOUS
  <2> QED
    BY <2>1, <2>2, <2>3
<1> DEFINE f == [st[j] EXCEPT !.enabled = enabled, !.next = next]
<1>4. f \in Job /\ f.marked = st[j].marked /\ f.present = st[j].present
  BY <1>3 DEF Tidy
<1>5. WithEnabled(st, j, enabled) = [st EXCEPT ![j] = f]
  BY <1>2
<1> HIDE DEF f
<1> QED
  BY <1>4, <1>5 DEF Tidy

(* The clock touches no mark.                                              *)
LEMMA LaterTidy ==
    ASSUME NEW st, st \in [Jobs -> Job], NEW j \in Jobs
    PROVE  /\ Later(st, j) \in [Jobs -> Job]
           /\ Tidy(st) => Tidy(Later(st, j))
           /\ \A k \in Jobs : /\ Later(st, j)[k].marked = st[k].marked
                              /\ Later(st, j)[k].present = st[k].present
<1> DEFINE next == IF st[j].next = "later" THEN "due" ELSE st[j].next
<1>1. next \in {"none", "later", "due"}
  BY DEF Job
<1>2. Later(st, j) = [st EXCEPT ![j].next = next]
  BY DEF Later
<1>3. st[j] = NoJob => next = "none"
  BY DEF NoJob
<1> HIDE DEF next
<1>4. \A e \in Job : /\ [e EXCEPT !.next = next] \in Job
                     /\ [e EXCEPT !.next = next].marked = e.marked
                     /\ [e EXCEPT !.next = next].present = e.present
  BY <1>1 DEF Job
<1>5. [NoJob EXCEPT !.next = "none"] = NoJob
  BY DEF NoJob
<1>6. Tidy(st) => Tidy(Later(st, j))
  BY <1>2, <1>3, <1>4, <1>5 DEF Tidy
<1> QED
  BY <1>2, <1>4, <1>6

(* checkJobs marks jobs that are in the list.                              *)
LEMMA MarkedTidy ==
    ASSUME NEW st, Tidy(st), NEW js, \A j \in js : j \in Jobs /\ st[j].present
    PROVE  /\ Tidy(Marked(st, js))
           /\ \A j \in Jobs : /\ Marked(st, js)[j].marked <=> st[j].marked \/ j \in js
                              /\ Marked(st, js)[j].present = st[j].present
<1>1. \A e \in Job, m \in BOOLEAN : /\ [e EXCEPT !.marked = m] \in Job
                                    /\ [e EXCEPT !.marked = m].marked = m
                                    /\ [e EXCEPT !.marked = m].present = e.present
  BY DEF Job
<1>2. \A j \in Jobs : st[j] \in Job /\ st[j].marked \in BOOLEAN
  BY DEF Tidy, Job
<1>3. \A j \in Jobs : Marked(st, js)[j] = [st[j] EXCEPT !.marked = st[j].marked \/ j \in js]
  BY DEF Marked
<1>4. \A j \in Jobs : (st[j].marked \/ j \in js) \in BOOLEAN
  OBVIOUS
<1>5. \A j \in Jobs : ~st[j].present => [st[j] EXCEPT !.marked = st[j].marked \/ j \in js] = NoJob
  <2>1. \A j \in Jobs : ~st[j].present => st[j] = NoJob /\ (st[j].marked \/ j \in js) = FALSE
    BY DEF Tidy, NoJob
  <2> QED
    BY <2>1, UnmarkedStays
<1>6. Marked(st, js) \in [Jobs -> Job]
  BY <1>1, <1>2, <1>3, <1>4 DEF Marked
<1>7. ASSUME NEW j \in Jobs
      PROVE  /\ Marked(st, js)[j].marked <=> st[j].marked \/ j \in js
             /\ Marked(st, js)[j].present = st[j].present
  <2>1. PICK m \in BOOLEAN : m = (st[j].marked \/ j \in js)
    BY <1>4
  <2>2. Marked(st, js)[j] = [st[j] EXCEPT !.marked = m]
    BY <1>3, <2>1
  <2> QED
    BY <1>1, <1>2, <2>1, <2>2
<1>8. \A j \in Jobs : ~st[j].present => Marked(st, js)[j] = NoJob
  BY <1>3, <1>5
<1> QED
  BY <1>6, <1>7, <1>8 DEF Tidy
-----------------------------------------------------------------------------
(***************************************************************************)
(* The loops.  One that works on a batch is in "batch" or "executing"; one *)
(* that was never started was never stopped; and exactly while the service *)
(* runs there is one that is not told to stop.                             *)
(***************************************************************************)
Open == {r \in Runs : runs[r].phase # "none" /\ ~runs[r].stopped}

LoopsInv ==
    /\ running \in BOOLEAN
    /\ runs \in [Runs -> Loop]
    /\ \A r \in Runs :
          /\ runs[r].phase \notin {"batch", "executing"} => runs[r].batch = {}
          /\ runs[r].phase = "none" => ~runs[r].stopped
    /\ IF running THEN \E r \in Runs : Open = {r} ELSE Open = {}

(* What the updates of a loop's record do to its fields.                   *)
LEMMA PhaseUpdate ==
    ASSUME NEW l \in Loop, NEW f,
           NEW p \in {"none", "waiting", "ticked", "batch", "executing", "gone"},
           f = [l EXCEPT !.phase = p]
    PROVE  f \in Loop /\ f.phase = p /\ f.batch = l.batch /\ f.stopped = l.stopped
BY DEF Loop

(* The same of an update that tells it to stop.                            *)
LEMMA StopUpdate ==
    ASSUME NEW l \in Loop
    PROVE  /\ [l EXCEPT !.stopped = TRUE] \in Loop
           /\ [l EXCEPT !.stopped = TRUE].stopped
           /\ [l EXCEPT !.stopped = TRUE].batch = l.batch
           /\ [l EXCEPT !.stopped = TRUE].phase = l.phase
BY DEF Loop

(* No step but Start and Stop makes a loop open, or keeps one from being   *)
(* so; and a batch is only ever worked off.                                *)
LEMMA LoopsKept ==
    ASSUME LoopsInv, NEW r \in Runs, running' = running,
           NEW p \in {"waiting", "ticked", "batch", "executing", "gone"},
           NEW b \in SUBSET Jobs, p \notin {"batch", "executing"} => b = {},
           runs[r].phase # "none",
           runs'[r] \in Loop,
           runs'[r].phase = p, runs'[r].batch = b, runs'[r].stopped = runs[r].stopped,
           runs' = [runs EXCEPT ![r] = runs'[r]]
    PROVE  LoopsInv'
<1>1. \A s \in Runs : s # r => runs'[s] = runs[s]
  BY DEF LoopsInv
<1>2. Open' = Open
  BY <1>1 DEF Open
<1>3. runs' \in [Runs -> Loop]
  BY DEF LoopsInv
<1>4. \A s \in Runs :
         /\ runs'[s].phase \notin {"batch", "executing"} => runs'[s].batch = {}
         /\ runs'[s].phase = "none" => ~runs'[s].stopped
  BY <1>1 DEF LoopsInv
<1> QED
  BY <1>2, <1>3, <1>4 DEF LoopsInv

(* What a step of a loop leaves of its record.                             *)
LEMMA LoopStepDoes ==
    ASSUME LoopsInv, NEW r \in Runs, LoopStep(r)
    PROVE  /\ running' = running
           /\ runs[r].phase # "none"
           /\ runs' = [runs EXCEPT ![r] = runs'[r]]
           /\ runs'[r] \in Loop
           /\ runs'[r].phase \in {"waiting", "ticked", "batch", "executing", "gone"}
           /\ runs'[r].phase \notin {"batch", "executing"} => runs'[r].batch = {}
           /\ runs'[r].stopped = runs[r].stopped
           /\ CheckJobs(r) /\ running => runs'[r].batch = Due
           /\ ~CheckJobs(r) => runs[r].batch \ {Current(r)} \subseteq runs'[r].batch
           /\ \/ CheckJobs(r) \/ FinishJob(r) \/ runs'[r].batch = runs[r].batch
              \/ BeginJob(r) /\ ~store[Current(r)].present
<1>0. runs[r] \in Loop /\ runs \in [Runs -> Loop] /\ runs[r].batch \subseteq Jobs
  BY DEF LoopsInv, Loop
<1>1. CASE Tick(r)
  <2>1. runs' = [runs EXCEPT ![r] = [runs[r] EXCEPT !.phase = "ticked"]]
    BY <1>0, <1>1 DEF Tick
  <2>2. runs'[r] = [runs[r] EXCEPT !.phase = "ticked"]
    BY <1>0, <2>1
  <2>3. /\ runs'[r] \in Loop /\ runs'[r].phase = "ticked"
        /\ runs'[r].batch = runs[r].batch /\ runs'[r].stopped = runs[r].stopped
    BY <1>0, <2>2, PhaseUpdate
  <2>4. runs[r].batch = {}
    BY <1>1 DEF Tick, LoopsInv
  <2> QED
    BY <1>0, <1>1, <2>1, <2>3, <2>4 DEF Tick, CheckJobs
<1>2. CASE LoopEnds(r)
  <2>1. runs' = [runs EXCEPT ![r] = [runs[r] EXCEPT !.phase = "gone"]]
    BY <1>0, <1>2 DEF LoopEnds
  <2>2. runs'[r] = [runs[r] EXCEPT !.phase = "gone"]
    BY <1>0, <2>1
  <2>3. /\ runs'[r] \in Loop /\ runs'[r].phase = "gone"
        /\ runs'[r].batch = runs[r].batch /\ runs'[r].stopped = runs[r].stopped
    BY <1>0, <2>2, PhaseUpdate
  <2>4. runs[r].batch = {}
    BY <1>2 DEF LoopEnds, LoopsInv
  <2> QED
    BY <1>0, <1>2, <2>1, <2>3, <2>4 DEF LoopEnds, CheckJobs
<1>3. CASE CheckJobs(r)
  <2>1. CASE running
    <3> DEFINE p == IF Due = {} THEN "waiting" ELSE "batch"
    <3>1. runs' = [runs EXCEPT ![r] = [runs[r] EXCEPT !.phase = p, !.batch = Due]]
      BY <1>0, <1>3, <2>1 DEF CheckJobs
    <3>2. p \in {"waiting", "batch"} /\ (p = "waiting" => Due = {})
      OBVIOUS
    <3>3. Due \in SUBSET Jobs
      BY DEF Due
    <3> HIDE DEF p
    <3>4. runs'[r] \in Loop /\ runs'[r].phase = p /\ runs'[r].batch = Due
          /\ runs'[r].stopped = runs[r].stopped
      <4>1. runs'[r] = [runs[r] EXCEPT !.phase = p, !.batch = Due]
        BY <1>0, <3>1
      <4> QED
        BY <1>0, <3>2, <3>3, <4>1 DEF Loop
    <3> QED
      BY <1>0, <1>3, <3>1, <3>2, <3>4 DEF CheckJobs
  <2>2. CASE ~running
    <3>1. runs' = [runs EXCEPT ![r] = [runs[r] EXCEPT !.phase = "waiting"]]
      BY <1>0, <1>3, <2>2 DEF CheckJobs
    <3>2. runs'[r] = [runs[r] EXCEPT !.phase = "waiting"]
      BY <1>0, <3>1
    <3>3. /\ runs'[r] \in Loop /\ runs'[r].phase = "waiting"
          /\ runs'[r].batch = runs[r].batch /\ runs'[r].stopped = runs[r].stopped
      BY <1>0, <3>2, PhaseUpdate
    <3>4. runs[r].batch = {}
      BY <1>3 DEF CheckJobs, LoopsInv
    <3> QED
      BY <1>0, <1>3, <2>2, <3>1, <3>3, <3>4 DEF CheckJobs
  <2> QED
    BY <2>1, <2>2
<1>4. ASSUME Proceed(r), runs[r].phase \in {"batch", "executing"}
      PROVE  /\ runs' = [runs EXCEPT ![r] = runs'[r]]
             /\ runs'[r] \in Loop
             /\ runs'[r].phase \in {"waiting", "batch"}
             /\ runs'[r].phase # "batch" => runs'[r].batch = {}
             /\ runs'[r].stopped = runs[r].stopped
             /\ runs'[r].batch = runs[r].batch \ {Current(r)}
  <2> DEFINE left == runs[r].batch \ {Current(r)}
             p == IF left = {} THEN "waiting" ELSE "batch"
  <2>1. runs' = [runs EXCEPT ![r] = [runs[r] EXCEPT !.batch = left, !.phase = p]]
    BY <1>0, <1>4 DEF Proceed
  <2>2. p \in {"waiting", "batch"} /\ (p = "waiting" => left = {})
    OBVIOUS
  <2>3. left \in SUBSET Jobs
    BY <1>0
  <2> HIDE DEF p, left
  <2>4. runs'[r] \in Loop /\ runs'[r].phase = p /\ runs'[r].batch = left
        /\ runs'[r].stopped = runs[r].stopped
    <3>1. runs'[r] = [runs[r] EXCEPT !.batch = left, !.phase = p]
      BY <1>0, <2>1
    <3>2. runs'[r] = [runs[r] EXCEPT !.phase = p, !.batch = left]
      BY <1>0, <3>1 DEF Loop
    <3> QED
      BY <1>0, <2>2, <2>3, <3>2 DEF Loop
  <2> QED
    BY <1>0, <2>1, <2>2, <2>4 DEF left
<1>5. CASE BeginJob(r)
  <2>1. CASE store[Current(r)].present
    <3>1. runs' = [runs EXCEPT ![r] = [runs[r] EXCEPT !.phase = "executing"]]
      BY <1>0, <1>5, <2>1 DEF BeginJob
    <3>2. runs'[r] = [runs[r] EXCEPT !.phase = "executing"]
      BY <1>0, <3>1
    <3>3. /\ runs'[r] \in Loop /\ runs'[r].phase = "executing"
          /\ runs'[r].batch = runs[r].batch /\ runs'[r].stopped = runs[r].stopped
      BY <1>0, <3>2, PhaseUpdate
    <3> QED
      BY <1>0, <1>5, <3>1, <3>3 DEF BeginJob, CheckJobs
  <2>2. CASE ~store[Current(r)].present
    BY <1>4, <1>5, <2>2 DEF BeginJob, CheckJobs
  <2> QED
    BY <2>1, <2>2
<1>6. CASE FinishJob(r)
  BY <1>4, <1>6 DEF FinishJob, CheckJobs
<1> QED
  BY <1>1, <1>2, <1>3, <1>5, <1>6 DEF LoopStep

(* Every step keeps LoopsInv.                                              *)
LEMMA LoopsNext == LoopsInv /\ [Next]_vars => LoopsInv'
<1> SUFFICES ASSUME LoopsInv, [Next]_vars PROVE LoopsInv'
  OBVIOUS
<1>1. CASE UNCHANGED <<running, runs>>
  BY <1>1 DEF LoopsInv, Open
<1>2. ASSUME NEW r \in Runs, LoopStep(r) PROVE LoopsInv'
  <2>1. runs'[r].batch \in SUBSET Jobs
    BY <1>2, LoopStepDoes DEF Loop
  <2> QED
    BY <1>2, <2>1, LoopStepDoes, LoopsKept
<1>3. ASSUME NEW r \in Runs, Start(r) PROVE LoopsInv'
  <2>1. /\ ~running /\ running' = TRUE /\ runs[r].phase = "none"
        /\ runs' = [runs EXCEPT ![r] = [runs[r] EXCEPT !.phase = "waiting"]]
    BY <1>3 DEF Start, MayStart, LoopsInv
  <2>2. /\ runs'[r] \in Loop /\ runs'[r].phase = "waiting"
        /\ runs'[r].batch = {} /\ ~runs'[r].stopped
    <3>1. runs[r] \in Loop /\ runs[r].batch = {} /\ ~runs[r].stopped
      BY <2>1 DEF LoopsInv
    <3>2. runs'[r] = [runs[r] EXCEPT !.phase = "waiting"]
      BY <2>1 DEF LoopsInv
    <3> QED
      BY <3>1, <3>2, PhaseUpdate
  <2>3. \A s \in Runs \ {r} : runs'[s] = runs[s]
    BY <2>1 DEF LoopsInv
  <2>4. Open' = {r}
    BY <2>1, <2>2, <2>3 DEF LoopsInv, Open
  <2>5. runs' \in [Runs -> Loop]
    BY <2>1, <2>2 DEF LoopsInv
  <2> QED
    BY <2>1, <2>2, <2>3, <2>4, <2>5 DEF LoopsInv
<1>4. CASE Stop
  <2>1. /\ running' = FALSE
        /\ runs' = [r \in Runs |-> IF runs[r].phase = "none" THEN runs[r]
                                   ELSE [runs[r] EXCEPT !.stopped = TRUE]]
    BY <1>4 DEF Stop
  <2>2. \A r \in Runs : /\ runs'[r] \in Loop
                        /\ runs'[r].phase = runs[r].phase /\ runs'[r].batch = runs[r].batch
                        /\ runs[r].phase = "none" => runs'[r] = runs[r]
                        /\ runs[r].phase # "none" => runs'[r].stopped
    BY <2>1, StopUpdate DEF LoopsInv
  <2>3. Open' = {}
    BY <2>2 DEF Open
  <2> QED
    BY <2>1, <2>2, <2>3 DEF LoopsInv
<1>5. CASE CrashAndRestart
  BY <1>5 DEF CrashAndRestart, LoopsInv, Loop, NoLoop, Open
<1>6. CASE StartReadFails \/ StartWriteFails \/ AddJob \/ LoadWaits \/ LoadReads
           \/ CommandOpens \/ CommandAdds \/ UNCHANGED vars
  BY <1>1, <1>6 DEF StartReadFails, StartWriteFails, AddJob, LoadWaits, LoadReads,
     CommandOpens, CommandAdds, CommandSaves, vars
<1>7. ASSUME NEW j \in Jobs, NEW b \in BOOLEAN,
             \/ UpdateJob(j) \/ RemoveJob(j) \/ CommandRemoves(j) \/ TimeComes(j)
             \/ EnableJob(j, b) \/ CommandEnables(j, b)
      PROVE  LoopsInv'
  BY <1>1, <1>7 DEF UpdateJob, RemoveJob, CommandRemoves, CommandSaves, TimeComes,
     EnableJob, CommandEnables
<1> QED
  BY <1>2, <1>3, <1>4, <1>5, <1>6, <1>7 DEF Next

(* The loops before the first Start.                                       *)
LEMMA LoopsInit == Init => LoopsInv
<1> SUFFICES ASSUME Init PROVE LoopsInv
  OBVIOUS
<1>1. NoLoop \in Loop /\ NoLoop.phase = "none" /\ NoLoop.batch = {} /\ ~NoLoop.stopped
  BY DEF NoLoop, Loop
<1>2. \A r \in Runs : runs[r] = NoLoop
  BY DEF Init
<1>3. Open = {}
  BY <1>1, <1>2 DEF Open
<1> QED
  BY <1>1, <1>2, <1>3 DEF Init, LoopsInv

(* While the service runs, one loop and only one is not told to stop;      *)
(* otherwise none is: however often Start and Stop alternate while loops   *)
(* are in callbacks, and through restarts.                                 *)
THEOREM OneLoopServes == Spec => []OneOpenLoop
<1>1. LoopsInv => OneOpenLoop
  BY FS_EmptySet, FS_Singleton DEF LoopsInv, OneOpenLoop, Open
<1> QED
  BY <1>1, LoopsInit, LoopsNext, PTL DEF Spec
-----------------------------------------------------------------------------
(***************************************************************************)
(* The lists of jobs: the gateway's, the file, that of the cron command,   *)
(* and the copies that the cron tool holds, which have no mark.            *)
(***************************************************************************)
CopiesInv ==
    /\ draft \in [Jobs -> Job] /\ Unmarked(draft)
    /\ command \in [open : BOOLEAN, store : [Jobs -> Job]] /\ Tidy(command.store)

ListsInv == Tidy(store) /\ Tidy(disk) /\ CopiesInv

(* A write brings the list into the file, or leaves the file as it was.    *)
LEMMA SaveTidy ==
    ASSUME NEW st, Tidy(st), Tidy(disk), Save(st)
    PROVE  Tidy(disk')
BY DEF Save, Written, WriteFails, Tidy

(* The job that is looked at may have gone; if there is one, it is a job.  *)
LEMMA SettleType ==
    ASSUME Tidy(store), NEW j \in Jobs
    PROVE  /\ Settle(j) \in Job /\ (Settle(j).present \/ Settle(j) = NoJob)
           /\ ~Settle(j).marked
           /\ Settle(j).present => store[j].present
<1>1. NoJob \in Job /\ ~NoJob.marked /\ ~NoJob.present
  BY DEF NoJob, Job
<1>2. store[j] \in Job
  BY DEF Tidy
<1>3. LET e == [store[j] EXCEPT !.next = "later", !.marked = FALSE]
      IN  e \in Job /\ ~e.marked /\ e.present = store[j].present
  BY <1>2 DEF Job
<1> QED
  BY <1>1, <1>3 DEF Settle

(* What an operation may do to the list of the gateway.                    *)
StoreSteps ==
    \/ store' = store
    \/ store' \in {Empty, Recover(disk), RecomputeNextRuns(Recover(disk))}
    \/ store' = Marked(store, Due)
    \/ \E j \in Jobs : store' = [store EXCEPT ![j] = Settle(j)]
    \/ store' = [store EXCEPT ![nextID] = NewJob(nextID)] /\ nextID' = nextID + 1
    \/ \E j \in Jobs : /\ store[j].present /\ draft[j].present
                       /\ store' = [store EXCEPT ![j] = draft[j]]
    \/ \E j \in Jobs : store' = [store EXCEPT ![j] = NoJob]
    \/ \E j \in Jobs, b \in BOOLEAN : store[j].present /\ store' = WithEnabled(store, j, b)
    \/ \E j \in Jobs : TimeComes(j)

(* Every step does one of these, and keeps the file tidy.                  *)
LEMMA StepsOfTheStore ==
    ASSUME ListsInv, LoopsInv, [Next]_vars
    PROVE  StoreSteps
<1>1. ASSUME NEW r \in Runs, LoopStep(r) PROVE StoreSteps
  <2>1. CASE FinishJob(r)
    <3>1. CASE Current(r) \in Jobs
      BY <2>1, <3>1 DEF FinishJob, StoreSteps
    <3>2. CASE Current(r) \notin Jobs
      <4>1. store' = store
        BY <2>1, <3>2 DEF FinishJob, ListsInv, Tidy
      <4> QED
        BY <4>1 DEF StoreSteps
    <3> QED
      BY <3>1, <3>2
  <2> QED
    BY <1>1, <2>1 DEF LoopStep, Tick, LoopEnds, CheckJobs, BeginJob, StoreSteps
<1>2. ASSUME NEW r \in Runs, Start(r) PROVE StoreSteps
  BY <1>2 DEF Start, StoreSteps
<1>3. CASE StartReadFails \/ StartWriteFails \/ Stop \/ AddJob \/ LoadWaits
  BY <1>3 DEF StartReadFails, StartWriteFails, Stop, AddJob, LoadWaits, StoreSteps
<1>4. CASE LoadReads \/ CrashAndRestart
  BY <1>4 DEF LoadReads, CrashAndRestart, StoreSteps
<1>5. CASE CommandOpens \/ CommandAdds \/ UNCHANGED vars
  BY <1>5 DEF CommandOpens, CommandAdds, CommandSaves, vars, StoreSteps
<1>6. ASSUME NEW j \in Jobs, UpdateJob(j) \/ RemoveJob(j) \/ CommandRemoves(j) \/ TimeComes(j)
      PROVE  StoreSteps
  BY <1>6 DEF UpdateJob, RemoveJob, CommandRemoves, CommandSaves, StoreSteps
<1>7. ASSUME NEW j \in Jobs, NEW b \in BOOLEAN, EnableJob(j, b) \/ CommandEnables(j, b)
      PROVE  StoreSteps
  BY <1>7 DEF EnableJob, CommandEnables, CommandSaves, StoreSteps
<1> QED
  BY <1>1, <1>2, <1>3, <1>4, <1>5, <1>6, <1>7 DEF Next

(* Whatever is done to it, the list stays tidy.                            *)
LEMMA StoreTidy ==
    ASSUME ListsInv, StoreSteps
    PROVE  Tidy(store')
<1>1. NoJob \in Job
  BY DEF NoJob, Job
<1>2. CASE store' \in {Empty, Recover(disk), RecomputeNextRuns(Recover(disk))}
  BY <1>2, EmptyTidy, RecoverTidy, RecomputeTidy DEF ListsInv
<1>3. CASE store' = Marked(store, Due)
  <2>1. \A j \in Due : j \in Jobs /\ store[j].present
    BY DEF Due, ListsInv, Tidy, NoJob
  <2> QED
    BY <1>3, <2>1, MarkedTidy DEF ListsInv
<1>4. ASSUME NEW j \in Jobs, store' = [store EXCEPT ![j] = Settle(j)] PROVE Tidy(store')
  BY <1>4, SettleType, PutTidy DEF ListsInv
<1>5. CASE store' = [store EXCEPT ![nextID] = NewJob(nextID)]
  BY <1>5, NewJobType, PutTidy DEF ListsInv
<1>6. ASSUME NEW j \in Jobs, draft[j].present, store' = [store EXCEPT ![j] = draft[j]]
      PROVE  Tidy(store')
  BY <1>6, PutTidy DEF ListsInv, CopiesInv
<1>7. ASSUME NEW j \in Jobs, store' = [store EXCEPT ![j] = NoJob] PROVE Tidy(store')
  BY <1>1, <1>7, PutTidy DEF ListsInv
<1>8. ASSUME NEW j \in Jobs, NEW b \in BOOLEAN, store[j].present, store' = WithEnabled(store, j, b)
      PROVE  Tidy(store')
  BY <1>8, WithEnabledTidy DEF ListsInv
<1>9. ASSUME NEW j \in Jobs, TimeComes(j) PROVE Tidy(store')
  BY <1>9, LaterTidy DEF TimeComes, ListsInv, Tidy
<1>10. CASE store' = store
  BY <1>10 DEF ListsInv, Tidy
<1> QED
  BY <1>2, <1>3, <1>4, <1>5, <1>6, <1>7, <1>8, <1>9, <1>10 DEF StoreSteps

(* The file takes what was in memory, or what a command makes of its list. *)
LEMMA DiskTidy ==
    ASSUME ListsInv, LoopsInv, [Next]_vars, Tidy(store')
    PROVE  Tidy(disk')
<1>1. CASE disk' = disk \/ disk' = store'
  BY <1>1 DEF ListsInv, CopiesInv, Tidy
<1>2. ASSUME NEW j \in Jobs, disk' = Later(disk, j) PROVE Tidy(disk')
  BY <1>2, LaterTidy DEF ListsInv, CopiesInv, Tidy
<1>3. ASSUME NEW st, Tidy(st), Save(st) PROVE Tidy(disk')
  BY <1>3, SaveTidy DEF ListsInv, CopiesInv
<1>4. ASSUME NEW r \in Runs, Start(r) \/ LoopStep(r) PROVE Tidy(disk')
  BY <1>1, <1>4 DEF Start, LoopStep, Tick, LoopEnds, CheckJobs, BeginJob, FinishJob, Save,
     Written, WriteFails
<1>5. CASE StartReadFails \/ StartWriteFails \/ Stop \/ AddJob \/ LoadWaits \/ LoadReads
  BY <1>1, <1>5 DEF StartReadFails, StartWriteFails, Stop, AddJob, LoadWaits, LoadReads,
     Written, WriteFails
<1>6. CASE CrashAndRestart \/ CommandOpens \/ UNCHANGED vars
  BY <1>1, <1>6 DEF CrashAndRestart, CommandOpens, vars
<1>7. CASE CommandAdds
  <2>1. Tidy([command.store EXCEPT ![nextID] = NewJob(nextID)])
    BY NewJobType, PutTidy DEF ListsInv, CopiesInv
  <2> QED
    BY <1>3, <1>7, <2>1 DEF CommandAdds, CommandSaves
<1>8. ASSUME NEW j \in Jobs, CommandRemoves(j) PROVE Tidy(disk')
  <2>1. Tidy([command.store EXCEPT ![j] = NoJob])
    BY PutTidy DEF ListsInv, CopiesInv, NoJob, Job
  <2> QED
    BY <1>3, <1>8, <2>1 DEF CommandRemoves, CommandSaves
<1>9. ASSUME NEW j \in Jobs, NEW b \in BOOLEAN, CommandEnables(j, b) PROVE Tidy(disk')
  <2>1. Tidy(WithEnabled(command.store, j, b))
    BY <1>9, WithEnabledTidy DEF ListsInv, CopiesInv, CommandEnables
  <2> QED
    BY <1>3, <1>9, <2>1 DEF CommandEnables, CommandSaves
<1>10. ASSUME NEW j \in Jobs, TimeComes(j) PROVE Tidy(disk')
  BY <1>2, <1>10 DEF TimeComes
<1>11. ASSUME NEW j \in Jobs, NEW b \in BOOLEAN, UpdateJob(j) \/ RemoveJob(j) \/ EnableJob(j, b)
       PROVE  Tidy(disk')
  BY <1>1, <1>11 DEF UpdateJob, RemoveJob, EnableJob, Save, Written, WriteFails
<1> QED
  BY <1>4, <1>5, <1>6, <1>7, <1>8, <1>9, <1>10, <1>11 DEF Next

(* The copies of the cron tool and of the command.                         *)
LEMMA CopiesTidy ==
    ASSUME ListsInv, LoopsInv, [Next]_vars
    PROVE  CopiesInv'
<1>1. CASE draft' = draft /\ command' = command
  BY <1>1 DEF ListsInv, CopiesInv, Unmarked, Tidy
<1>2. CASE draft' = draft /\ command' = Idle
  BY <1>2, EmptyTidy DEF ListsInv, CopiesInv, Unmarked, Tidy, Idle
<1>3. ASSUME NEW st, Tidy(st), draft' = draft, command' = [open |-> TRUE, store |-> st]
      PROVE  CopiesInv'
  BY <1>3 DEF ListsInv, CopiesInv, Unmarked, Tidy
<1>4. NoJob \in Job /\ ~NoJob.marked
  BY DEF NoJob, Job
<1>5. ASSUME NEW r \in Runs, Start(r) \/ LoopStep(r) PROVE CopiesInv'
  BY <1>1, <1>5 DEF Start, LoopStep, Tick, LoopEnds, CheckJobs, BeginJob, FinishJob
<1>6. CASE StartReadFails \/ StartWriteFails \/ Stop \/ LoadWaits \/ LoadReads \/ UNCHANGED vars
  BY <1>1, <1>6 DEF StartReadFails, StartWriteFails, Stop, LoadWaits, LoadReads, vars
<1>7. CASE AddJob
  <2>1. \A j : NewJob(j) \in Job /\ ~NewJob(j).marked
    BY NewJobType
  <2>2. draft' \in {draft, [draft EXCEPT ![nextID] = NewJob(nextID)]} /\ command' = command
    BY <1>7 DEF AddJob
  <2> QED
    BY <2>1, <2>2 DEF ListsInv, CopiesInv, Unmarked, Tidy
<1>8. CASE CrashAndRestart
  BY <1>8, EmptyTidy DEF CrashAndRestart, ListsInv, CopiesInv, Tidy
<1>9. CASE CommandOpens
  <2>1. PICK st \in {Recover(disk), Empty} :
           draft' = draft /\ command' = [open |-> TRUE, store |-> st]
    BY <1>9 DEF CommandOpens
  <2>2. Tidy(st)
    BY RecoverTidy, EmptyTidy DEF ListsInv, CopiesInv
  <2> QED
    BY <1>3, <2>1, <2>2
<1>10. CASE CommandAdds
  BY <1>2, <1>10 DEF CommandAdds, CommandSaves
<1>11. ASSUME NEW j \in Jobs, NEW b \in BOOLEAN,
              \/ CommandRemoves(j) \/ CommandEnables(j, b)
              \/ RemoveJob(j) \/ EnableJob(j, b)
       PROVE  CopiesInv'
  BY <1>1, <1>2, <1>11 DEF CommandRemoves, CommandEnables, CommandSaves, RemoveJob, EnableJob
<1>12. ASSUME NEW j \in Jobs, UpdateJob(j) PROVE CopiesInv'
  BY <1>4, <1>12 DEF UpdateJob, ListsInv, CopiesInv, Unmarked, Tidy
<1>13. ASSUME NEW j \in Jobs, TimeComes(j) PROVE CopiesInv'
  <2>1. /\ draft' = Later(draft, j)
        /\ command' = [command EXCEPT !.store = Later(command.store, j)]
    BY <1>13 DEF TimeComes, ListsInv, CopiesInv
  <2>2. draft' \in [Jobs -> Job] /\ Unmarked(draft')
    <3>1. draft \in [Jobs -> Job] /\ \A k \in Jobs : ~draft[k].marked
      BY DEF ListsInv, CopiesInv, Unmarked
    <3>2. \A k \in Jobs : Later(draft, j)[k].marked = draft[k].marked
      BY <3>1, LaterTidy
    <3>3. Later(draft, j) \in [Jobs -> Job]
      BY <3>1, LaterTidy
    <3> QED
      BY <2>1, <3>1, <3>2, <3>3 DEF Unmarked
  <2>3. Later(command.store, j) \in [Jobs -> Job] /\ Tidy(Later(command.store, j))
    BY LaterTidy DEF ListsInv, CopiesInv
  <2>4. /\ command' \in [open : BOOLEAN, store : [Jobs -> Job]]
        /\ command'.store = Later(command.store, j)
    BY <2>1, <2>3 DEF ListsInv, CopiesInv
  <2> QED
    BY <2>2, <2>3, <2>4 DEF CopiesInv
<1> QED
  <2>1. ASSUME NEW j \in Jobs,
               \/ UpdateJob(j) \/ RemoveJob(j) \/ CommandRemoves(j) \/ TimeComes(j)
               \/ \E b \in BOOLEAN : EnableJob(j, b) \/ CommandEnables(j, b)
        PROVE  CopiesInv'
    BY <1>11, <1>12, <1>13, <2>1
  <2> QED
    BY <1>5, <1>6, <1>7, <1>8, <1>9, <1>10, <2>1 DEF Next

(* Every step keeps the lists tidy.                                        *)
LEMMA ListsNext == ListsInv /\ LoopsInv /\ [Next]_vars => ListsInv'
<1> SUFFICES ASSUME ListsInv, LoopsInv, [Next]_vars PROVE ListsInv'
  OBVIOUS
<1>1. Tidy(store')
  BY StepsOfTheStore, StoreTidy
<1>2. Tidy(disk')
  BY <1>1, DiskTidy
<1> QED
  BY <1>1, <1>2, CopiesTidy DEF ListsInv, CopiesInv, Unmarked, Tidy

(* All the lists are empty at first.                                       *)
LEMMA ListsInit == Init => ListsInv
BY EmptyTidy DEF Init, ListsInv, CopiesInv, Idle, Tidy

(* A job that is gone from the list comes back only with a whole file.     *)
THEOREM GoneStayGone == Spec => GoneUnlessReloaded
<1>1. ASSUME ListsInv, LoopsInv, [Next]_vars, NEW j \in Jobs,
             ~store[j].present, store'[j].present
      PROVE  \/ j = nextID /\ nextID' = nextID + 1
             \/ store' \in {Recover(disk), RecomputeNextRuns(Recover(disk))}
  <2>0. StoreSteps /\ store \in [Jobs -> Job]
    BY <1>1, StepsOfTheStore DEF ListsInv, Tidy
  <2>1. store' # store /\ store' # Empty
    BY <1>1 DEF Empty, NoJob
  <2>2. store' # Marked(store, Due)
    <3>1. \A k \in Due : k \in Jobs /\ store[k].present
      BY <1>1 DEF Due, ListsInv, Tidy, NoJob
    <3>2. Marked(store, Due)[j].present = store[j].present
      BY <1>1, <3>1, MarkedTidy DEF ListsInv
    <3> QED
      BY <1>1, <3>2
  <2>3. ASSUME NEW k \in Jobs, store' = [store EXCEPT ![k] = Settle(k)] PROVE FALSE
    <3>1. Settle(k).present => store[k].present
      BY <1>1, SettleType DEF ListsInv
    <3> QED
      BY <1>1, <2>0, <2>3, <3>1
  <2>4. ASSUME NEW k \in Jobs, store[k].present, store' = [store EXCEPT ![k] = draft[k]]
        PROVE  FALSE
    BY <1>1, <2>0, <2>4
  <2>5. ASSUME NEW k \in Jobs, store' = [store EXCEPT ![k] = NoJob] PROVE FALSE
    BY <1>1, <2>0, <2>5 DEF NoJob
  <2>6. ASSUME NEW k \in Jobs, NEW b \in BOOLEAN, store[k].present,
               store' = WithEnabled(store, k, b)
        PROVE  FALSE
    BY <1>1, <2>6, WithEnabledTidy DEF ListsInv
  <2>7. ASSUME NEW k \in Jobs, TimeComes(k) PROVE FALSE
    BY <1>1, <2>0, <2>7, LaterTidy DEF TimeComes
  <2>8. ASSUME store' = [store EXCEPT ![nextID] = NewJob(nextID)] PROVE j = nextID
    BY <1>1, <2>0, <2>8
  <2> QED
    BY <2>0, <2>1, <2>2, <2>3, <2>4, <2>5, <2>6, <2>7, <2>8 DEF StoreSteps
<1>2. ListsInv /\ LoopsInv /\ [Next]_vars =>
        [\A j \in Jobs :
           ~store[j].present /\ store'[j].present =>
              \/ j = nextID /\ nextID' = nextID + 1
              \/ store' \in {Recover(disk), RecomputeNextRuns(Recover(disk))}]_vars
  BY <1>1
<1> QED
  BY <1>2, ListsInit, ListsNext, LoopsInit, LoopsNext, PTL DEF Spec, GoneUnlessReloaded
-----------------------------------------------------------------------------
(***************************************************************************)
(* The marks.                                                              *)
(***************************************************************************)

(* A list without marks needs no batches.                                  *)
LEMMA UnmarkedNeedsNone == Unmarked(store) => MarkedIsInABatch
BY DEF Unmarked, MarkedIsInABatch

(* Where the batches stay, no job may be marked that was not.              *)
LEMMA MarksKept ==
    ASSUME MarkedIsInABatch, \A r \in Runs : runs'[r].batch = runs[r].batch,
           \A j \in Jobs : store'[j].marked => store[j].marked
    PROVE  MarkedIsInABatch'
BY DEF MarkedIsInABatch

(* A loop marks its batch as a whole, and unmarks a job with which it is   *)
(* done.                                                                   *)
LEMMA LoopMarks ==
    ASSUME ListsInv, LoopsInv, MarkedIsInABatch, NEW r \in Runs, LoopStep(r)
    PROVE  MarkedIsInABatch'
<1>1. \A s \in Runs : s # r => runs'[s].batch = runs[s].batch
  BY LoopStepDoes DEF LoopsInv
<1>2. CASE CheckJobs(r)
  <2>1. runs[r].batch = {}
    BY <1>2 DEF CheckJobs, LoopsInv
  <2>2. CASE running
    <3>1. \A k \in Due : k \in Jobs /\ store[k].present
      BY DEF Due, ListsInv, Tidy, NoJob
    <3>2. \A j \in Jobs : store'[j].marked <=> store[j].marked \/ j \in Due
      BY <1>2, <2>2, <3>1, MarkedTidy DEF CheckJobs, ListsInv
    <3>3. runs'[r].batch = Due
      BY <1>2, <2>2, LoopStepDoes
    <3> QED
      BY <1>1, <2>1, <3>2, <3>3 DEF MarkedIsInABatch
  <2>3. CASE ~running
    <3>1. store' = store
      BY <1>2, <2>3 DEF CheckJobs
    <3> QED
      BY <1>1, <2>1, <3>1 DEF MarkedIsInABatch
  <2> QED
    BY <2>2, <2>3
<1>3. ASSUME ~CheckJobs(r),
             \A j \in Jobs : store'[j].marked => store[j].marked /\ j # Current(r)
      PROVE  MarkedIsInABatch'
  <2>1. runs[r].batch \ {Current(r)} \subseteq runs'[r].batch
    BY <1>3, LoopStepDoes
  <2> QED
    BY <1>1, <1>3, <2>1 DEF MarkedIsInABatch
<1>4. CASE FinishJob(r) /\ ~CheckJobs(r)
  <2>1. store' = [store EXCEPT ![Current(r)] = Settle(Current(r))]
    BY <1>4 DEF FinishJob
  <2>2. Current(r) \in Jobs => ~Settle(Current(r)).marked
    BY SettleType DEF ListsInv
  <2>3. \A j \in Jobs : store'[j].marked => store[j].marked /\ j # Current(r)
    BY <2>1, <2>2 DEF ListsInv, Tidy
  <2> QED
    BY <1>3, <1>4, <2>3
<1>5. CASE BeginJob(r) /\ ~store[Current(r)].present /\ ~CheckJobs(r)
  <2>1. Current(r) \in Jobs => ~store[Current(r)].marked
    BY <1>5 DEF ListsInv, Tidy, NoJob
  <2>2. store' = store
    BY <1>5 DEF BeginJob
  <2> QED
    BY <1>3, <1>5, <2>1, <2>2
<1>6. CASE runs'[r].batch = runs[r].batch /\ ~CheckJobs(r) /\ ~FinishJob(r)
  <2>1. store' = store
    BY <1>6 DEF LoopStep, Tick, LoopEnds, BeginJob
  <2> QED
    BY <1>1, <1>6, <2>1, MarksKept
<1> QED
  BY <1>2, <1>4, <1>5, <1>6, LoopStepDoes

(* Every step keeps the marks within the batches.                          *)
LEMMA MarksNext == ListsInv /\ LoopsInv /\ MarkedIsInABatch /\ [Next]_vars => MarkedIsInABatch'
<1> SUFFICES ASSUME ListsInv, LoopsInv, MarkedIsInABatch, [Next]_vars
             PROVE  MarkedIsInABatch'
  OBVIOUS
<1>1. /\ Unmarked(Empty) /\ Unmarked(Recover(disk))
      /\ Unmarked(RecomputeNextRuns(Recover(disk)))
  BY EmptyTidy, RecoverTidy, RecomputeTidy DEF ListsInv
<1>2. ASSUME store' \in {Empty, Recover(disk), RecomputeNextRuns(Recover(disk))}
      PROVE  MarkedIsInABatch'
  BY <1>1, <1>2 DEF Unmarked, MarkedIsInABatch
<1>3. ASSUME NEW r \in Runs, LoopStep(r) PROVE MarkedIsInABatch'
  BY <1>3, LoopMarks
<1>4. ASSUME NEW r \in Runs, Start(r) PROVE MarkedIsInABatch'
  BY <1>2, <1>4 DEF Start
<1>5. CASE StartReadFails \/ StartWriteFails \/ LoadReads \/ CrashAndRestart
  BY <1>2, <1>5 DEF StartReadFails, StartWriteFails, LoadReads, CrashAndRestart
<1>6. CASE Stop
  <2>1. \A r \in Runs : runs'[r].batch = runs[r].batch
    BY <1>6, StopUpdate DEF Stop, LoopsInv
  <2> QED
    BY <1>6, <2>1, MarksKept DEF Stop
<1>7. CASE AddJob
  <2>1. \A j \in Jobs : store'[j].marked => store[j].marked
    BY <1>7, NewJobType DEF AddJob, ListsInv, Tidy
  <2> QED
    BY <1>7, <2>1, MarksKept DEF AddJob
<1>8. CASE LoadWaits \/ CommandOpens \/ CommandAdds \/ UNCHANGED vars
  BY <1>8, MarksKept DEF LoadWaits, CommandOpens, CommandAdds, CommandSaves, vars
<1>9. ASSUME NEW j \in Jobs, UpdateJob(j) \/ RemoveJob(j) PROVE MarkedIsInABatch'
  <2>1. \A k \in Jobs : store'[k].marked => store[k].marked
    BY <1>9 DEF UpdateJob, RemoveJob, ListsInv, Tidy, CopiesInv, Unmarked, NoJob
  <2> QED
    BY <1>9, <2>1, MarksKept DEF UpdateJob, RemoveJob
<1>10. ASSUME NEW j \in Jobs, CommandRemoves(j) \/ TimeComes(j) PROVE MarkedIsInABatch'
  <2>1. \A k \in Jobs : store'[k].marked => store[k].marked
    BY <1>10, LaterTidy DEF CommandRemoves, CommandSaves, TimeComes, ListsInv, Tidy
  <2> QED
    BY <1>10, <2>1, MarksKept DEF CommandRemoves, CommandSaves, TimeComes
<1>11. ASSUME NEW j \in Jobs, NEW b \in BOOLEAN, EnableJob(j, b) \/ CommandEnables(j, b)
       PROVE  MarkedIsInABatch'
  <2>1. \A k \in Jobs : store'[k].marked => store[k].marked
    BY <1>11, WithEnabledTidy DEF EnableJob, CommandEnables, CommandSaves, ListsInv
  <2> QED
    BY <1>11, <2>1, MarksKept DEF EnableJob, CommandEnables, CommandSaves
<1> QED
  BY <1>3, <1>4, <1>5, <1>6, <1>7, <1>8, <1>9, <1>10, <1>11 DEF Next

(* No job is left marked that no loop will settle, through Stop and Start, *)
(* removals, stale updates, failed reads and writes, the cron command and  *)
(* restarts.                                                               *)
THEOREM MarksAreSettled == Spec => []MarkedIsInABatch
<1>1. Init => MarkedIsInABatch
  BY EmptyTidy, UnmarkedNeedsNone DEF Init
<1> QED
  BY <1>1, ListsInit, ListsNext, LoopsInit, LoopsNext, MarksNext, PTL DEF Spec
-----------------------------------------------------------------------------
(* The remaining types: sets of one-shot jobs, and the bounded counters.   *)
CountsInv ==
    /\ oneShots \subseteq Jobs /\ passed \subseteq oneShots
    /\ fired \subseteq oneShots /\ restored \subseteq oneShots
    /\ loading \in BOOLEAN
    /\ nextID \in 1..(MaxJobs + 1)
    /\ events \in Nat

(* Every step keeps them.                                                  *)
LEMMA CountsNext == CountsInv /\ [Next]_vars => CountsInv'
<1> SUFFICES ASSUME CountsInv, [Next]_vars PROVE CountsInv'
  OBVIOUS
<1>0. /\ \A n \in Nat : Spend(n) => events' \in Nat
      /\ \A st : Save(st) => events' \in Nat
      /\ WriteFails => events' \in Nat
  BY DEF Spend, Save, Written, WriteFails, CountsInv
<1>1. ASSUME UNCHANGED <<oneShots, passed, fired, restored, loading, nextID>>, events' \in Nat
      PROVE  CountsInv'
  BY <1>1 DEF CountsInv
<1>2. CASE UNCHANGED <<oneShots, passed, fired, restored, loading, nextID, events>>
  BY <1>2 DEF CountsInv
<1>3. ASSUME NEW r \in Runs, Start(r) \/ Tick(r) \/ LoopEnds(r) PROVE CountsInv'
  BY <1>2, <1>3 DEF Start, Written, Tick, LoopEnds, rest
<1>4. ASSUME NEW r \in Runs, CheckJobs(r) \/ FinishJob(r) PROVE CountsInv'
  BY <1>0, <1>1, <1>2, <1>4 DEF CheckJobs, FinishJob, rest
<1>5. ASSUME NEW r \in Runs, BeginJob(r) PROVE CountsInv'
  BY <1>5 DEF BeginJob, CountsInv
<1>6. CASE StartReadFails \/ StartWriteFails \/ CrashAndRestart \/ LoadWaits
  BY <1>0, <1>6 DEF StartReadFails, StartWriteFails, CrashAndRestart, LoadWaits, rest, CountsInv
<1>7. CASE Stop \/ UNCHANGED vars
  BY <1>2, <1>7 DEF Stop, rest, vars
<1>8. CASE AddJob \/ CommandAdds
  <2>1. nextID' \in 1..(MaxJobs + 1)
    BY <1>8, CronAssumption DEF AddJob, CommandAdds, Jobs, CountsInv
  <2>2. events' \in Nat
    BY <1>0, <1>8 DEF AddJob, CommandAdds, CommandSaves, Written, CountsInv
  <2> QED
    BY <1>8, <2>1, <2>2 DEF AddJob, CommandAdds, CommandSaves, rest, CountsInv
<1>9. CASE LoadReads
  BY <1>0, <1>9 DEF LoadReads, CountsInv
<1>10. CASE CommandOpens
  BY <1>0, <1>1, <1>10 DEF CommandOpens, rest
<1>11. ASSUME NEW j \in Jobs, NEW b \in BOOLEAN,
              \/ RemoveJob(j) \/ EnableJob(j, b)
              \/ CommandRemoves(j) \/ CommandEnables(j, b)
       PROVE  CountsInv'
  BY <1>0, <1>1, <1>11 DEF RemoveJob, EnableJob, CommandRemoves, CommandEnables, CommandSaves, rest
<1>12. ASSUME NEW j \in Jobs, UpdateJob(j) PROVE CountsInv'
  BY <1>0, <1>12 DEF UpdateJob, CountsInv
<1>13. ASSUME NEW j \in Jobs, TimeComes(j) PROVE CountsInv'
  BY <1>13 DEF TimeComes, rest, CountsInv
<1>14. ASSUME NEW j \in Jobs,
              \/ UpdateJob(j) \/ RemoveJob(j) \/ CommandRemoves(j) \/ TimeComes(j)
              \/ \E b \in BOOLEAN : EnableJob(j, b) \/ CommandEnables(j, b)
       PROVE  CountsInv'
  BY <1>11, <1>12, <1>13, <1>14
<1> QED
  BY <1>3, <1>4, <1>5, <1>6, <1>7, <1>8, <1>9, <1>10, <1>14 DEF Next, LoopStep

(* Nothing has happened at first.                                          *)
LEMMA CountsInit == Init => CountsInv
<1>1. MaxJobs \in Nat /\ MaxEvents \in Nat
  BY CronAssumption
<1> SUFFICES ASSUME Init PROVE CountsInv
  OBVIOUS
<1>2. nextID \in 1..(MaxJobs + 1) /\ events \in Nat
  BY <1>1 DEF Init
<1>3. /\ oneShots \subseteq Jobs /\ passed = {} /\ fired = {} /\ restored = {}
      /\ loading \in BOOLEAN
  BY DEF Init
<1> QED
  BY <1>2, <1>3 DEF CountsInv

(* The variables keep their types, and a job that is not in the list       *)
(* leaves nothing of its state behind.                                     *)
THEOREM SchedulerTypeCorrect == Spec => []TypeOK
<1>1. ListsInv /\ LoopsInv /\ CountsInv => TypeOK
  BY DEF ListsInv, CopiesInv, LoopsInv, CountsInv, TypeOK, Tidy
<1> QED
  BY <1>1, ListsInit, ListsNext, LoopsInit, LoopsNext, CountsInit, CountsNext, PTL DEF Spec
-----------------------------------------------------------------------------
(***************************************************************************)
(* The times of the one-shot jobs: no copy of one, wherever it is, waits   *)
(* for a time that is over, or is due before its time.                     *)
(***************************************************************************)
Timely(e, j) ==
    /\ e.next = "later" => j \notin passed
    /\ e.next = "due" => j \in passed

OnTime(st) == \A j \in oneShots : Timely(st[j], j)

TimesInv == OnTime(store) /\ OnTime(disk) /\ OnTime(draft) /\ OnTime(command.store)

(* A run that is computed anew is on time, and so is none.                 *)
LEMMA ComputedIsTimely ==
    \A j, e : e.next \in {ComputeNextRun(j), "none"} => Timely(e, j)
BY DEF ComputeNextRun, Timely

(* So are the lists that are made of a list that is.                       *)
LEMMA ListsOnTime ==
    ASSUME CountsInv, NEW st \in [Jobs -> Job], OnTime(st)
    PROVE  /\ OnTime(Recover(st)) /\ Recover(st) \in [Jobs -> Job]
           /\ OnTime(RecomputeNextRuns(Recover(st)))
           /\ \A k \in Jobs : \A e : (k \in oneShots => Timely(e, k)) =>
                                 OnTime([st EXCEPT ![k] = e])
           /\ \A k \in Jobs, b \in BOOLEAN : OnTime(WithEnabled(st, k, b))
<1>0. oneShots \subseteq Jobs
  BY DEF CountsInv
<1>1. \A e \in Job : /\ [e EXCEPT !.marked = FALSE] \in Job
                     /\ [e EXCEPT !.marked = FALSE].next = e.next
                     /\ \A n \in {"none", "later"} : [e EXCEPT !.next = n].next = n
  BY DEF Job
<1>2. \A j : ComputeNextRun(j) \in {"none", "later"}
  BY DEF ComputeNextRun
<1>3. OnTime(Recover(st)) /\ Recover(st) \in [Jobs -> Job]
  BY <1>0, <1>1 DEF Recover, OnTime, Timely
<1>4. OnTime(RecomputeNextRuns(Recover(st)))
  <2>1. ASSUME NEW fs \in [Jobs -> Job], OnTime(fs) PROVE OnTime(RecomputeNextRuns(fs))
    <3> SUFFICES ASSUME NEW j \in oneShots PROVE Timely(RecomputeNextRuns(fs)[j], j)
      BY DEF OnTime
    <3>1. j \in Jobs /\ fs[j] \in Job /\ Timely(fs[j], j)
      BY <1>0, <2>1 DEF OnTime
    <3>2. CASE fs[j].enabled
      <4>1. RecomputeNextRuns(fs)[j] = [fs[j] EXCEPT !.next = ComputeNextRun(j)]
        BY <3>1, <3>2 DEF RecomputeNextRuns
      <4>2. RecomputeNextRuns(fs)[j].next = ComputeNextRun(j)
        BY <1>1, <1>2, <3>1, <4>1
      <4> QED
        BY <4>2, ComputedIsTimely
    <3>3. CASE ~fs[j].enabled
      BY <3>1, <3>3 DEF RecomputeNextRuns
    <3> QED
      BY <3>2, <3>3
  <2> QED
    BY <1>3, <2>1
<1>5. \A k \in Jobs : \A e : (k \in oneShots => Timely(e, k)) => OnTime([st EXCEPT ![k] = e])
  BY <1>0 DEF OnTime
<1>6. ASSUME NEW k \in Jobs, NEW b \in BOOLEAN PROVE OnTime(WithEnabled(st, k, b))
  <2> DEFINE n == IF b THEN ComputeNextRun(k) ELSE "none"
             e == [st[k] EXCEPT !.enabled = b, !.next = n]
  <2>1. WithEnabled(st, k, b) = [st EXCEPT ![k] = e]
    BY DEF WithEnabled
  <2>2. n \in {ComputeNextRun(k), "none"}
    OBVIOUS
  <2>3. e.next = n
    <3> HIDE DEF n
    <3> QED
      BY DEF Job
  <2> HIDE DEF e
  <2>4. Timely(e, k)
    BY <2>2, <2>3, ComputedIsTimely
  <2> QED
    BY <1>5, <2>1, <2>4
<1> QED
  BY <1>3, <1>4, <1>5, <1>6

(* The time of a job comes in all its copies at once.                      *)
LEMMA LaterOnTime ==
    ASSUME CountsInv, NEW st \in [Jobs -> Job], OnTime(st), NEW k \in Jobs
    PROVE  \A j \in oneShots :
              LET e == Later(st, k)[j]
                  over == IF k \in oneShots THEN passed \cup {k} ELSE passed
              IN  /\ e.next = "later" => j \notin over
                  /\ e.next = "due" => j \in over
<1> SUFFICES ASSUME NEW j \in oneShots
             PROVE  LET e == Later(st, k)[j]
                        over == IF k \in oneShots THEN passed \cup {k} ELSE passed
                    IN  /\ e.next = "later" => j \notin over
                        /\ e.next = "due" => j \in over
  OBVIOUS
<1>1. j \in Jobs /\ st[j] \in Job /\ Timely(st[j], j)
  BY DEF CountsInv, OnTime
<1>2. CASE j # k
  BY <1>1, <1>2 DEF Later, Timely
<1>3. CASE j = k
  <2> DEFINE n == IF st[k].next = "later" THEN "due" ELSE st[k].next
  <2>1. Later(st, k)[j] = [st[k] EXCEPT !.next = n]
    BY <1>1, <1>3 DEF Later
  <2>2. Later(st, k)[j].next = n
    <3> HIDE DEF n
    <3> QED
      BY <1>1, <1>3, <2>1 DEF Job
  <2> QED
    BY <1>1, <1>3, <2>2 DEF Timely
<1> QED
  BY <1>2, <1>3

(* Every step keeps all the copies on time.                                *)
LEMMA TimesNext == TimesInv /\ ListsInv /\ LoopsInv /\ CountsInv /\ [Next]_vars => TimesInv'
<1> SUFFICES ASSUME TimesInv, ListsInv, LoopsInv, CountsInv, [Next]_vars PROVE TimesInv'
  OBVIOUS
<1>0. /\ store \in [Jobs -> Job] /\ disk \in [Jobs -> Job] /\ draft \in [Jobs -> Job]
      /\ command.store \in [Jobs -> Job] /\ oneShots \subseteq Jobs
  BY DEF ListsInv, CopiesInv, Tidy, CountsInv
<1>1. ASSUME NEW k \in Jobs, TimeComes(k) PROVE TimesInv'
  <2>1. /\ oneShots' = oneShots
        /\ passed' = IF k \in oneShots THEN passed \cup {k} ELSE passed
        /\ store' = Later(store, k) /\ disk' = Later(disk, k) /\ draft' = Later(draft, k)
        /\ command'.store = Later(command.store, k)
    BY <1>1 DEF TimeComes, rest, ListsInv, CopiesInv
  <2>2. OnTime(store)'
    BY <1>0, <2>1, LaterOnTime DEF TimesInv, OnTime, Timely
  <2>3. OnTime(disk)'
    BY <1>0, <2>1, LaterOnTime DEF TimesInv, OnTime, Timely
  <2>4. OnTime(draft)'
    BY <1>0, <2>1, LaterOnTime DEF TimesInv, OnTime, Timely
  <2>5. OnTime(command.store)'
    BY <1>0, <2>1, LaterOnTime DEF TimesInv, OnTime, Timely
  <2> QED
    BY <2>2, <2>3, <2>4, <2>5 DEF TimesInv
<1> SUFFICES ASSUME \A k \in Jobs : ~TimeComes(k) PROVE TimesInv'
  BY <1>1
<1>2. oneShots' = oneShots /\ passed' = passed
  BY DEF Next, vars, rest, StartReadFails, StartWriteFails, Stop, Start, LoopStep, Tick,
     LoopEnds, CheckJobs, BeginJob, FinishJob, AddJob, LoadWaits, LoadReads, CommandOpens,
     CommandAdds, CommandSaves, CrashAndRestart, UpdateJob, RemoveJob, CommandRemoves,
     EnableJob, CommandEnables
<1>3. OnTime(Empty)
  BY <1>0 DEF OnTime, Timely, Empty, NoJob
<1>4. \A k, e : e = NoJob \/ e = NewJob(k) => Timely(e, k)
  BY ComputedIsTimely DEF NoJob, NewJob
<1>5. OnTime(store')
  <2>0. StoreSteps
    BY StepsOfTheStore
  <2>1. CASE store' \in {Recover(disk), RecomputeNextRuns(Recover(disk))}
    BY <1>0, <2>1, ListsOnTime DEF TimesInv
  <2>2. CASE store' = Marked(store, Due)
    <3>1. \A j \in Jobs : Marked(store, Due)[j].next = store[j].next
      BY <1>0 DEF Marked, Job
    <3> QED
      BY <1>0, <2>2, <3>1 DEF TimesInv, OnTime, Timely
  <2>3. ASSUME NEW k \in Jobs, store' = [store EXCEPT ![k] = Settle(k)] PROVE OnTime(store')
    <3>1. k \in oneShots => Settle(k) = NoJob
      BY DEF Settle
    <3> QED
      BY <1>0, <1>4, <2>3, <3>1, ListsOnTime DEF TimesInv
  <2>4. CASE store' = [store EXCEPT ![nextID] = NewJob(nextID)]
    BY <1>0, <1>4, <2>4, ListsOnTime DEF TimesInv
  <2>5. ASSUME NEW k \in Jobs, store' = [store EXCEPT ![k] = draft[k]] PROVE OnTime(store')
    <3>1. k \in oneShots => Timely(draft[k], k)
      BY DEF TimesInv, OnTime
    <3> QED
      BY <1>0, <2>5, <3>1, ListsOnTime DEF TimesInv
  <2>6. ASSUME NEW k \in Jobs, store' = [store EXCEPT ![k] = NoJob] PROVE OnTime(store')
    BY <1>0, <1>4, <2>6, ListsOnTime DEF TimesInv
  <2>7. ASSUME NEW k \in Jobs, NEW b \in BOOLEAN, store' = WithEnabled(store, k, b)
        PROVE  OnTime(store')
    BY <1>0, <2>7, ListsOnTime DEF TimesInv
  <2>8. CASE store' = store \/ store' = Empty
    BY <1>3, <2>8 DEF TimesInv
  <2> QED
    BY <2>0, <2>1, <2>2, <2>3, <2>4, <2>5, <2>6, <2>7, <2>8 DEF StoreSteps
<1>6. OnTime(disk')
  <2>1. CASE disk' \in {disk, store'}
    BY <1>5, <2>1 DEF TimesInv
  <2>2. ASSUME NEW k, NEW b \in BOOLEAN,
               CommandAdds \/ (k \in Jobs /\ (CommandRemoves(k) \/ CommandEnables(k, b)))
        PROVE  OnTime(disk')
    <3>1. PICK st : CommandSaves(st) /\ OnTime(st)
      BY <1>0, <1>4, <2>2, ListsOnTime
         DEF CommandAdds, CommandRemoves, CommandEnables, TimesInv
    <3> QED
      BY <3>1 DEF CommandSaves, Save, Written, WriteFails, TimesInv
  <2>3. ASSUME NEW r \in Runs, Start(r) \/ LoopStep(r) PROVE disk' \in {disk, store'}
    BY <2>3 DEF Start, LoopStep, Tick, LoopEnds, CheckJobs, BeginJob, FinishJob, Save,
       Written, WriteFails
  <2>4. CASE StartReadFails \/ StartWriteFails \/ Stop \/ AddJob \/ LoadWaits \/ LoadReads
    BY <2>1, <2>4 DEF StartReadFails, StartWriteFails, Stop, AddJob, LoadWaits, LoadReads,
       Written, WriteFails
  <2>5. CASE CrashAndRestart \/ CommandOpens \/ UNCHANGED vars
    BY <2>1, <2>5 DEF CrashAndRestart, CommandOpens, vars
  <2>6. ASSUME NEW k \in Jobs, NEW b \in BOOLEAN, UpdateJob(k) \/ RemoveJob(k) \/ EnableJob(k, b)
        PROVE  disk' \in {disk, store'}
    BY <2>6 DEF UpdateJob, RemoveJob, EnableJob, Save, Written, WriteFails
  <2>7. ASSUME NEW k \in Jobs,
               \/ UpdateJob(k) \/ RemoveJob(k) \/ CommandRemoves(k)
               \/ \E b \in BOOLEAN : EnableJob(k, b) \/ CommandEnables(k, b)
        PROVE  OnTime(disk')
    BY <2>1, <2>2, <2>6, <2>7
  <2> QED
    BY <2>1, <2>2, <2>3, <2>4, <2>5, <2>7 DEF Next
<1>7. OnTime(draft')
  <2>1. \A k \in Jobs : /\ OnTime([draft EXCEPT ![k] = NoJob])
                       /\ OnTime([draft EXCEPT ![k] = NewJob(k)])
    BY <1>0, <1>4, ListsOnTime DEF TimesInv
  <2>2. CASE AddJob
    BY <2>1, <2>2 DEF AddJob, TimesInv
  <2>3. ASSUME NEW k \in Jobs, UpdateJob(k) PROVE OnTime(draft')
    BY <2>1, <2>3 DEF UpdateJob
  <2>4. CASE draft' \in {draft, Empty}
    BY <1>3, <2>4 DEF TimesInv
  <2>5. ASSUME NEW r \in Runs, Start(r) \/ LoopStep(r) PROVE draft' = draft
    BY <2>5 DEF Start, LoopStep, Tick, LoopEnds, CheckJobs, BeginJob, FinishJob
  <2>6. CASE StartReadFails \/ StartWriteFails \/ Stop \/ LoadWaits \/ LoadReads \/ CommandOpens
    BY <2>4, <2>6 DEF StartReadFails, StartWriteFails, Stop, LoadWaits, LoadReads, CommandOpens
  <2>7. CASE CommandAdds \/ CrashAndRestart \/ UNCHANGED vars
    BY <2>4, <2>7 DEF CommandAdds, CommandSaves, CrashAndRestart, vars
  <2>8. ASSUME NEW k \in Jobs,
               \/ RemoveJob(k) \/ CommandRemoves(k)
               \/ \E b \in BOOLEAN : EnableJob(k, b) \/ CommandEnables(k, b)
        PROVE  OnTime(draft')
    BY <2>4, <2>8 DEF RemoveJob, CommandRemoves, EnableJob, CommandEnables, CommandSaves
  <2> QED
    BY <2>2, <2>3, <2>4, <2>5, <2>6, <2>7, <2>8 DEF Next
<1>8. OnTime(command'.store)
  <2>1. CASE command' = command
    BY <2>1 DEF TimesInv
  <2>2. CASE command' = Idle
    BY <1>3, <2>2 DEF Idle
  <2>3. CASE CommandOpens
    BY <1>0, <1>3, <2>3, ListsOnTime DEF CommandOpens, TimesInv
  <2>4. ASSUME NEW r \in Runs, Start(r) \/ LoopStep(r) PROVE command' = command
    BY <2>4 DEF Start, LoopStep, Tick, LoopEnds, CheckJobs, BeginJob, FinishJob
  <2>5. CASE StartReadFails \/ StartWriteFails \/ Stop \/ AddJob \/ LoadWaits \/ LoadReads
    BY <2>1, <2>5 DEF StartReadFails, StartWriteFails, Stop, AddJob, LoadWaits, LoadReads
  <2>6. CASE CommandAdds \/ CrashAndRestart \/ UNCHANGED vars
    BY <2>1, <2>2, <2>6 DEF CommandAdds, CommandSaves, CrashAndRestart, vars
  <2>7. ASSUME NEW k \in Jobs,
               \/ UpdateJob(k) \/ RemoveJob(k) \/ CommandRemoves(k)
               \/ \E b \in BOOLEAN : EnableJob(k, b) \/ CommandEnables(k, b)
        PROVE  OnTime(command'.store)
    BY <2>1, <2>2, <2>7 DEF UpdateJob, RemoveJob, CommandRemoves, EnableJob, CommandEnables,
       CommandSaves
  <2> QED
    BY <2>1, <2>3, <2>4, <2>5, <2>6, <2>7 DEF Next
<1> QED
  BY <1>2, <1>5, <1>6, <1>7, <1>8 DEF TimesInv, OnTime, Timely

(* Nothing has a time at first.                                            *)
LEMMA TimesInit == Init => TimesInv
BY DEF Init, TimesInv, OnTime, Timely, Empty, Idle, NoJob
-----------------------------------------------------------------------------
(***************************************************************************)
(* One-shot jobs run once.  One that has been taken into a batch, or has   *)
(* been executed, is over and is not picked up again while the service     *)
(* runs; it is in one batch only; and it is executed as the last thing     *)
(* that happens to it there.  A copy that was never taken may be picked up *)
(* at any time, and Load and UpdateJob may put one back: hence "restored". *)
(***************************************************************************)
Pending(e) == e.enabled /\ e.next = "due" /\ ~e.marked

Taken(j) == j \in fired \/ \E r \in Runs : j \in runs[r].batch

AtWork == \A r \in Runs : runs[r].phase \in {"batch", "executing"} => runs[r].batch # {}

OnceInv ==
    \A j \in oneShots \ restored :
       /\ Taken(j) => j \in passed /\ (running => ~Pending(store[j]))
       /\ \A r, s \in Runs : j \in runs[r].batch /\ j \in runs[s].batch => r = s
       /\ \A r \in Runs : j \in fired /\ j \in runs[r].batch =>
                             runs[r].phase = "executing" /\ Current(r) = j

(* A set of natural numbers that is not empty has a least element.         *)
LEMMA LeastNumber ==
    ASSUME NEW T \in SUBSET Nat, T # {}
    PROVE  \E x \in T : \A y \in T : x <= y
<1> DEFINE R == OpToRel(<, Nat)
<1>1. PICK x \in T : \A y \in T : <<y, x>> \notin R
  <2>1. IsWellFoundedOn(R, Nat)
    BY NatLessThanWellFounded
  <2> HIDE DEF R
  <2> QED
    BY <2>1, WFMin
<1>2. \A y \in T : ~(y < x)
  BY <1>1 DEF OpToRel
<1> QED
  BY <1>2

(* A loop that has work works on a job of its batch.                       *)
LEMMA CurrentIsInBatch ==
    ASSUME NEW r \in Runs, runs[r].batch \in SUBSET Jobs, runs[r].batch # {}
    PROVE  Current(r) \in runs[r].batch
<1>1. \E k \in runs[r].batch : \A l \in runs[r].batch : k <= l
  <2>1. runs[r].batch \in SUBSET Nat
    BY CronAssumption DEF Jobs
  <2> QED
    BY <2>1, LeastNumber
<1> QED
  BY <1>1, Zenon DEF Current

(* Where the loops stay, only the list matters.                            *)
LEMMA OnceKept ==
    ASSUME OnceInv, AtWork,
           \A r \in Runs : runs'[r].phase = runs[r].phase /\ runs'[r].batch = runs[r].batch,
           fired' = fired, oneShots' = oneShots,
           restored \subseteq restored', passed \subseteq passed',
           \A j \in oneShots \ restored' :
              running' /\ Taken(j) /\ j \in passed =>
                 (store'[j] = store[j] /\ running) \/ ~Pending(store'[j])
    PROVE  OnceInv' /\ AtWork'
<1>1. \A r \in Runs : Current(r)' = Current(r)
  BY DEF Current
<1>2. \A j : Taken(j)' <=> Taken(j)
  BY DEF Taken
<1>3. AtWork'
  BY DEF AtWork
<1>4. ASSUME NEW j \in oneShots' \ restored'
      PROVE  /\ Taken(j)' => j \in passed' /\ (running' => ~Pending(store'[j]))
             /\ \A r, s \in Runs : j \in runs'[r].batch /\ j \in runs'[s].batch => r = s
             /\ \A r \in Runs : j \in fired' /\ j \in runs'[r].batch =>
                                   runs'[r].phase = "executing" /\ Current(r)' = j
  <2>1. j \in oneShots \ restored
    OBVIOUS
  <2>2. Taken(j)' => j \in passed' /\ (running' => ~Pending(store'[j]))
    BY <1>2, <2>1 DEF OnceInv
  <2> QED
    BY <1>1, <2>1, <2>2 DEF OnceInv
<1>5. OnceInv'
  BY <1>4 DEF OnceInv, Pending
<1> QED
  BY <1>3, <1>5

(* A loop takes a job that is due into its batch, executes it, and lets go *)
(* of it.                                                                  *)
LEMMA OnceInLoops ==
    ASSUME OnceInv, AtWork, TimesInv, ListsInv, LoopsInv, CountsInv,
           NEW r \in Runs, LoopStep(r)
    PROVE  OnceInv' /\ AtWork'
<1>0. /\ \A s \in Runs : s # r => runs'[s] = runs[s]
      /\ runs[r].batch \in SUBSET Jobs /\ runs'[r].batch \in SUBSET Jobs
      /\ running' = running /\ store \in [Jobs -> Job]
  BY LoopStepDoes DEF LoopsInv, Loop, ListsInv, Tidy
<1>1. \A s \in Runs : s # r => Current(s)' = Current(s)
  BY <1>0 DEF Current
<1>2. oneShots' = oneShots /\ restored' = restored /\ passed' = passed
  BY DEF LoopStep, Tick, LoopEnds, CheckJobs, BeginJob, FinishJob, rest
<1>3. CASE CheckJobs(r)
  <2>1. runs[r].batch = {} /\ runs[r].phase = "ticked"
    BY <1>3 DEF CheckJobs, LoopsInv
  <2>2. CASE ~running
    <3>1. store' = store /\ runs' = [runs EXCEPT ![r] = [runs[r] EXCEPT !.phase = "waiting"]]
      BY <1>3, <2>2 DEF CheckJobs
    <3>2. runs'[r].batch = {} /\ runs'[r].phase = "waiting"
      BY <2>1, <3>1, PhaseUpdate DEF LoopsInv
    <3>3. fired' = fired
      BY <1>3 DEF CheckJobs, rest
    <3>4. \A j : Taken(j)' <=> Taken(j)
      BY <1>0, <2>1, <3>2, <3>3 DEF Taken
    <3>5. AtWork'
      BY <1>0, <3>2 DEF AtWork
    <3> QED
      BY <1>0, <1>1, <1>2, <2>1, <2>2, <3>1, <3>2, <3>3, <3>4, <3>5 DEF OnceInv
  <2>3. CASE running
    <3>1. /\ store' = Marked(store, Due) /\ fired' = fired
          /\ runs'[r].batch = Due
      BY <1>3, <2>3, LoopStepDoes DEF CheckJobs, rest
    <3>2. runs'[r].phase = IF Due = {} THEN "waiting" ELSE "batch"
      BY <1>3, <2>3 DEF CheckJobs, LoopsInv, Loop
    <3>3. AtWork'
      BY <1>0, <3>1, <3>2 DEF AtWork
    <3>4. \A j \in Jobs : /\ store'[j].marked <=> store[j].marked \/ j \in Due
                         /\ store'[j].next = store[j].next
                         /\ store'[j].enabled = store[j].enabled
      <4>1. \A j \in Due : j \in Jobs /\ store[j].present
        BY DEF Due, ListsInv, Tidy, NoJob
      <4>2. \A j \in Jobs : store'[j].marked <=> store[j].marked \/ j \in Due
        BY <3>1, <4>1, MarkedTidy DEF ListsInv
      <4>3. \A j \in Jobs : store'[j].next = store[j].next /\ store'[j].enabled = store[j].enabled
        BY <1>0, <3>1 DEF Marked, Job
      <4> QED
        BY <4>2, <4>3
    <3>5. ASSUME NEW j \in oneShots \ restored
          PROVE  /\ Taken(j)' => j \in passed' /\ (running' => ~Pending(store'[j]))
                 /\ \A q, s \in Runs : j \in runs'[q].batch /\ j \in runs'[s].batch => q = s
                 /\ \A s \in Runs : j \in fired' /\ j \in runs'[s].batch =>
                                       runs'[s].phase = "executing" /\ Current(s)' = j
      <4>0. j \in Jobs
        BY DEF CountsInv
      <4>1. CASE j \in Due
        <5>1. Pending(store[j])
          BY <4>1 DEF Due, Pending
        <5>2. j \notin fired /\ \A s \in Runs : j \notin runs[s].batch
          BY <2>3, <5>1 DEF OnceInv, Taken
        <5>3. j \in passed
          BY <4>1 DEF Due, TimesInv, OnTime, Timely
        <5>4. ~Pending(store'[j])
          BY <3>4, <4>0, <4>1 DEF Pending
        <5>5. \A s \in Runs : j \in runs'[s].batch => s = r
          BY <1>0, <5>2
        <5> QED
          BY <1>2, <3>1, <5>2, <5>3, <5>4, <5>5
      <4>2. CASE j \notin Due
        <5>1. j \notin runs'[r].batch
          BY <3>1, <4>2
        <5>2. Taken(j)' => Taken(j)
          BY <1>0, <3>1, <5>1 DEF Taken
        <5>3. ~Pending(store[j]) => ~Pending(store'[j])
          BY <3>4, <4>0 DEF Pending
        <5>4. Taken(j)' => j \in passed' /\ ~Pending(store'[j])
          BY <1>2, <2>3, <5>2, <5>3 DEF OnceInv
        <5>5. \A s \in Runs : j \in runs'[s].batch => s # r /\ j \in runs[s].batch
          BY <1>0, <5>1
        <5> QED
          BY <1>0, <1>1, <3>1, <5>4, <5>5 DEF OnceInv
      <4> QED
        BY <4>1, <4>2
    <3>6. OnceInv'
      BY <1>2, <3>5 DEF OnceInv, Pending
    <3> QED
      BY <3>3, <3>6
  <2> QED
    BY <2>2, <2>3
<1>4. ASSUME Proceed(r), runs[r].phase \in {"batch", "executing"}, fired' = fired,
             \A j \in oneShots : Pending(store'[j]) => Pending(store[j])
      PROVE  OnceInv' /\ AtWork'
  <2> DEFINE left == runs[r].batch \ {Current(r)}
  <2>1. /\ runs'[r].batch = left
        /\ runs'[r].phase = IF left = {} THEN "waiting" ELSE "batch"
    BY <1>0, <1>4 DEF Proceed, LoopsInv, Loop
  <2>2. AtWork'
    BY <1>0, <2>1 DEF AtWork
  <2>3. \A s \in Runs : runs'[s].batch \subseteq runs[s].batch
    BY <1>0, <2>1
  <2>4. ASSUME NEW j \in oneShots \ restored
        PROVE  /\ Taken(j)' => j \in passed' /\ (running' => ~Pending(store'[j]))
               /\ \A q, s \in Runs : j \in runs'[q].batch /\ j \in runs'[s].batch => q = s
               /\ \A s \in Runs : j \in fired' /\ j \in runs'[s].batch =>
                                     runs'[s].phase = "executing" /\ Current(s)' = j
    <3>1. Taken(j)' => Taken(j)
      BY <1>4, <2>3 DEF Taken
    <3>2. Taken(j)' => j \in passed' /\ (running' => ~Pending(store'[j]))
      BY <1>0, <1>2, <1>4, <3>1 DEF OnceInv
    <3>3. \A q, s \in Runs : j \in runs'[q].batch /\ j \in runs'[s].batch => q = s
      BY <2>3 DEF OnceInv
    <3>4. j \in fired => j \notin runs'[r].batch
      BY <2>1 DEF OnceInv
    <3>5. \A s \in Runs : j \in fired' /\ j \in runs'[s].batch =>
                             runs'[s].phase = "executing" /\ Current(s)' = j
      BY <1>0, <1>1, <1>4, <3>4 DEF OnceInv
    <3> QED
      BY <3>2, <3>3, <3>5
  <2>5. OnceInv'
    BY <1>2, <2>4 DEF OnceInv, Pending
  <2> QED
    BY <2>2, <2>5
<1>5. CASE BeginJob(r) /\ ~store[Current(r)].present
  BY <1>4, <1>5 DEF BeginJob
<1>6. CASE FinishJob(r)
  <2>1. \A j \in oneShots : Pending(store'[j]) => Pending(store[j])
    <3>1. \A j \in oneShots : ~Pending(Settle(j))
      BY DEF Settle, Pending, NoJob
    <3>2. store' = [store EXCEPT ![Current(r)] = Settle(Current(r))]
      BY <1>6 DEF FinishJob
    <3> QED
      BY <1>0, <3>1, <3>2 DEF CountsInv
  <2> QED
    BY <1>4, <1>6, <2>1 DEF FinishJob, rest
<1>7. CASE BeginJob(r) /\ store[Current(r)].present
  <2>1. /\ runs[r].phase = "batch" /\ store' = store
        /\ runs' = [runs EXCEPT ![r] = [runs[r] EXCEPT !.phase = "executing"]]
        /\ fired' = fired \cup ({Current(r)} \cap oneShots)
    BY <1>7 DEF BeginJob
  <2>2. runs'[r].phase = "executing" /\ runs'[r].batch = runs[r].batch
    BY <2>1, PhaseUpdate DEF LoopsInv
  <2>3. Current(r)' = Current(r)
    BY <2>2 DEF Current
  <2>4. runs[r].batch # {} /\ Current(r) \in runs[r].batch
    BY <1>0, <2>1, CurrentIsInBatch DEF AtWork
  <2>5. \A s \in Runs : runs'[s].batch = runs[s].batch
    BY <1>0, <2>2
  <2>6. AtWork'
    BY <1>0, <2>2, <2>4 DEF AtWork
  <2>7. ASSUME NEW j \in oneShots \ restored
        PROVE  /\ Taken(j)' => j \in passed' /\ (running' => ~Pending(store'[j]))
               /\ \A q, s \in Runs : j \in runs'[q].batch /\ j \in runs'[s].batch => q = s
               /\ \A s \in Runs : j \in fired' /\ j \in runs'[s].batch =>
                                     runs'[s].phase = "executing" /\ Current(s)' = j
    <3>1. Taken(j)' => Taken(j)
      BY <2>1, <2>4, <2>5 DEF Taken
    <3>2. Taken(j)' => j \in passed' /\ (running' => ~Pending(store'[j]))
      BY <1>0, <1>2, <2>1, <3>1 DEF OnceInv
    <3>3. \A q, s \in Runs : j \in runs'[q].batch /\ j \in runs'[s].batch => q = s
      BY <2>5 DEF OnceInv
    <3>4. CASE j = Current(r)
      <4>1. \A s \in Runs : j \in runs'[s].batch => s = r
        BY <2>4, <2>5, <3>3, <3>4
      <4> QED
        BY <2>2, <2>3, <3>2, <3>3, <3>4, <4>1
    <3>5. CASE j # Current(r)
      <4>1. j \in fired' => j \in fired /\ j \notin runs[r].batch
        BY <2>1, <3>5 DEF OnceInv
      <4>2. \A s \in Runs : j \in fired' /\ j \in runs'[s].batch =>
                               runs'[s].phase = "executing" /\ Current(s)' = j
        BY <1>0, <1>1, <2>5, <4>1 DEF OnceInv
      <4> QED
        BY <3>2, <3>3, <4>2
    <3> QED
      BY <3>4, <3>5
  <2>8. OnceInv'
    BY <1>2, <2>7 DEF OnceInv, Pending
  <2> QED
    BY <2>6, <2>8
<1>8. CASE Tick(r) \/ LoopEnds(r)
  <2>1. PICK p \in {"ticked", "gone"} :
           /\ runs[r].phase = "waiting" /\ store' = store /\ fired' = fired
           /\ runs' = [runs EXCEPT ![r] = [runs[r] EXCEPT !.phase = p]]
    BY <1>8 DEF Tick, LoopEnds, rest
  <2>2. runs[r].batch = {}
    BY <2>1 DEF LoopsInv
  <2>3. runs'[r].batch = {} /\ runs'[r].phase = p
    BY <2>1, <2>2, PhaseUpdate DEF LoopsInv
  <2>4. \A j : Taken(j)' <=> Taken(j)
    BY <1>0, <2>1, <2>2, <2>3 DEF Taken
  <2>5. AtWork'
    BY <1>0, <2>3 DEF AtWork
  <2> QED
    BY <1>0, <1>1, <1>2, <2>1, <2>3, <2>4, <2>5 DEF OnceInv
<1> QED
  BY <1>3, <1>5, <1>6, <1>7, <1>8 DEF LoopStep

(* Every step keeps it so.                                                 *)
LEMMA OnceNext ==
    OnceInv /\ AtWork /\ TimesInv /\ ListsInv /\ LoopsInv /\ CountsInv /\ [Next]_vars
       => OnceInv' /\ AtWork'
<1> SUFFICES ASSUME OnceInv, AtWork, TimesInv, ListsInv, LoopsInv, CountsInv, [Next]_vars
             PROVE  OnceInv' /\ AtWork'
  OBVIOUS
<1>0. /\ store \in [Jobs -> Job] /\ disk \in [Jobs -> Job] /\ draft \in [Jobs -> Job]
      /\ oneShots \subseteq Jobs /\ restored \subseteq oneShots
  BY DEF ListsInv, CopiesInv, Tidy, CountsInv
<1>1. ASSUME NEW r \in Runs, LoopStep(r) PROVE OnceInv' /\ AtWork'
  BY <1>1, OnceInLoops
<1>2. \A k : ~Pending(NoJob) /\ ~Pending(NewJob(k))
  BY DEF Pending, NoJob, NewJob, ComputeNextRun
<1>3. \A k \in Jobs : ~Pending(RecomputeNextRuns(Recover(disk))[k])
  <2> TAKE k \in Jobs
  <2>1. Recover(disk) \in [Jobs -> Job]
    BY ListsOnTime DEF TimesInv, ListsInv, Tidy
  <2>2. PICK fs \in [Jobs -> Job] : fs = Recover(disk)
    BY <2>1
  <2>3. CASE fs[k].enabled
    <3>1. RecomputeNextRuns(fs)[k] = [fs[k] EXCEPT !.next = ComputeNextRun(k)]
      BY <2>3 DEF RecomputeNextRuns
    <3>2. ComputeNextRun(k) \in {"none", "later"}
      BY DEF ComputeNextRun
    <3>3. RecomputeNextRuns(fs)[k].next # "due"
      BY <3>1, <3>2 DEF Job
    <3> QED
      BY <2>2, <3>3 DEF Pending
  <2>4. CASE ~fs[k].enabled
    BY <2>2, <2>4 DEF RecomputeNextRuns, Pending
  <2> QED
    BY <2>3, <2>4
<1>4. ASSUME NEW r \in Runs, Start(r) PROVE OnceInv' /\ AtWork'
  <2>1. /\ runs[r].phase = "none" /\ runs[r].batch = {} /\ running' = TRUE
        /\ runs' = [runs EXCEPT ![r] = [runs[r] EXCEPT !.phase = "waiting"]]
        /\ store' = RecomputeNextRuns(Recover(disk))
        /\ UNCHANGED <<oneShots, fired, restored, passed>>
    BY <1>4 DEF Start, LoopsInv, rest
  <2>2. /\ \A s \in Runs : s # r => runs'[s] = runs[s]
        /\ runs'[r].batch = {} /\ runs'[r].phase = "waiting"
    BY <2>1, PhaseUpdate DEF LoopsInv
  <2>3. \A s \in Runs : s # r => Current(s)' = Current(s)
    BY <2>2 DEF Current
  <2>4. \A j : Taken(j)' <=> Taken(j)
    BY <2>1, <2>2 DEF Taken
  <2>5. AtWork'
    BY <2>2 DEF AtWork
  <2>6. ASSUME NEW j \in oneShots \ restored
        PROVE  /\ Taken(j)' => j \in passed' /\ (running' => ~Pending(store'[j]))
               /\ \A q, s \in Runs : j \in runs'[q].batch /\ j \in runs'[s].batch => q = s
               /\ \A s \in Runs : j \in fired' /\ j \in runs'[s].batch =>
                                     runs'[s].phase = "executing" /\ Current(s)' = j
    <3>1. Taken(j)' => j \in passed' /\ ~Pending(store'[j])
      BY <1>0, <1>3, <2>1, <2>4 DEF OnceInv
    <3> QED
      BY <2>1, <2>2, <2>3, <3>1 DEF OnceInv
  <2>7. OnceInv'
    BY <2>1, <2>6 DEF OnceInv, Pending
  <2> QED
    BY <2>5, <2>7
<1>5. CASE Stop
  <2>1. \A r \in Runs : runs'[r].phase = runs[r].phase /\ runs'[r].batch = runs[r].batch
    BY <1>5, StopUpdate DEF Stop, LoopsInv
  <2> QED
    BY <1>5, <2>1, OnceKept DEF Stop, rest
<1>6. CASE CrashAndRestart
  <2>1. /\ running' = FALSE /\ runs' = [r \in Runs |-> NoLoop]
        /\ UNCHANGED <<oneShots, fired, restored, passed>>
    BY <1>6 DEF CrashAndRestart, rest
  <2>2. \A r \in Runs : runs'[r].phase = "none" /\ runs'[r].batch = {}
    BY <2>1 DEF NoLoop
  <2>3. AtWork'
    BY <2>2 DEF AtWork
  <2>4. \A j \in oneShots \ restored : Taken(j)' => j \in passed'
    BY <2>1, <2>2 DEF OnceInv, Taken
  <2> QED
    BY <2>1, <2>2, <2>3, <2>4 DEF OnceInv
<1>7. CASE StartReadFails \/ StartWriteFails
  <2>1. running' = FALSE
    BY <1>7 DEF StartReadFails, StartWriteFails, MayStart, LoopsInv
  <2> QED
    BY <1>7, <2>1, OnceKept DEF StartReadFails, StartWriteFails, rest
<1>8. CASE LoadReads
  BY <1>0, <1>8, OnceKept DEF LoadReads
<1>9. CASE AddJob
  <2>1. \A j \in oneShots : store'[j] = store[j] \/ ~Pending(store'[j])
    BY <1>0, <1>2, <1>9 DEF AddJob
  <2>2. \A r \in Runs : runs'[r].phase = runs[r].phase /\ runs'[r].batch = runs[r].batch
    BY <1>9 DEF AddJob
  <2> QED
    BY <1>9, <2>1, <2>2, OnceKept DEF AddJob, rest
<1>10. CASE LoadWaits \/ CommandOpens \/ CommandAdds \/ UNCHANGED vars
  BY <1>10, OnceKept DEF LoadWaits, CommandOpens, CommandAdds, CommandSaves, vars, rest
<1>11. ASSUME NEW k \in Jobs, UpdateJob(k) PROVE OnceInv' /\ AtWork'
  <2>1. \A j \in oneShots \ restored' : j \in passed => store'[j] = store[j]
    BY <1>0, <1>11 DEF UpdateJob
  <2> QED
    BY <1>11, <2>1, OnceKept DEF UpdateJob
<1>12. ASSUME NEW k \in Jobs, RemoveJob(k) PROVE OnceInv' /\ AtWork'
  <2>1. \A j \in oneShots : store'[j] = store[j] \/ ~Pending(store'[j])
    BY <1>0, <1>2, <1>12 DEF RemoveJob
  <2> QED
    BY <1>12, <2>1, OnceKept DEF RemoveJob, rest
<1>13. ASSUME NEW k \in Jobs, NEW b \in BOOLEAN, EnableJob(k, b) PROVE OnceInv' /\ AtWork'
  <2> DEFINE n == IF b THEN ComputeNextRun(k) ELSE "none"
             e == [store[k] EXCEPT !.enabled = b, !.next = n]
  <2>1. store' = [store EXCEPT ![k] = e]
    BY <1>13 DEF EnableJob, WithEnabled
  <2>2. n # "due"
    BY DEF ComputeNextRun
  <2>3. e.next = n
    <3> HIDE DEF n
    <3> QED
      BY <1>0 DEF Job
  <2> HIDE DEF e
  <2>4. \A j \in oneShots : store'[j] = store[j] \/ ~Pending(store'[j])
    BY <1>0, <2>1, <2>2, <2>3 DEF Pending
  <2> QED
    BY <1>13, <2>4, OnceKept DEF EnableJob, rest
<1>14. ASSUME NEW k \in Jobs, CommandRemoves(k) PROVE OnceInv' /\ AtWork'
  BY <1>14, OnceKept DEF CommandRemoves, CommandSaves, rest
<1>15. ASSUME NEW k \in Jobs, NEW b \in BOOLEAN, CommandEnables(k, b) PROVE OnceInv' /\ AtWork'
  BY <1>15, OnceKept DEF CommandEnables, CommandSaves, rest
<1>16. ASSUME NEW k \in Jobs, TimeComes(k) PROVE OnceInv' /\ AtWork'
  <2>1. store' = Later(store, k)
    BY <1>16 DEF TimeComes
  <2>2. \A j \in oneShots : j \in passed => store'[j] = store[j]
    <3> TAKE j \in oneShots
    <3>1. CASE j # k
      BY <1>0, <2>1, <3>1 DEF Later
    <3>2. CASE j = k /\ j \in passed
      <4>1. store[k].next # "later" /\ store[k] \in Job
        BY <1>0, <3>2 DEF TimesInv, OnTime, Timely
      <4>2. store'[k] = [store[k] EXCEPT !.next = store[k].next]
        BY <1>0, <2>1, <4>1 DEF Later
      <4> QED
        BY <3>2, <4>1, <4>2 DEF Job
    <3> QED
      BY <3>1, <3>2
  <2> QED
    BY <1>16, <2>2, OnceKept DEF TimeComes, rest
<1> QED
  <2>1. ASSUME NEW k \in Jobs,
               \/ UpdateJob(k) \/ RemoveJob(k) \/ CommandRemoves(k) \/ TimeComes(k)
               \/ \E b \in BOOLEAN : EnableJob(k, b) \/ CommandEnables(k, b)
        PROVE  OnceInv' /\ AtWork'
    BY <1>11, <1>12, <1>13, <1>14, <1>15, <1>16, <2>1
  <2> QED
    BY <1>1, <1>4, <1>5, <1>6, <1>7, <1>8, <1>9, <1>10, <2>1 DEF Next

(* No step begins to execute one that has been executed.                   *)
LEMMA NotBegunAgain ==
    ASSUME OnceInv, AtWork, LoopsInv, [Next]_vars,
           NEW j \in fired \ restored, j \in oneShots, Executing(j)'
    PROVE  Executing(j)
<1> SUFFICES ASSUME NEW r \in Runs, runs'[r].phase = "executing", Current(r)' = j
             PROVE  runs[r].phase = "executing" /\ Current(r) = j
  BY DEF Executing
<1>1. CASE runs'[r] = runs[r]
  BY <1>1 DEF Current
<1>2. ASSUME NEW s \in Runs, LoopStep(s) PROVE runs[r].phase = "executing" /\ Current(r) = j
  <2>1. CASE s # r
    BY <1>1, <1>2, <2>1, LoopStepDoes DEF LoopsInv
  <2>2. CASE s = r /\ BeginJob(r)
    <3>1. runs[r].phase = "batch" /\ runs[r].batch # {} /\ runs[r].batch \in SUBSET Jobs
      BY <2>2 DEF BeginJob, AtWork, LoopsInv, Loop
    <3>2. store[Current(r)].present
      <4> SUFFICES ASSUME ~store[Current(r)].present PROVE FALSE
        OBVIOUS
      <4>1. Proceed(r)
        BY <2>2 DEF BeginJob
      <4> QED
        BY <3>1, <4>1 DEF Proceed, LoopsInv, Loop
    <3>3. runs'[r].batch = runs[r].batch
      BY <1>2, <2>2, <3>1, <3>2, LoopStepDoes DEF CheckJobs, FinishJob
    <3>4. Current(r) = j
      BY <3>3 DEF Current
    <3>5. j \in runs[r].batch
      BY <3>1, <3>4, CurrentIsInBatch
    <3> QED
      BY <3>1, <3>5 DEF OnceInv
  <2>3. CASE s = r /\ ~BeginJob(r)
    <3>1. runs'[r].phase \in {"waiting", "ticked", "batch", "gone"}
      <4>1. runs[r] \in Loop /\ runs \in [Runs -> Loop]
        BY DEF LoopsInv
      <4>2. CASE FinishJob(r)
        BY <4>1, <4>2 DEF FinishJob, Proceed, Loop
      <4>3. CASE CheckJobs(r)
        BY <4>1, <4>3 DEF CheckJobs, Loop
      <4>4. CASE Tick(r) \/ LoopEnds(r)
        BY <4>1, <4>4 DEF Tick, LoopEnds, Loop
      <4> QED
        BY <1>2, <2>3, <4>2, <4>3, <4>4 DEF LoopStep
    <3> QED
      BY <3>1
  <2> QED
    BY <2>1, <2>2, <2>3
<1>3. ASSUME NEW s \in Runs, Start(s) PROVE runs[r].phase = "executing" /\ Current(r) = j
  <2>1. s # r => runs'[r] = runs[r]
    BY <1>3 DEF Start, LoopsInv
  <2>2. s = r => runs'[r].phase = "waiting"
    BY <1>3, PhaseUpdate DEF Start, LoopsInv
  <2> QED
    BY <1>1, <2>1, <2>2
<1>4. CASE Stop
  <2>1. runs'[r].phase = runs[r].phase /\ runs'[r].batch = runs[r].batch
    BY <1>4, StopUpdate DEF Stop, LoopsInv
  <2> QED
    BY <2>1 DEF Current
<1>5. CASE CrashAndRestart
  BY <1>5 DEF CrashAndRestart, NoLoop
<1>6. CASE StartReadFails \/ StartWriteFails \/ AddJob \/ LoadWaits \/ LoadReads
           \/ CommandOpens \/ CommandAdds \/ UNCHANGED vars
  BY <1>1, <1>6 DEF StartReadFails, StartWriteFails, AddJob, LoadWaits, LoadReads,
     CommandOpens, CommandAdds, CommandSaves, vars
<1>7. ASSUME NEW k \in Jobs,
             \/ UpdateJob(k) \/ RemoveJob(k) \/ CommandRemoves(k) \/ TimeComes(k)
             \/ \E b \in BOOLEAN : EnableJob(k, b) \/ CommandEnables(k, b)
      PROVE  runs'[r] = runs[r]
  BY <1>7 DEF UpdateJob, RemoveJob, CommandRemoves, CommandSaves, TimeComes,
     EnableJob, CommandEnables
<1> QED
  BY <1>1, <1>2, <1>3, <1>4, <1>5, <1>6, <1>7 DEF Next

(* A one-shot job that has been executed is not executed again: neither by *)
(* another loop, nor after a Stop and a Start, a removal that could not be *)
(* written, the cron command or a restart, but only when Load or UpdateJob *)
(* has put its old state back.                                             *)
THEOREM OneShotsRunOnce == Spec => OneShotsAreNotRepeated
<1>1. Init => OnceInv /\ AtWork
  BY DEF Init, OnceInv, Taken, AtWork, NoLoop
<1>2. OnceInv /\ AtWork /\ LoopsInv /\ CountsInv /\ [Next]_vars =>
        [\A j \in fired \ restored : Executing(j)' => Executing(j)]_vars
  BY NotBegunAgain DEF CountsInv
<1> QED
  BY <1>1, <1>2, ListsInit, ListsNext, LoopsInit, LoopsNext, CountsInit, CountsNext, TimesInit,
     TimesNext, OnceNext, PTL DEF Spec, OneShotsAreNotRepeated
=============================================================================
