------------------------------ MODULE JobQueue ------------------------------
(***************************************************************************)
(* The persistent priority job queue of pkg/queue/queue.go.                *)
(*                                                                         *)
(* A Queue keeps its jobs in memory and rewrites the whole file after each *)
(* change.  Start launches a polling loop; Stop, or the end of the loop's  *)
(* context, retires it.  A loop that is inside a handler outlives Stop, so *)
(* several loops may coexist.  The process may die at any point; the next  *)
(* one loads the file.                                                     *)
(*                                                                         *)
(* A job's key stands for its *Job pointer and grows with CreatedAt; id is *)
(* the number in the "job_<n>" string.  ScheduledAt is abstracted to       *)
(* whether it has passed (due).                                            *)
(***************************************************************************)
EXTENDS Integers, FiniteSets

CONSTANTS
    Kinds,           \* job kinds
    Priorities,      \* the priorities jobs are submitted with, lower first
    RetryChoices,    \* the maxRetries arguments callers pass
    DueChoices,      \* whether the scheduledAt they pass is already past
    MaxJobs,         \* bound: jobs ever submitted
    MaxRuns,         \* bound: polling loops started by one process
    MaxCrashes,      \* bound: process deaths
    MaxWriteFaults   \* bound: writes of the file that fail

ASSUME QueueAssumption ==
    /\ Priorities \subseteq Int
    /\ RetryChoices \subseteq Int
    /\ Kinds # {}
    /\ DueChoices \subseteq BOOLEAN
    /\ {MaxJobs, MaxRuns, MaxCrashes, MaxWriteFaults} \subseteq Nat

VARIABLES
    jobs,         \* q.jobs: the job behind each key
    disk,         \* the contents of job_queue.json
    handlers,     \* q.handlers: the kinds that have one
    running,      \* q.running
    runID,        \* q.runID: the number of the loop started last
    runs,         \* the polling loops of this process
    jobCounter,   \* jobCounter, which numbers the jobs of one process
    nextKey,      \* the next unused key
    crashes,      \* process deaths so far
    writeFaults,  \* failed writes so far
    calls         \* history: handler invocations per job, over all processes

vars == <<jobs, disk, handlers, running, runID, runs, jobCounter, nextKey,
          crashes, writeFaults, calls>>

loopVars == <<running, runID, runs>>

-----------------------------------------------------------------------------
Keys == 1..MaxJobs
Runs == 1..MaxRuns

Statuses == {"none", "pending", "running", "done", "dead", "purged"}

Job == [id : Nat, kind : Kinds, priority : Int, status : Statuses,
        attempts : Nat, maxRetries : Int, due : BOOLEAN]

Loop == [phase : {"none", "polling", "handling", "leaving", "gone"},
         tick : BOOLEAN, stopped : BOOLEAN, cancelled : BOOLEAN,
         job : 0..MaxJobs]

NoJob == [id |-> 0, kind |-> CHOOSE x \in Kinds : TRUE, priority |-> 0,
          status |-> "none", attempts |-> 0, maxRetries |-> 0, due |-> FALSE]

NoLoop == [phase |-> "none", tick |-> FALSE, stopped |-> FALSE,
           cancelled |-> FALSE, job |-> 0]

Finished == {"done", "dead"}

DefaultRetries == 3

-----------------------------------------------------------------------------
(* save: write a temporary file and rename it over the old one; an error   *)
(* is only logged.  js is the new q.jobs.                                  *)
Save(js) ==
    \/ disk' = js /\ UNCHANGED writeFaults
    \/ /\ writeFaults < MaxWriteFaults
       /\ writeFaults' = writeFaults + 1
       /\ UNCHANGED disk

RegisterHandler(kind) ==
    /\ kind \notin handlers
    /\ handlers' = handlers \cup {kind}
    /\ UNCHANGED <<jobs, disk, loopVars, jobCounter, nextKey, crashes,
                   writeFaults, calls>>

Retries(requested) == IF requested <= 0 THEN DefaultRetries ELSE requested

Enqueue(kind, priority, maxRetries, due) ==
    /\ nextKey \in Keys
    /\ jobs' = [jobs EXCEPT ![nextKey] =
                  [id |-> jobCounter + 1, kind |-> kind, priority |-> priority,
                   status |-> "pending", attempts |-> 0,
                   maxRetries |-> Retries(maxRetries), due |-> due]]
    /\ jobCounter' = jobCounter + 1
    /\ nextKey' = nextKey + 1
    /\ Save(jobs')
    /\ UNCHANGED <<handlers, loopVars, crashes, calls>>

(* The clock reaches the ScheduledAt of job k, in memory and in the file.  *)
ScheduledTimeComes(k) ==
    /\ jobs[k].status = "pending" /\ ~jobs[k].due
    /\ jobs' = [jobs EXCEPT ![k].due = TRUE]
    /\ disk' = IF disk[k].status \in {"none", "purged"} THEN disk
               ELSE [disk EXCEPT ![k].due = TRUE]
    /\ UNCHANGED <<handlers, loopVars, jobCounter, nextKey, crashes,
                   writeFaults, calls>>

-----------------------------------------------------------------------------
(* nextPending: the due jobs, sorted by priority, then by creation time.   *)
Candidates == {k \in Keys : jobs[k].status = "pending" /\ jobs[k].due}

Before(j, k) ==
    \/ jobs[j].priority < jobs[k].priority
    \/ jobs[j].priority = jobs[k].priority /\ j < k

IsNextPending(k) ==
    /\ k \in Candidates
    /\ \A j \in Candidates \ {k} : Before(k, j)

Start ==
    /\ ~running
    /\ runID + 1 \in Runs
    /\ running' = TRUE
    /\ runID' = runID + 1
    /\ runs' = [runs EXCEPT ![runID + 1] = [NoLoop EXCEPT !.phase = "polling"]]
    /\ UNCHANGED <<jobs, disk, handlers, jobCounter, nextKey, crashes,
                   writeFaults, calls>>

(* The ticker's channel holds one tick.  Stop stops the ticker, but a tick *)
(* already in the channel stays there.                                     *)
TickerFires(r) ==
    /\ running /\ r = runID
    /\ ~runs[r].tick
    /\ runs' = [runs EXCEPT ![r].tick = TRUE]
    /\ UNCHANGED <<jobs, disk, handlers, running, runID, jobCounter, nextKey,
                   crashes, writeFaults, calls>>

ContextEnds(r) ==
    /\ runs[r].phase \in {"polling", "handling"}
    /\ ~runs[r].cancelled
    /\ runs' = [runs EXCEPT ![r].cancelled = TRUE]
    /\ UNCHANGED <<jobs, disk, handlers, running, runID, jobCounter, nextKey,
                   crashes, writeFaults, calls>>

(* processNext with nothing to do: no due job, or no handler for the first *)
(* one, in which case the jobs behind it wait too.                         *)
IdleTick(r) ==
    /\ runs[r].phase = "polling" /\ runs[r].tick
    /\ \A k \in Keys : IsNextPending(k) => jobs[k].kind \notin handlers
    /\ runs' = [runs EXCEPT ![r].tick = FALSE]
    /\ UNCHANGED <<jobs, disk, handlers, running, runID, jobCounter, nextKey,
                   crashes, writeFaults, calls>>

(* The first critical section of processNext and the call of the handler.  *)
Claim(r, k) ==
    /\ runs[r].phase = "polling" /\ runs[r].tick
    /\ IsNextPending(k)
    /\ jobs[k].kind \in handlers
    /\ jobs' = [jobs EXCEPT ![k].status = "running", ![k].attempts = @ + 1]
    /\ Save(jobs')
    /\ calls' = [calls EXCEPT ![k] = @ + 1]
    /\ runs' = [runs EXCEPT ![r].phase = "handling", ![r].tick = FALSE,
                            ![r].job = k]
    /\ UNCHANGED <<handlers, running, runID, jobCounter, nextKey, crashes>>

(* Variants of AfterFailure with a bug, for the mutation runs: the retry   *)
(* bound off by one, a retry left marked running.                          *)
AfterFailureOffByOne(j) ==
    IF j.attempts > j.maxRetries
    THEN [j EXCEPT !.status = "dead"]
    ELSE [j EXCEPT !.status = "pending", !.due = FALSE]

AfterFailureStuck(j) ==
    IF j.attempts >= j.maxRetries
    THEN [j EXCEPT !.status = "dead"]
    ELSE [j EXCEPT !.due = FALSE]

(* What processNext makes of job j when its handler returns.               *)
AfterFailure(j) ==
    IF j.attempts >= j.maxRetries
    THEN [j EXCEPT !.status = "dead"]
    ELSE [j EXCEPT !.status = "pending", !.due = FALSE]

Settle(j, ok) == IF ok THEN [j EXCEPT !.status = "done"] ELSE AfterFailure(j)

(* The second critical section of processNext.                             *)
HandlerReturns(r, ok) ==
    /\ runs[r].phase = "handling"
    /\ jobs' = [jobs EXCEPT ![runs[r].job] = Settle(@, ok)]
    /\ Save(jobs')
    /\ runs' = [runs EXCEPT ![r].phase = "polling", ![r].job = 0]
    /\ UNCHANGED <<handlers, running, runID, jobCounter, nextKey, crashes,
                   calls>>

-----------------------------------------------------------------------------
(* Variants with a bug: the run number is not compared; stopCh stays open. *)
StopWithAnyRunID(id, after) ==
    IF running
    THEN /\ running' = FALSE
         /\ runs' = [after EXCEPT ![runID].stopped = TRUE]
    ELSE /\ runs' = after
         /\ UNCHANGED running

StopWithoutClosing(id, after) ==
    /\ running' = (running /\ id # 0 /\ id # runID)
    /\ runs' = after

(* stopWithRunID under the lock; 0 stands for the caller of Stop.  after   *)
(* is runs with the caller's own step already made.                        *)
StopWithRunID(id, after) ==
    IF running /\ (id = 0 \/ id = runID)
    THEN /\ running' = FALSE
         /\ runs' = [after EXCEPT ![runID].stopped = TRUE]
    ELSE /\ runs' = after
         /\ UNCHANGED running

Stop ==
    /\ running
    /\ StopWithRunID(0, runs)
    /\ UNCHANGED <<jobs, disk, handlers, runID, jobCounter, nextKey, crashes,
                   writeFaults, calls>>

(* The goroutine returns; what is left in its channels no longer matters.  *)
Gone(loop) == [loop EXCEPT !.phase = "gone", !.tick = FALSE, !.cancelled = FALSE]

(* The loop's select takes <-stopCh.                                       *)
LeaveOnStop(r) ==
    /\ runs[r].phase = "polling" /\ runs[r].stopped
    /\ runs' = [runs EXCEPT ![r] = Gone(@)]
    /\ UNCHANGED <<jobs, disk, handlers, running, runID, jobCounter, nextKey,
                   crashes, writeFaults, calls>>

(* The loop's select takes <-ctx.Done(); it has not got the lock yet.      *)
LeaveOnCancel(r) ==
    /\ runs[r].phase = "polling" /\ runs[r].cancelled
    /\ runs' = [runs EXCEPT ![r].phase = "leaving"]
    /\ UNCHANGED <<jobs, disk, handlers, running, runID, jobCounter, nextKey,
                   crashes, writeFaults, calls>>

LoopStopsItself(r) ==
    /\ runs[r].phase = "leaving"
    /\ StopWithRunID(r, [runs EXCEPT ![r] = Gone(@)])
    /\ UNCHANGED <<jobs, disk, handlers, runID, jobCounter, nextKey, crashes,
                   writeFaults, calls>>

-----------------------------------------------------------------------------
(* Purge drops the finished jobs created before a cutoff.                  *)
Purge(cutoff) ==
    LET old == {k \in Keys : k <= cutoff /\ jobs[k].status \in Finished} IN
    /\ old # {}
    /\ jobs' = [k \in Keys |-> IF k \in old
                               THEN [jobs[k] EXCEPT !.status = "purged"]
                               ELSE jobs[k]]
    /\ Save(jobs')
    /\ UNCHANGED <<handlers, loopVars, jobCounter, nextKey, crashes, calls>>

(* Variants with a bug: the reset of running jobs missing, resetting the   *)
(* attempts too, or resetting finished jobs.                               *)
LoadWithoutReset(file) == file

LoadForgetsAttempts(file) ==
    [k \in Keys |-> IF file[k].status = "running"
                    THEN [file[k] EXCEPT !.status = "pending", !.attempts = 0]
                    ELSE file[k]]

LoadResetsFinished(file) ==
    [k \in Keys |-> IF file[k].status \in {"running"} \cup Finished
                    THEN [file[k] EXCEPT !.status = "pending"]
                    ELSE file[k]]

(* NewQueue on the file's contents: jobs that were running are pending.    *)
Load(file) ==
    [k \in Keys |-> IF file[k].status = "running"
                    THEN [file[k] EXCEPT !.status = "pending"]
                    ELSE file[k]]

(* The process dies, a handler's panic included, and a new one starts.     *)
CrashAndRestart ==
    /\ crashes < MaxCrashes
    /\ crashes' = crashes + 1
    /\ jobs' = Load(disk)
    /\ handlers' = {}
    /\ running' = FALSE
    /\ runID' = 0
    /\ runs' = [r \in Runs |-> NoLoop]
    /\ jobCounter' = 0
    /\ UNCHANGED <<disk, nextKey, writeFaults, calls>>

-----------------------------------------------------------------------------
Init ==
    /\ jobs = [k \in Keys |-> NoJob]
    /\ disk = [k \in Keys |-> NoJob]
    /\ handlers = {}
    /\ running = FALSE
    /\ runID = 0
    /\ runs = [r \in Runs |-> NoLoop]
    /\ jobCounter = 0
    /\ nextKey = 1
    /\ crashes = 0
    /\ writeFaults = 0
    /\ calls = [k \in Keys |-> 0]

LoopStep(r) ==
    \/ IdleTick(r)
    \/ \E k \in Keys : Claim(r, k)
    \/ LeaveOnStop(r)
    \/ LeaveOnCancel(r)
    \/ LoopStopsItself(r)

Next ==
    \/ \E kind \in Kinds : RegisterHandler(kind)
    \/ \E kind \in Kinds, p \in Priorities, n \in RetryChoices, d \in DueChoices :
          Enqueue(kind, p, n, d)
    \/ \E k \in Keys : ScheduledTimeComes(k)
    \/ Start
    \/ Stop
    \/ \E r \in Runs : TickerFires(r)
    \/ \E r \in Runs : ContextEnds(r)
    \/ \E r \in Runs : LoopStep(r)
    \/ \E r \in Runs, ok \in BOOLEAN : HandlerReturns(r, ok)
    \/ \E k \in Keys : Purge(k)
    \/ CrashAndRestart

Spec == Init /\ [][Next]_vars

(* Clocks advance, tickers fire, goroutines are scheduled and handlers     *)
(* return.  Callers owe nothing: no fairness on the methods they call.     *)
Fairness ==
    /\ \A k \in Keys : WF_vars(ScheduledTimeComes(k))
    /\ \A r \in Runs : WF_vars(TickerFires(r))
    /\ \A r \in Runs : WF_vars(LoopStep(r))
    /\ \A r \in Runs : WF_vars(\E ok \in BOOLEAN : HandlerReturns(r, ok))

FairSpec == Spec /\ Fairness

-----------------------------------------------------------------------------
(* The types of the variables.                                             *)
TypeOK ==
    /\ jobs \in [Keys -> Job]
    /\ disk \in [Keys -> Job]
    /\ handlers \subseteq Kinds
    /\ running \in BOOLEAN
    /\ runID \in 0..MaxRuns
    /\ runs \in [Runs -> Loop]
    /\ jobCounter \in Nat
    /\ nextKey \in Nat
    /\ crashes \in Nat
    /\ writeFaults \in Nat
    /\ calls \in [Keys -> Nat]

Handles(r, k) == runs[r].phase = "handling" /\ runs[r].job = k

(* Within one process a job is marked running exactly while one loop is in *)
(* its handler: Stop and Start, with the old loop still in a handler,      *)
(* never let two loops execute one job, Purge never takes a job from under *)
(* its handler, and a restart never leaves a job marked running that no    *)
(* loop will finish (processNext's unlock around the handler call).        *)
RunningIffHandled ==
    \A k \in Keys :
        /\ jobs[k].status = "running" <=> \E r \in Runs : Handles(r, k)
        /\ \A r, s \in Runs : Handles(r, k) /\ Handles(s, k) => r = s

(* MaxRetries bounds the executions of a job, except that each process     *)
(* death can buy it one more: the reset in NewQueue does not look at the   *)
(* attempts already spent.                                                 *)
AttemptsBounded ==
    \A k \in Keys :
        jobs[k].status # "none" =>
            jobs[k].attempts <= jobs[k].maxRetries + crashes

(* No invocation of a handler escapes the count that bounds retries, not   *)
(* even when the process dies inside it, unless a write of the file failed:*)
(* the attempt is on disk before the handler starts.                       *)
EveryCallIsCounted ==
    \A k \in Keys : calls[k] <= jobs[k].attempts + writeFaults

(* q.running and the loops agree: exactly the current loop is live while   *)
(* running, so a loop can neither survive Stop nor be left for dead while  *)
(* Start refuses to launch another.                                        *)
OnlyTheCurrentLoopIsOpen ==
    \A r \in Runs :
        runs[r].phase # "none" /\ ~runs[r].stopped <=> running /\ r = runID

(* A loop is retired only by Stop or by the end of its own context: the    *)
(* late exit of an earlier loop never retires its successor (the runID     *)
(* check of stopWithRunID).                                                *)
RetiredForAReason ==
    [][\A r \in Runs :
         ~runs[r].stopped /\ runs'[r].stopped => runs[r].cancelled \/ Stop]_vars

(* The file keeps the promise of JobLedger across crashes and failed       *)
(* writes: pending and running are both open.                              *)
StageOf(status) ==
    IF status = "none" THEN "absent"
    ELSE IF status \in {"pending", "running"} THEN "open" ELSE status

LedgerView(js) == [k \in Keys |-> [stage |-> StageOf(js[k].status),
                                   tries |-> js[k].attempts]]

Ledger == INSTANCE JobLedger WITH ledger <- LedgerView(disk)

ImplementsLedger == Ledger!Spec

(* Once every kind has its handler and the queue stays started, every job  *)
(* reaches a final state, whatever failed, stopped or died before: retries *)
(* come due, and no job is left behind by an earlier loop or process.      *)
Drains ==
    <>[](running /\ handlers = Kinds) =>
        <>[](\A k \in Keys : jobs[k].status \notin {"pending", "running"})

Present(k) == jobs[k].status \notin {"none", "purged"}

(* GetJob: the first job of the list that has the ID.                      *)
GetJob(id) ==
    CHOOSE k \in Keys : /\ Present(k) /\ jobs[k].id = id
                        /\ \A j \in Keys : Present(j) /\ jobs[j].id = id => k <= j

(* queue.go 17 calls the IDs collision-free within a process lifetime, and *)
(* GetJob's comment says that it returns a job by its ID: in the queue of  *)
(* one process the ID that Enqueue returned finds the job it was given to. *)
EveryIdFindsItsJob == \A k \in Keys : Present(k) => GetJob(jobs[k].id) = k
=============================================================================
