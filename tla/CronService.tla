----------------------------- MODULE CronService -----------------------------
(***************************************************************************)
(* The scheduler of pkg/cron/service.go, in the gateway that keeps it      *)
(* running, and the "v1claw cron" command, a second process that edits the *)
(* same file while the gateway runs.                                       *)
(*                                                                         *)
(* A job's ID doubles as its place in the list: IDs are handed out in      *)
(* order and never reused.  Its NextRunAtMS is "none", still ahead         *)
(* ("later") or reached ("due").  Of LastStatus the code only ever tests   *)
(* "running", which is the field marked; whether the callback returned an  *)
(* error makes no other difference.  DeleteAfterRun always equals          *)
(* Schedule.Kind = "at", for every creator of a job.  "every" and "cron"   *)
(* schedules are taken to be valid, so that they always have a next time.  *)
(***************************************************************************)
EXTENDS Integers, FiniteSets

CONSTANTS
    MaxJobs,         \* bound: jobs ever added
    Shell,           \* the jobs for which the agent gives a shell command
    MaxRuns,         \* bound: loops started by one process
    MaxEvents        \* bound: deaths of the gateway, calls of Load, cron
                     \* commands, failing reads and failing writes, together

Jobs == 1..MaxJobs
Runs == 1..MaxRuns

ASSUME CronAssumption ==
    /\ {MaxJobs, MaxRuns, MaxEvents} \subseteq Nat
    /\ Shell \subseteq Jobs

VARIABLES
    oneShots,     \* the jobs added with an "at" schedule, chosen once
    store,        \* cs.store of the gateway
    disk,         \* the contents of the file
    running,      \* cs.running
    runs,         \* the goroutines of runLoop
    draft,        \* the copy AddJob returned, about to be given to UpdateJob
    loading,      \* a caller of Load is past activeJobs.Wait
    command,      \* the cron command that is running, and its own store
    passed,       \* the one-shot jobs whose AtMS is over
    nextID,       \* the next ID generateID returns
    events,       \* what is left of MaxEvents
    fired,        \* history: the one-shot jobs that have been executed
    restored      \* history: those whose old state Load or UpdateJob put back

vars == <<oneShots, store, disk, running, runs, draft, loading, command, passed,
          nextID, events, fired, restored>>

rest == <<oneShots, fired, restored>>

-----------------------------------------------------------------------------
Job == [present : BOOLEAN, enabled : BOOLEAN, next : {"none", "later", "due"},
        marked : BOOLEAN]

NoJob == [present |-> FALSE, enabled |-> FALSE, next |-> "none", marked |-> FALSE]

Empty == [j \in Jobs |-> NoJob]

Loop == [phase : {"none", "waiting", "ticked", "batch", "executing", "gone"},
         stopped : BOOLEAN, batch : SUBSET Jobs]

NoLoop == [phase |-> "none", stopped |-> FALSE, batch |-> {}]

Idle == [open |-> FALSE, store |-> Empty]

(* Something the bounds limit happens, n at once.                          *)
Spend(n) == events >= n /\ events' = events - n

(* The job whose turn it is: the batch is executed in the list's order.    *)
Current(r) == CHOOSE j \in runs[r].batch : \A k \in runs[r].batch : j <= k

ComputeNextRun(j) == IF j \in passed THEN "none" ELSE "later"

(* A variant with a bug: one-shot jobs that were missed run after all.     *)
RecomputeMissed(st) ==
    [j \in Jobs |-> IF ~st[j].enabled THEN st[j]
                    ELSE [st[j] EXCEPT !.next =
                            IF j \in passed THEN "due" ELSE "later"]]

RecomputeNextRuns(st) ==
    [j \in Jobs |-> IF st[j].enabled THEN [st[j] EXCEPT !.next = ComputeNextRun(j)]
                    ELSE st[j]]

(* A variant with a bug: jobs found running stay so.                       *)
RecoverNothing(file) == file

(* What loadStore makes of a readable file.                                *)
Recover(file) == [j \in Jobs |-> [file[j] EXCEPT !.marked = FALSE]]

(* saveStoreUnsafe(st): the file is replaced as a whole, or not at all.    *)
Written(st) == disk' = st /\ UNCHANGED events
WriteFails  == Spend(1) /\ UNCHANGED disk
Save(st)    == Written(st) \/ WriteFails

-----------------------------------------------------------------------------
(* A variant with a bug: no check of cs.running.                           *)
MayStartAgain == TRUE

MayStart == ~running

StartReadFails ==
    /\ MayStart
    /\ Spend(1)
    /\ store' = Empty
    /\ UNCHANGED <<disk, running, runs, draft, loading, command, passed,
                   nextID, rest>>

StartWriteFails ==
    /\ MayStart
    /\ store' = RecomputeNextRuns(Recover(disk))
    /\ WriteFails
    /\ UNCHANGED <<running, runs, draft, loading, command, passed, nextID,
                   rest>>

Start(r) ==
    /\ MayStart
    /\ runs[r].phase = "none"
    /\ \A s \in Runs : s < r => runs[s].phase # "none"
    /\ store' = RecomputeNextRuns(Recover(disk))
    /\ Written(store')
    /\ running' = TRUE
    /\ runs' = [runs EXCEPT ![r].phase = "waiting"]
    /\ UNCHANGED <<draft, loading, command, passed, nextID, rest>>

(* Stop closes the current loop's stopChan.                                *)
Stop ==
    /\ running
    /\ running' = FALSE
    /\ runs' = [r \in Runs |-> IF runs[r].phase = "none" THEN runs[r]
                               ELSE [runs[r] EXCEPT !.stopped = TRUE]]
    /\ UNCHANGED <<store, disk, draft, loading, command, passed, nextID,
                   events, rest>>

-----------------------------------------------------------------------------
(* runLoop's select: a tick may win against a stopChan that is closed.     *)
Tick(r) ==
    /\ runs[r].phase = "waiting"
    /\ runs' = [runs EXCEPT ![r].phase = "ticked"]
    /\ UNCHANGED <<store, disk, running, draft, loading, command, passed,
                   nextID, events, rest>>

LoopEnds(r) ==
    /\ runs[r].phase = "waiting" /\ runs[r].stopped
    /\ runs' = [runs EXCEPT ![r].phase = "gone"]
    /\ UNCHANGED <<store, disk, running, draft, loading, command, passed,
                   nextID, events, rest>>

Due == {j \in Jobs : store[j].enabled /\ store[j].next = "due" /\ ~store[j].marked}

Marked(st, js) == [j \in Jobs |-> [st[j] EXCEPT !.marked = @ \/ j \in js]]

(* The critical section of checkJobs.                                      *)
CheckJobs(r) ==
    /\ runs[r].phase = "ticked"
    /\ IF running
       THEN /\ store' = Marked(store, Due)
            /\ Save(store')
            /\ runs' = [runs EXCEPT ![r].phase = IF Due = {} THEN "waiting"
                                                 ELSE "batch",
                                    ![r].batch = Due]
       ELSE /\ runs' = [runs EXCEPT ![r].phase = "waiting"]
            /\ UNCHANGED <<store, disk, events>>
    /\ UNCHANGED <<running, draft, loading, command, passed, nextID, rest>>

(* The current job is done with: on to the next, or back to the select.    *)
Proceed(r) ==
    LET left == runs[r].batch \ {Current(r)} IN
    runs' = [runs EXCEPT ![r].batch = left,
                         ![r].phase = IF left = {} THEN "waiting" ELSE "batch"]

(* executeJobByID up to the callback: the job is looked up once more, but  *)
(* only to see that it is still there.                                     *)
BeginJob(r) ==
    /\ runs[r].phase = "batch"
    /\ IF store[Current(r)].present
       THEN /\ runs' = [runs EXCEPT ![r].phase = "executing"]
            /\ fired' = fired \cup ({Current(r)} \cap oneShots)
       ELSE /\ Proceed(r)
            /\ UNCHANGED fired
    /\ UNCHANGED <<store, disk, running, draft, loading, command, passed,
                   nextID, events, oneShots, restored>>

(* Variants with a bug: the status is left at running; the copy made       *)
(* before the callback is stored.                                          *)
SettleStillMarked(j) ==
    IF j \in oneShots \/ ~store[j].present THEN NoJob
    ELSE [store[j] EXCEPT !.next = "later"]

SettlePutsBack(j) ==
    [present |-> TRUE, enabled |-> TRUE, next |-> ComputeNextRun(j), marked |-> FALSE]

(* What executeJobByID leaves of job j when the callback has returned.     *)
Settle(j) ==
    IF j \in oneShots \/ ~store[j].present THEN NoJob
    ELSE [store[j] EXCEPT !.next = "later", !.marked = FALSE]

FinishJob(r) ==
    /\ runs[r].phase = "executing"
    /\ store' = [store EXCEPT ![Current(r)] = Settle(Current(r))]
    /\ IF store[Current(r)].present THEN Save(store') ELSE UNCHANGED <<disk, events>>
    /\ Proceed(r)
    /\ UNCHANGED <<running, draft, loading, command, passed, nextID, rest>>

-----------------------------------------------------------------------------
NewJob(j) == [present |-> TRUE, enabled |-> TRUE, next |-> ComputeNextRun(j),
              marked |-> FALSE]

(* AddJob, called by the agent's cron tool: when the write fails the       *)
(* caller is told so, but the job stays in the list.                       *)
AddJob ==
    /\ nextID \in Jobs
    /\ nextID' = nextID + 1
    /\ store' = [store EXCEPT ![nextID] = NewJob(nextID)]
    /\ \/ /\ Written(store')
          /\ draft' = IF nextID \in Shell
                      THEN [draft EXCEPT ![nextID] = NewJob(nextID)] ELSE draft
       \/ /\ WriteFails
          /\ UNCHANGED draft
    /\ UNCHANGED <<running, runs, loading, command, passed, rest>>

(* UpdateJob, which the tool calls with AddJob's result to attach the shell*)
(* command: the copy replaces the job, its state included.                 *)
UpdateJob(j) ==
    /\ draft[j].present
    /\ draft' = [draft EXCEPT ![j] = NoJob]
    /\ IF store[j].present
       THEN /\ store' = [store EXCEPT ![j] = draft[j]]
            /\ Save(store')
       ELSE UNCHANGED <<store, disk, events>>
    /\ restored' = restored \cup ({j} \cap passed)
    /\ UNCHANGED <<running, runs, loading, command, passed, nextID,
                   oneShots, fired>>

WithEnabled(st, j, enabled) ==
    [st EXCEPT ![j].enabled = enabled,
               ![j].next = IF enabled THEN ComputeNextRun(j) ELSE "none"]

RemoveJob(j) ==
    /\ store[j].present
    /\ store' = [store EXCEPT ![j] = NoJob]
    /\ Save(store')
    /\ UNCHANGED <<running, runs, draft, loading, command, passed, nextID, rest>>

EnableJob(j, enabled) ==
    /\ store[j].present
    /\ store' = WithEnabled(store, j, enabled)
    /\ Save(store')
    /\ UNCHANGED <<running, runs, draft, loading, command, passed, nextID, rest>>

(* Load waits for the executions in flight, and only then for the lock.    *)
LoadWaits ==
    /\ ~loading
    /\ \A r \in Runs : runs[r].phase # "executing"
    /\ Spend(1)
    /\ loading' = TRUE
    /\ UNCHANGED <<store, disk, running, runs, draft, command, passed, nextID,
                   rest>>

LoadReads ==
    /\ loading
    /\ loading' = FALSE
    /\ \/ store' = Recover(disk) /\ UNCHANGED events
       \/ store' = Empty /\ Spend(1)
    /\ restored' = oneShots
    /\ UNCHANGED <<disk, running, runs, draft, command, passed, nextID,
                   oneShots, fired>>

-----------------------------------------------------------------------------
(* "v1claw cron": NewCronService, which ignores an error of loadStore ...  *)
CommandOpens ==
    /\ ~command.open
    /\ \/ Spend(1) /\ command' = [open |-> TRUE, store |-> Recover(disk)]
       \/ Spend(2) /\ command' = [open |-> TRUE, store |-> Empty]
    /\ UNCHANGED <<store, disk, running, runs, draft, loading, passed, nextID,
                   rest>>

(* ... then one AddJob, RemoveJob or EnableJob on what it read.            *)
CommandSaves(st) ==
    /\ Save(st)
    /\ command' = Idle
    /\ UNCHANGED <<store, running, runs, draft, loading, passed, rest>>

CommandAdds ==
    /\ command.open /\ nextID \in Jobs
    /\ nextID' = nextID + 1
    /\ CommandSaves([command.store EXCEPT ![nextID] = NewJob(nextID)])

CommandRemoves(j) ==
    /\ command.open /\ command.store[j].present
    /\ CommandSaves([command.store EXCEPT ![j] = NoJob])
    /\ UNCHANGED nextID

CommandEnables(j, enabled) ==
    /\ command.open /\ command.store[j].present
    /\ CommandSaves(WithEnabled(command.store, j, enabled))
    /\ UNCHANGED nextID

-----------------------------------------------------------------------------
Later(st, j) == [st EXCEPT ![j].next = IF @ = "later" THEN "due" ELSE @]

(* The clock reaches the next run of job j, in every copy of it.           *)
TimeComes(j) ==
    /\ \/ j \in oneShots /\ j \notin passed
       \/ \E st \in {store, disk, draft, command.store} : st[j].next = "later"
    /\ passed' = IF j \in oneShots THEN passed \cup {j} ELSE passed
    /\ store' = Later(store, j)
    /\ disk' = Later(disk, j)
    /\ draft' = Later(draft, j)
    /\ command' = [command EXCEPT !.store = Later(@, j)]
    /\ UNCHANGED <<running, runs, loading, nextID, events, rest>>

(* The gateway dies and is started again, up to NewCronService.            *)
CrashAndRestart ==
    /\ \/ Spend(1) /\ store' = Recover(disk)
       \/ Spend(2) /\ store' = Empty
    /\ running' = FALSE
    /\ runs' = [r \in Runs |-> NoLoop]
    /\ draft' = Empty
    /\ loading' = FALSE
    /\ UNCHANGED <<disk, command, passed, nextID, rest>>

Init ==
    /\ oneShots \in SUBSET Jobs
    /\ store = Empty /\ disk = Empty /\ draft = Empty
    /\ running = FALSE
    /\ runs = [r \in Runs |-> NoLoop]
    /\ loading = FALSE
    /\ command = Idle
    /\ passed = {}
    /\ nextID = 1
    /\ events = MaxEvents
    /\ fired = {} /\ restored = {}

LoopStep(r) == Tick(r) \/ LoopEnds(r) \/ CheckJobs(r) \/ BeginJob(r) \/ FinishJob(r)

Next ==
    \/ StartReadFails
    \/ StartWriteFails
    \/ Stop
    \/ \E r \in Runs : Start(r) \/ LoopStep(r)
    \/ AddJob
    \/ LoadWaits
    \/ LoadReads
    \/ CommandOpens
    \/ CommandAdds
    \/ CrashAndRestart
    \/ \E j \in Jobs :
          \/ UpdateJob(j) \/ RemoveJob(j) \/ CommandRemoves(j)
          \/ TimeComes(j)
          \/ \E b \in BOOLEAN : EnableJob(j, b) \/ CommandEnables(j, b)

Spec == Init /\ [][Next]_vars

(* The clock advances, goroutines are scheduled and callbacks return.      *)
Fairness ==
    /\ \A j \in Jobs : WF_vars(TimeComes(j))
    /\ \A r \in Runs : WF_vars(LoopStep(r))

FairSpec == Spec /\ Fairness

-----------------------------------------------------------------------------
(* The types of the variables; a job that is not in the list leaves nothing*)
(* of its state behind.                                                    *)
TypeOK ==
    /\ oneShots \subseteq Jobs
    /\ store \in [Jobs -> Job] /\ disk \in [Jobs -> Job] /\ draft \in [Jobs -> Job]
    /\ running \in BOOLEAN /\ loading \in BOOLEAN
    /\ runs \in [Runs -> Loop]
    /\ command \in [open : BOOLEAN, store : [Jobs -> Job]]
    /\ passed \subseteq oneShots
    /\ nextID \in 1..(MaxJobs + 1)
    /\ events \in Nat
    /\ fired \subseteq oneShots /\ restored \subseteq oneShots
    /\ \A j \in Jobs : ~store[j].present => store[j] = NoJob

(* checkJobs skips a job that is marked running, so one that no loop is    *)
(* going to settle would never run again: such a mark never outlives its   *)
(* batch, through Stop and Start, removals, stale updates, failed reads    *)
(* and writes, the cron command and restarts.                              *)
MarkedIsInABatch ==
    \A j \in Jobs : store[j].marked => \E r \in Runs : j \in runs[r].batch

(* A one-shot job is not executed again once it has been, even if the      *)
(* gateway died in the middle, its removal could not be written, or the    *)
(* cron command wrote it back: each Start gives up the jobs whose time is  *)
(* over.  Only Load, which does not, and an UpdateJob that comes after the *)
(* job's time, with AddJob's copy of its state, can repeat one.            *)
Executing(j) == \E r \in Runs : runs[r].phase = "executing" /\ Current(r) = j

OneShotsAreNotRepeated ==
    [][\A j \in fired \ restored : Executing(j)' => Executing(j)]_vars

(* While the service runs, one loop and only one is not told to stop; when *)
(* it does not, none is.                                                   *)
OneOpenLoop ==
    Cardinality({r \in Runs : runs[r].phase # "none" /\ ~runs[r].stopped})
        = IF running THEN 1 ELSE 0

(* A job that is gone from the list comes back only with a whole file: a   *)
(* callback that returns late, or an update, never revives it.             *)
GoneUnlessReloaded ==
    [][\A j \in Jobs :
         ~store[j].present /\ store'[j].present =>
            \/ j = nextID /\ nextID' = nextID + 1
            \/ store' \in {Recover(disk), RecomputeNextRuns(Recover(disk))}]_vars

(* An enabled recurring job of a service that stays started keeps being    *)
(* executed, whatever fails, is edited or was interrupted before, unless   *)
(* somebody goes on re-enabling it, which each time puts off its next run. *)
RecurringJobsRecur ==
    \A j \in Jobs :
        /\ <>[](running /\ store[j].enabled /\ j \notin oneShots)
        /\ <>[][~EnableJob(j, TRUE)]_vars
        => []<>Executing(j)

(* The comment in loadStore says that a job found running is reset so that *)
(* it executes on the next tick: after Start it would have to be due.      *)
RecoveredJobsAreDue ==
    [][\A r \in Runs, j \in Jobs :
         Start(r) /\ disk[j].marked /\ disk[j].enabled => store'[j].next = "due"]_vars

(* The comment in checkJobs says that the mark prevents duplicate          *)
(* execution: no two loops are in one job's callback at the same time.     *)
NoDuplicateExecution ==
    \A r, s \in Runs :
        r # s /\ runs[r].phase = "executing" /\ runs[s].phase = "executing"
            => Current(r) # Current(s)
=============================================================================
