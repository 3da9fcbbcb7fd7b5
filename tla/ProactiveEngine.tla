---------------------------- MODULE ProactiveEngine ----------------------------
(***************************************************************************)
(* pkg/proactive/engine.go as the gateway uses it: the routines of the     *)
(* user's day, which a heartbeat that happens in a routine's own minute    *)
(* puts into its prompt, and the log of what the user does.  Both are kept *)
(* in proactive.json; a save that fails is not reported.  Time is counted  *)
(* in the minutes of the day that some routine names, and one other.       *)
(***************************************************************************)
EXTENDS Naturals, TLC

CONSTANTS
    Routines,       \* the enabled routines of the file
    TimeOfDay,      \* each one's minute
    DaysOfWeek,     \* each one's days, all of them when empty
    Minutes,        \* the minutes 0 .. Minutes - 1 of a day that are told apart
    DaysPerYear,
    MaxActivities,  \* 1000 in the code
    MaxTime         \* bound on time

ASSUME EngineAssumption ==
    /\ Minutes \in Nat \ {0} /\ DaysPerYear \in Nat \ {0}
    /\ TimeOfDay \in [Routines -> 0 .. Minutes - 1]
    /\ DaysOfWeek \in [Routines -> SUBSET (0 .. 6)]

VARIABLES
    now,            \* minutes since the first of January
    lastTriggered,  \* e.routines[i].LastTriggered
    activities,     \* how many entries e.activities has
    kept,           \* proactive.json
    writable        \* whether it can be written

engineVars == <<now, lastTriggered, activities, kept, writable>>

Day(time) == time \div Minutes

\* The zero time.Time is a first of January too, so a routine that never fired
\* counts as fired on that day.
NeverTriggered == 0

\* Compared by day and month only.
SameDate(a, b) == Day(a) % DaysPerYear = Day(b) % DaysPerYear

EngineInit ==
    /\ now = Minutes
    /\ lastTriggered = [r \in Routines |-> NeverTriggered]
    /\ activities = 0
    /\ kept = [lastTriggered |-> lastTriggered, activities |-> 0]
    /\ writable = TRUE

Passes ==
    /\ now < MaxTime
    /\ now' = now + 1
    /\ UNCHANGED <<lastTriggered, activities, kept, writable>>

DiskFills ==
    /\ writable
    /\ writable' = FALSE
    /\ UNCHANGED <<now, lastTriggered, activities, kept>>

\* By a temporary file and a renaming; a failure goes unnoticed.
SaveEngine ==
    kept' = IF writable THEN [lastTriggered |-> lastTriggered', activities |-> activities'] ELSE kept

RecordActivity ==
    /\ activities' = IF activities < MaxActivities THEN activities + 1 ELSE MaxActivities
    /\ UNCHANGED <<now, lastTriggered, writable>>
    /\ SaveEngine

CheckRoutines ==
    {r \in Routines :
        /\ TimeOfDay[r] = now % Minutes
        /\ ~ SameDate(lastTriggered[r], now)
        /\ DaysOfWeek[r] # {} => Day(now) % 7 \in DaysOfWeek[r]}

\* A mutated form: the mark stays in memory.
MarkRoutineTriggeredUnsaved(r) ==
    /\ lastTriggered' = [lastTriggered EXCEPT ![r] = now]
    /\ UNCHANGED <<now, activities, kept, writable>>

MarkRoutineTriggered(r) ==
    /\ lastTriggered' = [lastTriggered EXCEPT ![r] = now]
    /\ UNCHANGED <<now, activities, writable>>
    /\ SaveEngine

EngineRestart ==
    /\ lastTriggered' = kept.lastTriggered
    /\ activities' = kept.activities
    /\ UNCHANGED <<now, kept, writable>>
=============================================================================
