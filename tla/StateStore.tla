------------------------------ MODULE StateStore ------------------------------
(***************************************************************************)
(* pkg/state/state.go: what a workspace remembers of its users, kept in    *)
(* one file.  A goroutine that changes it copies the state out while it    *)
(* holds mu, waits for ioMu before it lets go of mu, and writes the copy   *)
(* to a temporary file that it renames over state.json.  Each manager has  *)
(* a memory of its own; this is the agent loop's, the one that writes, and *)
(* other managers are copies of the file.                                  *)
(***************************************************************************)
EXTENDS Naturals, FiniteSets, TLC

CONSTANTS
    Writers,        \* the goroutines that change the state
    MaxStamp,       \* bound on the number of changes
    None

ASSUME StateAssumption == MaxStamp \in Nat

VARIABLES
    memory,         \* sm.state of the agent loop's manager
    file,           \* state/state.json, None when there is none
    legacy,         \* state.json of earlier versions
    saving          \* how far each writer is, and the copy it carries

stateVars == <<memory, file, legacy, saving>>

\* stamp counts the changes, as the code's Timestamp tells them apart by their time.
Blank == [lastChannel |-> None, lastChatID |-> None, users |-> <<>>, stamp |-> 0]

NotSaving == [at |-> "idle"]

\* A mutated form: mu is released before ioMu is taken.
MuFreeEarly == TRUE

\* Held from the change until the writer has ioMu.
MuFree == \A w \in Writers : saving[w].at # "changed"

IoFree == \A w \in Writers : saving[w].at \notin {"writing", "renaming"}

\* What a manager has that could not read or parse the file: nothing of it, and
\* the constructor ignores the error.  (Stamps are times: the next one is later still.)
Unread(saved) == [Blank EXCEPT !.stamp = saved.stamp]

\* What a manager made from these files starts with, and what is in the file then.
\* It saves what it takes over; when that fails, only its memory has it.
NewManager(saved, earlier) ==
    IF saved # None
    THEN {[memory |-> m, file |-> saved] : m \in {saved, Unread(saved)}}
    ELSE {[memory |-> Blank, file |-> None]} \cup
            IF earlier = None THEN {}
            ELSE {[memory |-> earlier, file |-> f] : f \in {None, earlier}}

StateInit ==
    /\ legacy \in {None, [Blank EXCEPT !.lastChannel = <<"telegram", "earlier">>]}
    /\ \E made \in NewManager(None, legacy) : memory = made.memory /\ file = made.file
    /\ saving = [w \in Writers |-> NotSaving]
-----------------------------------------------------------------------------
Change(w, changed) ==
    /\ saving[w] = NotSaving
    /\ MuFree
    /\ memory.stamp < MaxStamp
    /\ memory' = [changed EXCEPT !.stamp = memory.stamp + 1]
    /\ saving' = [saving EXCEPT ![w] = [at |-> "changed", copy |-> memory']]
    /\ UNCHANGED <<file, legacy>>

SetLastChannel(w, channel) == Change(w, [memory EXCEPT !.lastChannel = channel])

SetLastChatID(w, chat) == Change(w, [memory EXCEPT !.lastChatID = chat])

SetUserState(w, user, channel, chat) ==
    Change(w, [memory EXCEPT !.users = (user :> <<channel, chat>>) @@ memory.users,
                             !.lastChannel = <<channel, chat>>,
                             !.lastChatID = chat])

\* Without users there is nothing to remove, and nothing is saved.
RemoveUser(w, user) ==
    /\ memory.users # <<>>
    /\ Change(w, [memory EXCEPT !.users =
                     [u \in DOMAIN memory.users \ {user} |-> memory.users[u]]])

TakeIoMu(w) ==
    /\ saving[w].at = "changed"
    /\ IoFree
    /\ saving' = [saving EXCEPT ![w].at = "writing"]
    /\ UNCHANGED <<memory, file, legacy>>

WriteTempFile(w) ==
    /\ saving[w].at = "writing"
    /\ saving' = [saving EXCEPT ![w].at = "renaming"]
    /\ UNCHANGED <<memory, file, legacy>>

Rename(w) ==
    /\ saving[w].at = "renaming"
    /\ file' = saving[w].copy
    /\ saving' = [saving EXCEPT ![w] = NotSaving]
    /\ UNCHANGED <<memory, legacy>>

\* The write or the renaming fails: the caller logs it and the file stays.
SaveFails(w) ==
    /\ saving[w].at \in {"writing", "renaming"}
    /\ saving' = [saving EXCEPT ![w] = NotSaving]
    /\ UNCHANGED <<memory, file, legacy>>

Save(w) == TakeIoMu(w) \/ WriteTempFile(w) \/ Rename(w) \/ SaveFails(w)

\* The process ends at any point and another one makes its manager.
StateRestart ==
    /\ \E made \in NewManager(file, legacy) : memory' = made.memory /\ file' = made.file
    /\ saving' = [w \in Writers |-> NotSaving]
    /\ UNCHANGED legacy
-----------------------------------------------------------------------------
(***************************************************************************)
(* The file never goes back to an earlier state, whichever goroutines save *)
(* at once and wherever the process is killed: the order of the saves is   *)
(* that of the changes, because ioMu is taken before mu is released.  (What *)
(* is saved after a load that failed is later, but has nothing of what was *)
(* saved before.)                                                          *)
(***************************************************************************)
SavedStatesAdvance == [][file = None \/ file'.stamp >= file.stamp]_file
=============================================================================
