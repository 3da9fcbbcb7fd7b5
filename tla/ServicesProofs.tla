----------------------------- MODULE ServicesProofs -----------------------------
(***************************************************************************)
(* Proofs about the services: for any number of goroutines that save the   *)
(* state, any turns, commands, accounts and master keys, and any routines. *)
(***************************************************************************)
EXTENDS Services, TLAPS
-----------------------------------------------------------------------------
(***************************************************************************)
(* The state store.  Of the writers one at most carries a copy that waits  *)
(* for ioMu, and one at most is at the file; the former's copy is newer.   *)
(***************************************************************************)
IsState(s) ==
    /\ s = [lastChannel |-> s.lastChannel, lastChatID |-> s.lastChatID,
            users |-> s.users, stamp |-> s.stamp]
    /\ s.stamp \in Nat

\* The stages a writer can be at, with its copy.
Busy(w) == saving[w].at \in {"changed", "writing", "renaming"}
AtFile(w) == saving[w].at \in {"writing", "renaming"}

StoreTyped ==
    /\ IsState(memory)
    /\ file = None \/ IsState(file)
    /\ legacy = None \/ IsState(legacy)
    /\ DOMAIN saving = Writers
    /\ saving = [w \in Writers |-> saving[w]]
    /\ \A w \in Writers :
          \/ saving[w] = NotSaving
          \/ /\ Busy(w)
             /\ saving[w] = [at |-> saving[w].at, copy |-> saving[w].copy]
             /\ IsState(saving[w].copy)

InOrder ==
    /\ file # None => file.stamp <= memory.stamp
    /\ \A w \in Writers : Busy(w) =>
          /\ saving[w].copy.stamp <= memory.stamp
          /\ file # None => file.stamp <= saving[w].copy.stamp
    /\ \A w, v \in Writers : w # v /\ Busy(w) /\ Busy(v) =>
          \/ AtFile(w) /\ ~AtFile(v) /\ saving[w].copy.stamp <= saving[v].copy.stamp
          \/ AtFile(v) /\ ~AtFile(w) /\ saving[v].copy.stamp <= saving[w].copy.stamp

StoreInv == StoreTyped /\ InOrder

(* Before anything is saved, nothing is out of order.                      *)
LEMMA StoreInitially == StateInit => StoreInv
<1> SUFFICES ASSUME StateInit PROVE StoreInv
  OBVIOUS
<1>1. legacy = None \/ IsState(legacy)
  BY DEF StateInit, Blank, IsState
<1>2. IsState(memory) /\ (file = None \/ file = memory)
  BY <1>1 DEF StateInit, NewManager, Blank, IsState
<1>3. \A w \in Writers : saving[w] = NotSaving /\ ~Busy(w)
  BY DEF StateInit, NotSaving, Busy
<1>4. saving = [w \in Writers |-> saving[w]]
  BY DEF StateInit
<1> QED
  BY <1>1, <1>2, <1>3, <1>4 DEF StoreInv, StoreTyped, InOrder, IsState

(* A change is newer than whatever is on its way to the file.              *)
LEMMA ChangeInOrder ==
    ASSUME StoreInv, NEW w \in Writers, NEW changed, Change(w, changed),
           changed = [lastChannel |-> changed.lastChannel, lastChatID |-> changed.lastChatID,
                      users |-> changed.users, stamp |-> changed.stamp]
    PROVE  StoreInv' /\ UNCHANGED file
<1>1. memory'.stamp = memory.stamp + 1 /\ IsState(memory')
  BY DEF Change, StoreInv, StoreTyped, IsState
<1>2. /\ saving[w] = NotSaving /\ \A v \in Writers : saving[v].at # "changed"
      /\ saving' = [saving EXCEPT ![w] = [at |-> "changed", copy |-> memory']]
      /\ UNCHANGED <<file, legacy>>
  BY DEF Change, MuFree
<1>3. saving'[w] = [at |-> "changed", copy |-> memory'] /\ \A v \in Writers \ {w} : saving'[v] = saving[v]
  BY <1>2 DEF StoreInv, StoreTyped
<1>4. StoreTyped'
  BY <1>1, <1>2, <1>3 DEF StoreInv, StoreTyped, Busy
<1>5. \A v \in Writers : Busy(v) => saving[v].copy.stamp \in Nat
  <2> SUFFICES ASSUME NEW v \in Writers, Busy(v) PROVE saving[v].copy.stamp \in Nat
    OBVIOUS
  <2>1. saving[v] # NotSaving
    BY DEF Busy, NotSaving
  <2> QED
    BY <2>1 DEF StoreInv, StoreTyped, IsState
<1>6. memory.stamp \in Nat /\ (file # None => file.stamp \in Nat)
  BY DEF StoreInv, StoreTyped, IsState
<1>7. InOrder'
  <2>1. (file # None => file.stamp <= memory.stamp)'
    BY <1>1, <1>2, <1>6 DEF StoreInv, InOrder
  <2>2. ASSUME NEW v \in Writers, Busy(v)'
        PROVE  (saving[v].copy.stamp <= memory.stamp /\ (file # None => file.stamp <= saving[v].copy.stamp))'
    BY <1>1, <1>2, <1>3, <1>5, <1>6, <2>1, <2>2 DEF StoreInv, InOrder, Busy
  <2>3. ASSUME NEW v \in Writers, NEW u \in Writers, v # u, Busy(v)', Busy(u)'
        PROVE  (\/ AtFile(v) /\ ~AtFile(u) /\ saving[v].copy.stamp <= saving[u].copy.stamp
                \/ AtFile(u) /\ ~AtFile(v) /\ saving[u].copy.stamp <= saving[v].copy.stamp)'
    <3>1. CASE v = w
      BY <1>1, <1>2, <1>3, <1>5, <1>6, <2>3, <3>1 DEF StoreInv, InOrder, Busy, AtFile
    <3>2. CASE u = w
      BY <1>1, <1>2, <1>3, <1>5, <1>6, <2>3, <3>2 DEF StoreInv, InOrder, Busy, AtFile
    <3>3. CASE v # w /\ u # w
      BY <1>3, <2>3, <3>3 DEF StoreInv, InOrder, Busy, AtFile
    <3> QED
      BY <3>1, <3>2, <3>3
  <2> QED
    BY <2>1, <2>2, <2>3 DEF InOrder
<1> QED
  BY <1>2, <1>4, <1>7 DEF StoreInv

(* The operations that change the state are changes.                       *)
LEMMA SettersInOrder ==
    ASSUME StoreInv, NEW w \in Writers
    PROVE  /\ \A channel : SetLastChannel(w, channel) => StoreInv' /\ UNCHANGED file
           /\ \A chat : SetLastChatID(w, chat) => StoreInv' /\ UNCHANGED file
           /\ \A u, channel, chat : SetUserState(w, u, channel, chat) => StoreInv' /\ UNCHANGED file
           /\ \A u : RemoveUser(w, u) => StoreInv' /\ UNCHANGED file
<1>1. \A channel : SetLastChannel(w, channel) => StoreInv' /\ UNCHANGED file
  <2> SUFFICES ASSUME NEW channel, SetLastChannel(w, channel) PROVE StoreInv' /\ UNCHANGED file
    OBVIOUS
  <2> DEFINE changed == [memory EXCEPT !.lastChannel = channel]
  <2>1. changed = [lastChannel |-> changed.lastChannel, lastChatID |-> changed.lastChatID,
                   users |-> changed.users, stamp |-> changed.stamp]
    BY DEF StoreInv, StoreTyped, IsState
  <2>2. Change(w, changed)
    BY DEF SetLastChannel
  <2> HIDE DEF changed
  <2> QED
    BY <2>1, <2>2, ChangeInOrder
<1>2. \A chat : SetLastChatID(w, chat) => StoreInv' /\ UNCHANGED file
  <2> SUFFICES ASSUME NEW chat, SetLastChatID(w, chat) PROVE StoreInv' /\ UNCHANGED file
    OBVIOUS
  <2> DEFINE changed == [memory EXCEPT !.lastChatID = chat]
  <2>1. changed = [lastChannel |-> changed.lastChannel, lastChatID |-> changed.lastChatID,
                   users |-> changed.users, stamp |-> changed.stamp]
    BY DEF StoreInv, StoreTyped, IsState
  <2>2. Change(w, changed)
    BY DEF SetLastChatID
  <2> HIDE DEF changed
  <2> QED
    BY <2>1, <2>2, ChangeInOrder
<1>3. \A u, channel, chat : SetUserState(w, u, channel, chat) => StoreInv' /\ UNCHANGED file
  <2> SUFFICES ASSUME NEW u, NEW channel, NEW chat, SetUserState(w, u, channel, chat)
               PROVE  StoreInv' /\ UNCHANGED file
    OBVIOUS
  <2> DEFINE users == (u :> <<channel, chat>>) @@ memory.users
             address == <<channel, chat>>
             changed == [memory EXCEPT !.users = users, !.lastChannel = address,
                                       !.lastChatID = chat]
  <2>2. Change(w, changed)
    BY DEF SetUserState
  <2> HIDE DEF users, address
  <2>3. changed = [lastChannel |-> address, lastChatID |-> chat, users |-> users, stamp |-> memory.stamp]
    <3> DEFINE Literal(c, d, u_) == [lastChannel |-> c, lastChatID |-> d, users |-> u_, stamp |-> memory.stamp]
    <3>1. memory = Literal(memory.lastChannel, memory.lastChatID, memory.users)
      BY DEF StoreInv, StoreTyped, IsState
    <3>2. [memory EXCEPT !.users = users] = Literal(memory.lastChannel, memory.lastChatID, users)
      BY <3>1
    <3>3. [Literal(memory.lastChannel, memory.lastChatID, users) EXCEPT !.lastChannel = address]
            = Literal(address, memory.lastChatID, users)
      OBVIOUS
    <3>4. [Literal(address, memory.lastChatID, users) EXCEPT !.lastChatID = chat] = Literal(address, chat, users)
      OBVIOUS
    <3>5. changed = [[[memory EXCEPT !.users = users] EXCEPT !.lastChannel = address] EXCEPT !.lastChatID = chat]
      OBVIOUS
    <3> QED
      BY <3>2, <3>3, <3>4, <3>5
  <2>1. changed = [lastChannel |-> changed.lastChannel, lastChatID |-> changed.lastChatID,
                   users |-> changed.users, stamp |-> changed.stamp]
    BY <2>3
  <2> HIDE DEF changed
  <2> QED
    BY <2>1, <2>2, ChangeInOrder
<1>4. \A u : RemoveUser(w, u) => StoreInv' /\ UNCHANGED file
  <2> SUFFICES ASSUME NEW u, RemoveUser(w, u) PROVE StoreInv' /\ UNCHANGED file
    OBVIOUS
  <2> DEFINE users == [v \in DOMAIN memory.users \ {u} |-> memory.users[v]]
             changed == [memory EXCEPT !.users = users]
  <2>2. Change(w, changed)
    BY DEF RemoveUser
  <2> HIDE DEF users
  <2>1. changed = [lastChannel |-> changed.lastChannel, lastChatID |-> changed.lastChatID,
                   users |-> changed.users, stamp |-> changed.stamp]
    BY DEF StoreInv, StoreTyped, IsState
  <2> HIDE DEF changed
  <2> QED
    BY <2>1, <2>2, ChangeInOrder
<1> QED
  BY <1>1, <1>2, <1>3, <1>4

(* Taking ioMu and writing the temporary file change nobody's order.       *)
LEMMA SaveInOrder ==
    ASSUME StoreInv, NEW w \in Writers, TakeIoMu(w) \/ WriteTempFile(w) \/ SaveFails(w)
    PROVE  StoreInv' /\ UNCHANGED file
<1>1. UNCHANGED <<memory, file, legacy>>
  BY DEF TakeIoMu, WriteTempFile, SaveFails
<1>2. saving[w] # NotSaving /\ Busy(w)
  BY DEF TakeIoMu, WriteTempFile, SaveFails, NotSaving, Busy
<1>3. saving[w] = [at |-> saving[w].at, copy |-> saving[w].copy] /\ IsState(saving[w].copy)
  BY <1>2 DEF StoreInv, StoreTyped
<1>4. \A v \in Writers \ {w} : saving'[v] = saving[v]
  BY DEF TakeIoMu, WriteTempFile, SaveFails, StoreInv, StoreTyped
<1>5. \/ /\ saving'[w] = [at |-> "writing", copy |-> saving[w].copy]
         /\ saving[w].at = "changed" /\ \A v \in Writers : ~AtFile(v)
      \/ saving'[w] = [at |-> "renaming", copy |-> saving[w].copy] /\ AtFile(w)
      \/ saving'[w] = NotSaving
  BY <1>3 DEF TakeIoMu, WriteTempFile, SaveFails, StoreInv, StoreTyped, IoFree, AtFile
<1>6. saving' = [v \in Writers |-> saving'[v]] /\ DOMAIN saving' = Writers
  BY DEF TakeIoMu, WriteTempFile, SaveFails, StoreInv, StoreTyped
<1>7. StoreTyped'
  BY <1>1, <1>3, <1>4, <1>5, <1>6 DEF StoreInv, StoreTyped, Busy, IsState
<1>8. Busy(w)' => AtFile(w)' /\ saving'[w].copy = saving[w].copy
  BY <1>5 DEF Busy, AtFile, NotSaving
<1>9. \A v \in Writers \ {w} : (Busy(v)' <=> Busy(v)) /\ (AtFile(v)' <=> AtFile(v))
  BY <1>4 DEF Busy, AtFile
<1>10. Busy(w)' => \A v \in Writers \ {w} : ~AtFile(v)
  BY <1>2, <1>5 DEF StoreInv, InOrder, Busy, AtFile, NotSaving
<1>11. InOrder'
  <2>1. (file # None => file.stamp <= memory.stamp)'
    BY <1>1 DEF StoreInv, InOrder
  <2>2. ASSUME NEW v \in Writers, Busy(v)'
        PROVE  (saving[v].copy.stamp <= memory.stamp /\ (file # None => file.stamp <= saving[v].copy.stamp))'
    BY <1>1, <1>2, <1>4, <1>8, <1>9, <2>2 DEF StoreInv, InOrder
  <2>3. ASSUME NEW v \in Writers, NEW u \in Writers, v # u, Busy(v)', Busy(u)'
        PROVE  (\/ AtFile(v) /\ ~AtFile(u) /\ saving[v].copy.stamp <= saving[u].copy.stamp
                \/ AtFile(u) /\ ~AtFile(v) /\ saving[u].copy.stamp <= saving[v].copy.stamp)'
    <3>1. CASE v = w
      BY <1>2, <1>4, <1>8, <1>9, <1>10, <2>3, <3>1 DEF StoreInv, InOrder
    <3>2. CASE u = w
      BY <1>2, <1>4, <1>8, <1>9, <1>10, <2>3, <3>2 DEF StoreInv, InOrder
    <3>3. CASE v # w /\ u # w
      BY <1>4, <1>9, <2>3, <3>3 DEF StoreInv, InOrder
    <3> QED
      BY <3>1, <3>2, <3>3
  <2> QED
    BY <2>1, <2>2, <2>3 DEF InOrder
<1> QED
  BY <1>1, <1>7, <1>11 DEF StoreInv

\* What a step may do to the file.
FileAdvances == file = None \/ file'.stamp >= file.stamp

(* The copy that is renamed is no older than the file, and the oldest of   *)
(* those on their way.                                                     *)
LEMMA RenameInOrder ==
    ASSUME StoreInv, NEW w \in Writers, Rename(w)
    PROVE  StoreInv' /\ FileAdvances
<1>1. Busy(w) /\ AtFile(w) /\ file' = saving[w].copy /\ UNCHANGED <<memory, legacy>>
  BY DEF Rename, Busy, AtFile
<1>2. saving[w] # NotSaving
  BY <1>1 DEF Busy, NotSaving
<1>3. IsState(file') /\ (file # None => IsState(file))
  BY <1>1, <1>2 DEF StoreInv, StoreTyped
<1>4. saving'[w] = NotSaving /\ \A v \in Writers \ {w} : saving'[v] = saving[v]
  BY DEF Rename, StoreInv, StoreTyped
<1>5. saving' = [v \in Writers |-> saving'[v]] /\ DOMAIN saving' = Writers
  BY DEF Rename, StoreInv, StoreTyped
<1>6. StoreTyped'
  BY <1>1, <1>3, <1>4, <1>5 DEF StoreInv, StoreTyped, Busy
<1>7. ~Busy(w)' /\ \A v \in Writers \ {w} : (Busy(v)' <=> Busy(v)) /\ (AtFile(v)' <=> AtFile(v))
  BY <1>4 DEF Busy, AtFile, NotSaving
<1>8. InOrder'
  BY <1>1, <1>4, <1>7 DEF StoreInv, InOrder
<1>9. FileAdvances
  BY <1>1, <1>3 DEF FileAdvances, StoreInv, InOrder, IsState
<1> QED
  BY <1>6, <1>8, <1>9 DEF StoreInv

(* A new process takes the file as it finds it.                            *)
LEMMA RestartInOrder ==
    ASSUME StoreInv, StateRestart
    PROVE  StoreInv' /\ FileAdvances
<1>1. UNCHANGED legacy /\ saving' = [w \in Writers |-> NotSaving]
  BY DEF StateRestart
<1>0. PICK made \in NewManager(file, legacy) : memory' = made.memory /\ file' = made.file
  BY DEF StateRestart
<1>2. /\ IsState(memory')
      /\ file' # None => IsState(file') /\ file'.stamp = memory'.stamp
      /\ file # None => file' = file
  <2>1. CASE file # None
    <3>1. IsState(file) /\ IsState(Unread(file)) /\ Unread(file).stamp = file.stamp
      BY <2>1 DEF StoreInv, StoreTyped, Unread, Blank, IsState
    <3> QED
      BY <1>0, <2>1, <3>1 DEF NewManager
  <2>2. CASE file = None
    <3>1. legacy = None \/ IsState(legacy)
      BY DEF StoreInv, StoreTyped
    <3>2. IsState(Blank)
      BY DEF Blank, IsState
    <3>3. \/ made = [memory |-> Blank, file |-> None]
          \/ legacy # None /\ \E f \in {None, legacy} : made = [memory |-> legacy, file |-> f]
      BY <1>0, <2>2 DEF NewManager
    <3> QED
      BY <1>0, <2>2, <3>1, <3>2, <3>3
  <2> QED
    BY <2>1, <2>2
<1>3. \A w \in Writers : saving'[w] = NotSaving /\ ~Busy(w)'
  BY <1>1 DEF Busy, NotSaving
<1>4. StoreTyped'
  BY <1>1, <1>2, <1>3 DEF StoreInv, StoreTyped
<1>5. InOrder'
  BY <1>2, <1>3 DEF InOrder, IsState
<1>6. FileAdvances
  BY <1>2 DEF FileAdvances, StoreInv, StoreTyped, IsState
<1> QED
  BY <1>4, <1>5, <1>6 DEF StoreInv

(* Steps that leave the store alone.                                       *)
LEMMA StoreUntouched ==
    ASSUME StoreInv, UNCHANGED stateVars
    PROVE  StoreInv' /\ UNCHANGED file
BY DEF stateVars, StoreInv, StoreTyped, InOrder, Busy, AtFile

(* A turn begins with a change, or without one.                            *)
LEMMA BeginInOrder ==
    ASSUME StoreInv, NEW w \in Writers, NEW chat, Begin(w, chat)
    PROVE  StoreInv' /\ UNCHANGED file
<1>1. CASE UNCHANGED stateVars
  BY <1>1, StoreUntouched
<1>2. CASE SetLastChannel(w, chat)
  BY <1>2, SettersInOrder
<1> QED
  BY <1>1, <1>2 DEF Begin

(* Every step of a save keeps the order.                                   *)
LEMMA SavesInOrder ==
    ASSUME StoreInv, NEW w \in Writers, Save(w)
    PROVE  StoreInv' /\ (UNCHANGED file \/ FileAdvances)
BY SaveInOrder, RenameInOrder DEF Save

(* The store's own scene.                                                  *)
LEMMA StateSceneInOrder ==
    ASSUME StoreInv, StateScene
    PROVE  StoreInv' /\ (UNCHANGED file \/ FileAdvances)
<1>1. CASE StateRestart
  BY <1>1, RestartInOrder
<1>2. ASSUME NEW w \in Writers, Save(w)
      PROVE  StoreInv' /\ (UNCHANGED file \/ FileAdvances)
  BY <1>2, SavesInOrder
<1>3. ASSUME NEW w \in Writers, RemoveUser(w, "user")
      PROVE  StoreInv' /\ UNCHANGED file
  BY <1>3, SettersInOrder
<1>4. ASSUME NEW w \in Writers, NEW chat \in Chats,
             \/ SetLastChannel(w, chat) \/ SetLastChatID(w, chat[2])
             \/ SetUserState(w, "user", chat[1], chat[2])
      PROVE  StoreInv' /\ UNCHANGED file
  BY <1>4, SettersInOrder
<1> QED
  BY <1>1, <1>2, <1>3, <1>4 DEF StateScene

(* The gateway's residents touch the store by turns that begin, by saves,  *)
(* and by the end of the process.                                          *)
LEMMA ResidentsInOrder ==
    ASSUME StoreInv, BeatsScene \/ PlugsScene
    PROVE  StoreInv' /\ (UNCHANGED file \/ FileAdvances)
<1>1. CASE UNCHANGED stateVars
  BY <1>1, StoreUntouched
<1>2. CASE ProcessEnds
  BY <1>2, RestartInOrder DEF ProcessEnds
<1>3. CASE SaveStep
  BY <1>3, SavesInOrder DEF SaveStep
<1>4. CASE TurnStep
  <2>1. CASE \E w \in Writers : Recorded(w) \/ TurnEnds(w)
    BY <2>1, <1>1 DEF Recorded, TurnEnds
  <2>2. ASSUME NEW w \in Writers, NEW chat \in Chats, UserTurn(w, chat)
        PROVE  StoreInv' /\ UNCHANGED file
    BY <2>2, BeginInOrder DEF UserTurn
  <2> QED
    BY <1>4, <2>1, <2>2 DEF TurnStep
<1>5. CASE HeartbeatStep
  <2>1. CASE StartHeartbeat \/ StopHeartbeat
    BY <2>1, <1>1 DEF StartHeartbeat, StopHeartbeat
  <2>2. ASSUME NEW b \in Beats, CallHandler(b)
        PROVE  StoreInv' /\ UNCHANGED file
    BY <2>2, BeginInOrder, HeartbeatAssumption DEF CallHandler
  <2>3. ASSUME NEW b \in Beats, NothingToDo(b) \/ ExecuteHeartbeat(b) \/ \E r \in Routines : FireRoutine(b, r)
        PROVE  UNCHANGED stateVars
    BY <2>3 DEF NothingToDo, ExecuteHeartbeat, FireRoutine
  <2> QED
    BY <1>1, <1>5, <2>1, <2>2, <2>3 DEF HeartbeatStep
<1>6. CASE TimeStep
  BY <1>1, <1>6 DEF TimeStep
<1>7. CASE MonitorStep
  BY <1>1, <1>7 DEF MonitorStep, heartbeatVars
<1>8. CASE StartHeartbeat
  BY <1>1, <1>8 DEF StartHeartbeat
<1> QED
  BY <1>2, <1>3, <1>4, <1>5, <1>6, <1>7, <1>8 DEF BeatsScene, PlugsScene

(* Every step of any scene keeps the order.                                *)
LEMMA NextInOrder == StoreInv /\ [Next]_vars => StoreInv' /\ (UNCHANGED file \/ FileAdvances)
<1> SUFFICES ASSUME StoreInv, [Next]_vars PROVE StoreInv' /\ (UNCHANGED file \/ FileAdvances)
  OBVIOUS
<1>1. CASE UNCHANGED stateVars
  BY <1>1, StoreUntouched
<1>2. CASE UNCHANGED vars
  BY <1>1, <1>2 DEF vars, heartbeatVars
<1>3. CASE Next
  BY <1>1, <1>3, StateSceneInOrder, ResidentsInOrder DEF Next, heartbeatVars
<1> QED
  BY <1>2, <1>3

(* state.json never goes back to an earlier state, however many goroutines *)
(* save at once and wherever the process is killed: ioMu is taken before   *)
(* mu is released.                                                         *)
THEOREM SavesAdvance == Spec => SavedStatesAdvance
<1>1. Init => StoreInv
  BY StoreInitially DEF Init, HeartbeatInit
<1>2. StoreInv /\ [Next]_vars => [file = None \/ file'.stamp >= file.stamp]_file
  BY NextInOrder DEF FileAdvances
<1>3. StoreInv /\ [Next]_vars => StoreInv'
  BY NextInOrder
<1> QED
  BY <1>1, <1>2, <1>3, PTL DEF Spec, SavedStatesAdvance
-----------------------------------------------------------------------------
(***************************************************************************)
(* The credentials.  Whatever is stored, lies in the temporary file, or is *)
(* in the hands of a turn or a command, has its own account or none, and   *)
(* the turns have begun only when the provider has its account.            *)
(***************************************************************************)
GoodCreds ==
    {c \in [owner : Accounts \cup {"pasted"}, account : Accounts \cup {"pasted", "none"},
            oauth : BOOLEAN, key : MasterKeys] : c.account \in {c.owner, "none"}}

GoodStores == UNION {[names -> GoodCreds] : names \in SUBSET Providers}

Users == Turns \cup Commands

\* What a turn does.
Refreshing == [at : {"refreshing"}, cred : GoodCreds]
SettingOfTurn == [at : {"setting"}, does : {"refresh"}, provider : {"openai"}, cred : GoodCreds]
ChangingOfTurn ==
    {s \in [at : {"loaded", "written"}, does : {"refresh"}, provider : {"openai"},
            draft : GoodStores] : "openai" \in DOMAIN s.draft}

TurnStates == {Begun, Done} \cup Refreshing \cup SettingOfTurn \cup ChangingOfTurn

IsRequest(r) ==
    /\ r = [at |-> "sent", owner |-> r.owner, account |-> r.account]
    /\ r.account \in {r.owner, "none", accountID}

\* What a command does.
Authorizing ==
    [at : {"authorizing"}, does : {"login"}, way : {"browser", "device", "paste"}, key : MasterKeys]
SettingOfCommand ==
    [at : {"setting"}, does : {"login"}, provider : Providers, cred : GoodCreds, key : MasterKeys]
Deleting == [at : {"deleting"}, does : {"logout"}, provider : Providers, key : MasterKeys]
ChangingOfCommand ==
    [at : {"loaded", "written"}, does : {"login", "logout"}, provider : Providers,
     draft : GoodStores]
Saved == [at : {"saved"}, does : {"login", "logout"}, provider : Providers \cup {"all"}]

CommandStates ==
    {Begun, Done} \cup Authorizing \cup SettingOfCommand \cup Deleting
        \cup ChangingOfCommand \cup Saved

AuthInv ==
    /\ authFile \in GoodStores \cup {NoStore}
    /\ authTemp \in GoodStores \cup {NoStore}
    /\ user = [u \in Users |-> user[u]]
    /\ \A t \in Turns : user[t] \in TurnStates \/ IsRequest(user[t])
    /\ \A t \in Turns : user[t] # Begun => accountID # NoStore
    /\ \A c \in Commands : user[c] \in CommandStates

(* The operations on stores keep good ones good.                           *)
LEMMA GoodStoreOperations ==
    ASSUME NEW store \in GoodStores, NEW p \in Providers
    PROVE  /\ \A cred \in GoodCreds : With(store, p, cred) \in GoodStores
           /\ Without(store, p) \in GoodStores
           /\ \A q \in DOMAIN store : q \in Providers /\ store[q] \in GoodCreds
<1>1. PICK names \in SUBSET Providers : store \in [names -> GoodCreds]
  BY DEF GoodStores
<1>2. ASSUME NEW cred \in GoodCreds PROVE With(store, p, cred) \in GoodStores
  <2>1. With(store, p, cred) \in [names \cup {p} -> GoodCreds]
    BY <1>1 DEF With
  <2> QED
    BY <2>1 DEF GoodStores
<1>3. Without(store, p) \in GoodStores
  <2>1. Without(store, p) \in [names \ {p} -> GoodCreds]
    BY <1>1 DEF Without
  <2> QED
    BY <2>1 DEF GoodStores
<1> QED
  BY <1>1, <1>2, <1>3

(* What a key opens is part of what is stored.                             *)
LEMMA ReadableIsGood ==
    ASSUME AuthInv, NEW key
    PROVE  /\ Stored(authFile) \in GoodStores
           /\ Readable(key) \in GoodStores
<1>1. << >> \in GoodStores
  <2>1. << >> \in [{} -> GoodCreds]
    OBVIOUS
  <2> QED
    BY <2>1 DEF GoodStores
<1>2. Stored(authFile) \in GoodStores
  BY <1>1 DEF AuthInv, Stored
<1>3. PICK names \in SUBSET Providers : Stored(authFile) \in [names -> GoodCreds]
  BY <1>2 DEF GoodStores
<1>4. Readable(key) \in [{q \in names : Stored(authFile)[q].key = key} -> GoodCreds]
  BY <1>3 DEF Readable
<1> QED
  BY <1>2, <1>4 DEF GoodStores

(* The first file, and those who have not begun, are good.                 *)
LEMMA AuthInitially == AuthInit => AuthInv
BY DEF AuthInit, AuthInv, TurnStates, CommandStates, Users

(* Of a step, only what becomes of the user who takes it is to be shown.   *)
LEMMA OneUserMoves ==
    ASSUME AuthInv, NEW u \in Users, NEW next, user' = [user EXCEPT ![u] = next],
           authFile' \in GoodStores \cup {NoStore}, authTemp' \in GoodStores \cup {NoStore},
           accountID' = accountID,
           u \in Turns => next \in TurnStates \/ IsRequest(next),
           u \in Turns /\ next # Begun => accountID # NoStore,
           u \in Commands => next \in CommandStates
    PROVE  AuthInv'
<1>1. user'[u] = next /\ \A v \in Users \ {u} : user'[v] = user[v]
  BY DEF AuthInv
<1>2. user' = [v \in Users |-> user'[v]]
  BY DEF AuthInv
<1>3. \A r : IsRequest(r) => IsRequest(r)'
  BY DEF IsRequest
<1>4. ASSUME NEW t \in Turns PROVE (user[t] \in TurnStates \/ IsRequest(user[t]))'
  <2>1. t \in Users
    BY DEF Users
  <2>2. CASE t = u
    <3>1. user'[t] = next
      BY <1>1, <2>2
    <3>2. next \in TurnStates' \/ IsRequest(next)'
      <4>1. TurnStates' = TurnStates
        BY DEF TurnStates, Begun, Done, Refreshing, SettingOfTurn, ChangingOfTurn, GoodStores, GoodCreds
      <4>2. next \in TurnStates \/ IsRequest(next)
        BY <2>2
      <4> QED
        BY <1>3, <4>1, <4>2
    <3> QED
      BY <3>1, <3>2 DEF IsRequest
  <2>3. CASE t # u
    BY <1>1, <2>1, <2>3 DEF AuthInv, IsRequest
  <2> QED
    BY <2>2, <2>3
<1>5. ASSUME NEW t \in Turns PROVE (user[t] # Begun => accountID # NoStore)'
  <2>1. t \in Users
    BY DEF Users
  <2> QED
    BY <1>1, <2>1 DEF AuthInv, Begun
<1>6. ASSUME NEW c \in Commands PROVE (user[c] \in CommandStates)'
  <2>1. c \in Users
    BY DEF Users
  <2> QED
    BY <1>1, <2>1 DEF AuthInv
<1> QED
  BY <1>2, <1>4, <1>5, <1>6 DEF AuthInv

(* A turn is where its record says.                                        *)
LEMMA StagesOfTurns ==
    ASSUME AuthInv, NEW t \in Turns
    PROVE  /\ user[t].at = "sent" => IsRequest(user[t])
           /\ user[t].at = "refreshing" => user[t] \in Refreshing
           /\ user[t].at \in {"setting", "deleting"} => user[t] \in SettingOfTurn
           /\ user[t].at \in {"loaded", "written"} => user[t] \in ChangingOfTurn
<1>1. IsRequest(user[t]) => user[t].at = "sent"
  BY DEF IsRequest
<1>2. user[t] \in {Begun, Done} => user[t].at \in {"begun", "done"}
  BY DEF Begun, Done
<1>3. user[t] \in Refreshing => user[t].at = "refreshing"
  BY DEF Refreshing
<1>4. user[t] \in SettingOfTurn => user[t].at = "setting"
  BY DEF SettingOfTurn
<1>5. user[t] \in ChangingOfTurn => user[t].at \in {"loaded", "written"}
  BY DEF ChangingOfTurn
<1>6. \/ user[t] \in {Begun, Done} \/ user[t] \in Refreshing \/ user[t] \in SettingOfTurn
      \/ user[t] \in ChangingOfTurn \/ IsRequest(user[t])
  BY DEF AuthInv, TurnStates
<1> QED
  BY <1>1, <1>2, <1>3, <1>4, <1>5, <1>6

(* So is a command.                                                        *)
LEMMA StagesOfCommands ==
    ASSUME AuthInv, NEW c \in Commands
    PROVE  /\ user[c].at = "authorizing" => user[c] \in Authorizing
           /\ user[c].at \in {"setting", "deleting"} => user[c] \in SettingOfCommand \cup Deleting
           /\ user[c].at \in {"loaded", "written"} => user[c] \in ChangingOfCommand
<1>1. user[c] \in {Begun, Done} => user[c].at \in {"begun", "done"}
  BY DEF Begun, Done
<1>2. user[c] \in SettingOfCommand \cup Deleting => user[c].at \in {"setting", "deleting"}
  BY DEF SettingOfCommand, Deleting
<1>3. user[c] \in Authorizing => user[c].at = "authorizing"
  BY DEF Authorizing
<1>4. user[c] \in ChangingOfCommand => user[c].at \in {"loaded", "written"}
  BY DEF ChangingOfCommand
<1>5. user[c] \in Saved => user[c].at = "saved"
  BY DEF Saved
<1>6. \/ user[c] \in {Begun, Done} \/ user[c] \in SettingOfCommand \cup Deleting
      \/ user[c] \in Authorizing \/ user[c] \in ChangingOfCommand \/ user[c] \in Saved
  BY DEF AuthInv, CommandStates
<1> QED
  BY <1>1, <1>2, <1>3, <1>4, <1>5, <1>6

(* SetCredential and DeleteCredential keep what they store good.           *)
LEMMA SavingIsGood ==
    ASSUME AuthInv, NEW u \in Users,
           LoadStore(u) \/ WriteStore(u) \/ RenameStore(u) \/ StoreFails(u)
    PROVE  AuthInv'
<1>0. u \in Turns => u \notin Commands
  BY UsersAssumption
<1>1. CASE LoadStore(u)
  <2>1. /\ u \in Turns => user[u] \in SettingOfTurn
        /\ u \in Commands => user[u] \in SettingOfCommand \cup Deleting
    BY <1>1, StagesOfTurns, StagesOfCommands DEF LoadStore
  <2>2. user[u].provider \in Providers /\ (user[u].at = "setting" => user[u].cred \in GoodCreds)
    BY <2>1 DEF SettingOfTurn, SettingOfCommand, Deleting, Providers, Users
  <2>3. PICK draft : draft = IF user[u].at = "setting"
                             THEN With(Readable(KeyOf(u)), user[u].provider, user[u].cred)
                             ELSE Without(Readable(KeyOf(u)), user[u].provider)
    OBVIOUS
  <2>4. draft \in GoodStores
    BY <2>2, <2>3, ReadableIsGood, GoodStoreOperations
  <2>5. user[u].at = "setting" => user[u].provider \in DOMAIN draft
    BY <2>3 DEF With
  <2>6. PICK next : next = [at |-> "loaded", does |-> user[u].does,
                            provider |-> user[u].provider, draft |-> draft]
    OBVIOUS
  <2>7. user' = [user EXCEPT ![u] = next]
    BY <1>1, <2>3, <2>6 DEF LoadStore
  <2>8. u \in Turns => next \in TurnStates /\ accountID # NoStore
    BY <2>1, <2>4, <2>5, <2>6 DEF SettingOfTurn, TurnStates, ChangingOfTurn, AuthInv, Begun
  <2>9. u \in Commands => next \in CommandStates
    BY <2>1, <2>4, <2>6 DEF SettingOfCommand, Deleting, CommandStates, ChangingOfCommand
  <2> QED
    BY <1>1, <2>7, <2>8, <2>9, OneUserMoves DEF LoadStore, AuthInv
<1>2. CASE WriteStore(u)
  <2>1. PICK next : next = [user[u] EXCEPT !.at = "written"]
    OBVIOUS
  <2>2. user[u].draft \in GoodStores
    BY <1>2, StagesOfTurns, StagesOfCommands DEF WriteStore, ChangingOfTurn, ChangingOfCommand, Users
  <2>3. u \in Turns => next \in TurnStates /\ accountID # NoStore
    BY <1>2, <2>1, StagesOfTurns, StagesOfCommands DEF WriteStore, TurnStates, ChangingOfTurn, AuthInv, Begun
  <2>4. u \in Commands => next \in CommandStates
    BY <1>2, <2>1, StagesOfTurns, StagesOfCommands DEF WriteStore, CommandStates, ChangingOfCommand
  <2> QED
    BY <1>2, <2>1, <2>2, <2>3, <2>4, OneUserMoves DEF WriteStore, AuthInv
<1>3. CASE RenameStore(u)
  <2>1. PICK next : next = IF authTemp = NoStore THEN Done
                   ELSE IF u \in Turns THEN Request(user[u].draft["openai"])
                   ELSE [at |-> "saved", does |-> user[u].does, provider |-> user[u].provider]
    OBVIOUS
  <2>2. user' = [user EXCEPT ![u] = next] /\ accountID' = accountID
    BY <1>3, <2>1 DEF RenameStore
  <2>3. ASSUME u \in Turns PROVE (next \in TurnStates \/ IsRequest(next)) /\ accountID # NoStore
    <3>1. user[u] \in ChangingOfTurn
      BY <1>3, <2>3, StagesOfTurns, StagesOfCommands DEF RenameStore
    <3>2. user[u].draft["openai"] \in GoodCreds
      BY <3>1, GoodStoreOperations DEF ChangingOfTurn, Providers
    <3>3. IsRequest(Request(user[u].draft["openai"]))
      BY <3>2 DEF Request, IsRequest, GoodCreds
    <3>4. accountID # NoStore
      BY <2>3, <3>1 DEF AuthInv, ChangingOfTurn, Begun
    <3> QED
      BY <2>1, <2>3, <3>3, <3>4 DEF TurnStates
  <2>4. ASSUME u \in Commands PROVE next \in CommandStates
    <3>1. user[u] \in ChangingOfCommand /\ u \notin Turns
      BY <1>0, <1>3, <2>4, StagesOfTurns, StagesOfCommands DEF RenameStore
    <3> QED
      BY <2>1, <3>1 DEF CommandStates, ChangingOfCommand, Saved
  <2>5. authFile' \in GoodStores \cup {NoStore} /\ authTemp' = NoStore
    BY <1>3 DEF RenameStore, AuthInv
  <2> QED
    BY <2>2, <2>3, <2>4, <2>5, OneUserMoves
<1>4. CASE StoreFails(u)
  <2>1. u \in Turns => accountID # NoStore
    BY <1>4 DEF StoreFails, AuthInv, Begun
  <2>2. /\ user' = [user EXCEPT ![u] = Done] /\ accountID' = accountID /\ authFile' = authFile
        /\ authTemp' \in {NoStore, authTemp}
    BY <1>4 DEF StoreFails
  <2> QED
    BY <2>1, <2>2, OneUserMoves DEF AuthInv, TurnStates, CommandStates
<1> QED
  BY <1>1, <1>2, <1>3, <1>4

(* The provider is created before any turn has begun.                      *)
LEMMA ProviderIsCreated ==
    ASSUME AuthInv, CreateCodexAuthProvider
    PROVE  AuthInv'
<1>1. \A t \in Turns : user[t] = Begun
  BY DEF CreateCodexAuthProvider, AuthInv
<1> QED
  BY <1>1 DEF CreateCodexAuthProvider, AuthInv, TurnStates

(* A refresh keeps the owner, and gives the account that goes with it.     *)
LEMMA TurnsAreGood ==
    ASSUME AuthInv, NEW t \in Turns,
           UseToken(t) \/ NeedsRefresh(t) \/ RefreshAccessToken(t) \/ RefreshFails(t)
    PROVE  AuthInv'
<1>0. t \in Users /\ t \notin Commands /\ accountID # NoStore /\ UNCHANGED <<authFile, authTemp, accountID>>
  BY UsersAssumption DEF Users, AuthInv, UseToken, NeedsRefresh, RefreshAccessToken, RefreshFails, Begun
<1>1. CASE UseToken(t)
  <2>1. PICK next : next = IF "openai" \in DOMAIN Mine THEN Request(Mine["openai"]) ELSE Done
    OBVIOUS
  <2>2. "openai" \in DOMAIN Mine => Mine["openai"] \in GoodCreds
    BY ReadableIsGood, GoodStoreOperations DEF Mine, Providers
  <2>3. next \in TurnStates \/ IsRequest(next)
    BY <2>1, <2>2 DEF TurnStates, Request, IsRequest, GoodCreds
  <2> QED
    BY <1>0, <1>1, <2>1, <2>3, OneUserMoves DEF UseToken, AuthInv
<1>2. CASE NeedsRefresh(t)
  <2>1. Mine["openai"] \in GoodCreds
    BY <1>2, ReadableIsGood, GoodStoreOperations DEF NeedsRefresh, Mine, Providers
  <2>2. [at |-> "refreshing", cred |-> Mine["openai"]] \in TurnStates
    BY <2>1 DEF TurnStates, Refreshing
  <2> QED
    BY <1>0, <1>2, <2>2, OneUserMoves DEF NeedsRefresh, AuthInv
<1>3. CASE RefreshAccessToken(t)
  <2>1. user[t].cred \in GoodCreds
    BY <1>3, StagesOfTurns DEF RefreshAccessToken, Refreshing
  <2>2. PICK account \in {user[t].cred.owner, KnownAccount(user[t].cred)} :
           user' = [user EXCEPT ![t] =
              [at |-> "setting", does |-> "refresh", provider |-> "openai",
               cred |-> [user[t].cred EXCEPT !.account = account, !.key = GatewayKey]]]
    BY <1>3 DEF RefreshAccessToken
  <2>3. [user[t].cred EXCEPT !.account = account, !.key = GatewayKey] \in GoodCreds
    BY <2>1, KeyAssumption DEF GoodCreds, KnownAccount
  <2>4. PICK next : next = [at |-> "setting", does |-> "refresh", provider |-> "openai",
                            cred |-> [user[t].cred EXCEPT !.account = account, !.key = GatewayKey]]
    OBVIOUS
  <2>5. next \in TurnStates
    BY <2>3, <2>4 DEF TurnStates, SettingOfTurn
  <2> QED
    BY <1>0, <2>2, <2>4, <2>5, OneUserMoves DEF AuthInv
<1>4. CASE RefreshFails(t)
  BY <1>0, <1>4, OneUserMoves DEF RefreshFails, AuthInv, TurnStates
<1> QED
  BY <1>1, <1>2, <1>3, <1>4

(* A login stores the account of whoever logs in, or none.                 *)
LEMMA CommandsAreGood ==
    ASSUME AuthInv, NEW c \in Commands,
           \/ Login(c) \/ LoginGranted(c) \/ LoginPasteToken(c) \/ LoginFails(c)
           \/ Logout(c) \/ LogoutAll(c) \/ UpdateConfig(c) \/ Killed(c)
    PROVE  AuthInv'
<1>0. /\ c \in Users /\ c \notin Turns /\ accountID' = accountID
      /\ authFile' \in GoodStores \cup {NoStore} /\ authTemp' \in GoodStores \cup {NoStore}
  BY UsersAssumption DEF Users, AuthInv, Login, LoginGranted, LoginPasteToken, LoginFails,
     Logout, LogoutAll, UpdateConfig, Killed
<1>1. ASSUME NEW next \in CommandStates, user' = [user EXCEPT ![c] = next] PROVE AuthInv'
  BY <1>0, <1>1, OneUserMoves
<1>2. CASE Login(c)
  BY <1>1, <1>2 DEF Login, CommandStates, Authorizing
<1>3. user[c].at = "authorizing" => user[c].key \in MasterKeys
  BY StagesOfCommands DEF Authorizing
<1>4. ASSUME NEW p \in Providers, NEW cred \in GoodCreds, Granted(c, p, cred), user[c].key \in MasterKeys
      PROVE  AuthInv'
  BY <1>1, <1>4 DEF Granted, CommandStates, SettingOfCommand
<1>5. CASE LoginGranted(c)
  <2>0. PICK owner \in Accounts : \E account \in {owner, "none"} :
           Granted(c, "openai", [owner |-> owner, account |-> account, oauth |-> TRUE, key |-> user[c].key])
    BY <1>5 DEF LoginGranted
  <2>1. PICK account \in {owner, "none"} :
           Granted(c, "openai", [owner |-> owner, account |-> account, oauth |-> TRUE, key |-> user[c].key])
    BY <2>0
  <2>2. [owner |-> owner, account |-> account, oauth |-> TRUE, key |-> user[c].key] \in GoodCreds
    BY <1>3, <1>5 DEF LoginGranted, GoodCreds
  <2> QED
    BY <1>3, <1>4, <1>5, <2>1, <2>2 DEF LoginGranted, Providers
<1>6. CASE LoginPasteToken(c)
  <2>1. [owner |-> "pasted", account |-> "none", oauth |-> FALSE, key |-> user[c].key] \in GoodCreds
    BY <1>3, <1>6 DEF LoginPasteToken, GoodCreds
  <2> QED
    BY <1>3, <1>4, <1>6, <2>1 DEF LoginPasteToken, Providers
<1>7. CASE LoginFails(c) \/ UpdateConfig(c) \/ Killed(c)
  BY <1>1, <1>7 DEF LoginFails, UpdateConfig, Killed, CommandStates
<1>8. CASE Logout(c)
  BY <1>1, <1>8 DEF Logout, CommandStates, Deleting
<1>9. CASE LogoutAll(c)
  BY <1>1, <1>9 DEF LogoutAll, CommandStates, Saved
<1> QED
  BY <1>2, <1>5, <1>6, <1>7, <1>8, <1>9

(* Every step keeps the credentials good.                                  *)
LEMMA NextIsGood == AuthInv /\ [Next]_vars => AuthInv'
<1> SUFFICES ASSUME AuthInv, [Next]_vars PROVE AuthInv'
  OBVIOUS
<1>1. CASE UNCHANGED authVars
  BY <1>1 DEF authVars, AuthInv, IsRequest
<1>2. CASE AuthStep
  BY <1>2, SavingIsGood, ProviderIsCreated, TurnsAreGood, CommandsAreGood DEF AuthStep, Users
<1>3. CASE Next
  BY <1>1, <1>2, <1>3 DEF Next
<1> QED
  BY <1>1, <1>3 DEF vars

(* No token is ever stored with somebody else's account, whoever logs in   *)
(* while a turn waits for the answer to its refresh, and whichever process *)
(* renames the temporary file; and none is sent with another account than  *)
(* its own or that which the gateway's provider was created with.          *)
THEOREM AccountsGoWithTokens == Spec => []AccountGoesWithToken
<1>1. Init => AuthInv
  BY AuthInitially DEF Init
<1>2. AuthInv => AccountGoesWithToken
  <2> SUFFICES ASSUME AuthInv PROVE AccountGoesWithToken
    OBVIOUS
  <2>1. ASSUME NEW p \in DOMAIN Stored(authFile)
        PROVE  authFile[p].account \in {authFile[p].owner, "none"}
    <3>1. Stored(authFile) = authFile
      BY <2>1 DEF Stored
    <3>2. authFile[p] \in GoodCreds
      BY <2>1, <3>1, ReadableIsGood, GoodStoreOperations DEF Providers
    <3> QED
      BY <3>2 DEF GoodCreds
  <2>2. ASSUME NEW t \in Turns, user[t].at = "sent"
        PROVE  user[t].account \in {user[t].owner, "none", accountID}
    BY <2>2, StagesOfTurns DEF IsRequest
  <2> QED
    BY <2>1, <2>2 DEF AccountGoesWithToken
<1> QED
  BY <1>1, <1>2, NextIsGood, PTL DEF Spec
-----------------------------------------------------------------------------
(***************************************************************************)
(* The heartbeat and the routines.  A beat that marks its routines looked  *)
(* at them in their minute, and no two beats in the same one.              *)
(***************************************************************************)
Marking == [at : {"marking"}, since : Nat, due : SUBSET Routines, told : SUBSET Routines]

BeatsInv ==
    /\ now \in Nat /\ now >= Minutes
    /\ beatAt \in Nat /\ beatAt <= now
    /\ lastTriggered \in [Routines -> 0..now]
    /\ kept.lastTriggered \in [Routines -> 0..now]
    /\ fired \in [Routines -> Nat]
    /\ beat = [b \in Beats |-> beat[b]]
    /\ \A b \in Beats : beat[b].at = "waiting" => beat[b] = Waiting
    /\ \A b \in Beats : beat[b].at = "marking" =>
          /\ beat[b] \in Marking
          /\ beat[b].since <= beatAt /\ beat[b].since >= Minutes
          /\ \A r \in beat[b].due \cup beat[b].told : beat[b].since % Minutes = TimeOfDay[r]
    /\ ~up => ~running /\ \A b \in Beats : beat[b].at = "off"
    /\ \A a, b \in Beats :
          /\ a = "initial" /\ b = "ticker" /\ beat[a].at = "waiting" => beat[b].at # "marking"
          /\ a # b /\ beat[a].at = "marking" /\ beat[b].at = "marking" => beat[a].since # beat[b].since

(* Where the disk can be written, the mark of a routine stays as it was    *)
(* set, and keeps it from being due again on the day it was told.          *)
MarksInv ==
    writable =>
      /\ kept.lastTriggered = lastTriggered
      /\ \A r \in Routines :
            fired[r] = 0 \/ \E s \in 0..lastTriggered[r] : s % Minutes = TimeOfDay[r] /\ Day(s) = fired[r]
      /\ \A b \in Beats : beat[b].at = "marking" =>
            /\ \A r \in beat[b].told : beat[b].since <= lastTriggered[r]
            /\ \A r \in beat[b].due \cup beat[b].told : fired[r] # Day(beat[b].since)

(* The quotient and the remainder determine the number.                    *)
LEMMA DivMod ==
    ASSUME NEW m \in Nat \ {0}, NEW s \in Nat, NEW k \in Nat, s \div m = k, NEW r \in Nat, s % m = r
    PROVE  s = m * k + r
OBVIOUS

(* Two times of the same day with the same minute are the same.            *)
LEMMA SameMinute ==
    ASSUME NEW s \in Nat, NEW t \in Nat, Day(s) = Day(t), s % Minutes = t % Minutes
    PROVE  s = t
<1>0. Minutes \in Nat \ {0}
  BY EngineAssumption
<1> DEFINE k == Day(s)
           r == s % Minutes
<1>1. /\ k \in Nat /\ r \in Nat /\ s \div Minutes = k /\ s % Minutes = r
      /\ t \div Minutes = k /\ t % Minutes = r
  BY <1>0 DEF Day
<1> HIDE DEF k, r
<1>2. s = Minutes * k + r
  BY <1>0, <1>1, DivMod
<1>3. t = Minutes * k + r
  BY <1>0, <1>1, DivMod
<1> QED
  BY <1>2, <1>3

(* Past the first of January every day has a number of its own.            *)
LEMMA DayType ==
    ASSUME NEW t \in Nat
    PROVE  Day(t) \in Nat /\ (t >= Minutes => Day(t) # 0)
<1>1. \A m \in Nat \ {0} : t \div m \in Nat /\ (t >= m => t \div m # 0)
  OBVIOUS
<1> QED
  BY <1>1, EngineAssumption DEF Day

(* The beats before the gateway is started.                                *)
LEMMA BeatsInitially == HeartbeatInit => BeatsInv /\ MarksInv
<1> SUFFICES ASSUME HeartbeatInit PROVE BeatsInv /\ MarksInv
  OBVIOUS
<1>1. Minutes \in Nat \ {0}
  BY EngineAssumption
<1>2. /\ now = Minutes /\ beatAt = now /\ writable = TRUE
      /\ lastTriggered = [r \in Routines |-> 0] /\ fired = [r \in Routines |-> 0]
      /\ kept.lastTriggered = lastTriggered
      /\ beat = [b \in Beats |-> Resting] /\ running = FALSE
  BY DEF HeartbeatInit, EngineInit, NeverTriggered
<1>3. \A b \in Beats : beat[b].at = "off"
  BY <1>2 DEF Resting
<1>4. lastTriggered \in [Routines -> 0..now]
  BY <1>1, <1>2
<1>5. beat = [b \in Beats |-> beat[b]]
  BY <1>2
<1>6. BeatsInv
  BY <1>1, <1>2, <1>3, <1>4, <1>5 DEF BeatsInv
<1>7. MarksInv
  BY <1>2, <1>3 DEF MarksInv
<1> QED
  BY <1>6, <1>7

(* What may happen to the heartbeat.                                       *)
HeartbeatMoves ==
    \/ UNCHANGED <<engineVars, up, beatVars>>
    \/ StartHeartbeat \/ StopHeartbeat \/ ProcessEnds
    \/ (Passes \/ DiskFills) /\ UNCHANGED <<up, beatVars>>
    \/ \E w \in Writers : Recorded(w) \/ TurnEnds(w)
    \/ \E b \in Beats :
          \/ NothingToDo(b) \/ ExecuteHeartbeat(b) \/ CallHandler(b)
          \/ \E r \in Routines : FireRoutine(b, r)

(* Nothing else does, in any scene.                                        *)
LEMMA MovesOfTheHeartbeat == [Next]_vars => HeartbeatMoves
<1> SUFFICES ASSUME [Next]_vars PROVE HeartbeatMoves
  OBVIOUS
<1>1. CASE UNCHANGED heartbeatVars
  BY <1>1 DEF heartbeatVars, HeartbeatMoves
<1>2. CASE StateScene
  BY <1>2 DEF StateScene, HeartbeatMoves
<1>3. CASE HeartbeatStep
  BY <1>3 DEF HeartbeatStep, HeartbeatMoves
<1>4. CASE TurnStep
  BY <1>4 DEF TurnStep, UserTurn, HeartbeatMoves
<1>5. CASE SaveStep
  BY <1>5 DEF SaveStep, HeartbeatMoves
<1>6. CASE TimeStep
  BY <1>6 DEF TimeStep, HeartbeatMoves
<1>7. CASE MonitorStep
  BY <1>1, <1>7 DEF MonitorStep
<1>8. CASE StartHeartbeat \/ ProcessEnds
  BY <1>8 DEF HeartbeatMoves
<1>9. CASE UNCHANGED vars
  BY <1>1, <1>9 DEF vars
<1> QED
  BY <1>1, <1>2, <1>3, <1>4, <1>5, <1>6, <1>7, <1>8, <1>9 DEF Next, BeatsScene, PlugsScene

(* Beats that come to rest, wait again, or go on to their turn.            *)
LEMMA QuietBeats ==
    ASSUME BeatsInv, UNCHANGED engineVars, up' = up, ~up => ~running',
           fired' \in [Routines -> Nat],
           beatAt' \in Nat, beatAt <= beatAt', beatAt' <= now,
           beat' = [b \in Beats |-> beat'[b]],
           \A b \in Beats : \/ beat'[b] = beat[b]
                            \/ beat'[b].at = "off"
                            \/ beat'[b].at = "turn" /\ up
                            \/ beat'[b] = Waiting /\ b # "initial" /\ up
    PROVE  BeatsInv' /\ (MarksInv /\ fired' = fired => MarksInv')
<1>1. UNCHANGED <<now, lastTriggered, kept, writable>>
  BY DEF engineVars
<1>0. Waiting.at = "waiting"
  BY DEF Waiting
<1>2. \A b \in Beats : beat'[b].at = "marking" => beat'[b] = beat[b]
  BY <1>0
<1>3. \A b \in Beats : beat'[b].at = "waiting" =>
         beat'[b] = Waiting /\ (b = "initial" => beat'[b] = beat[b])
  BY <1>0 DEF BeatsInv
<1>4. ASSUME NEW b \in Beats, beat'[b].at = "marking"
      PROVE  /\ beat'[b] \in Marking
             /\ beat'[b].since <= beatAt' /\ beat'[b].since >= Minutes
             /\ \A r \in beat'[b].due \cup beat'[b].told : beat'[b].since % Minutes = TimeOfDay[r]
  <2>1. beat'[b] = beat[b] /\ beat[b].since \in Nat
    BY <1>2, <1>4 DEF BeatsInv, Marking
  <2>2. Minutes \in Nat
    BY EngineAssumption
  <2> QED
    BY <1>4, <2>1, <2>2 DEF BeatsInv
<1>5. ~up' => ~running' /\ \A b \in Beats : beat'[b].at = "off"
  BY DEF BeatsInv
<1>6. BeatsInv'
  <2>1. \A a, b \in Beats :
           /\ a = "initial" /\ b = "ticker" /\ beat'[a].at = "waiting" => beat'[b].at # "marking"
           /\ a # b /\ beat'[a].at = "marking" /\ beat'[b].at = "marking" => beat'[a].since # beat'[b].since
    BY <1>2, <1>3 DEF BeatsInv
  <2>2. Waiting' = Waiting
    BY DEF Waiting
  <2> QED
    BY <1>1, <1>3, <1>4, <1>5, <2>1, <2>2 DEF BeatsInv
<1>7. MarksInv /\ fired' = fired => MarksInv'
  BY <1>1, <1>2 DEF MarksInv, Day
<1> QED
  BY <1>6, <1>7

(* A step of the clock, and one after which the disk is full.              *)
LEMMA ClockBeats ==
    ASSUME BeatsInv, Passes \/ DiskFills, UNCHANGED <<up, beatVars>>
    PROVE  BeatsInv' /\ (MarksInv => MarksInv')
<1>1. UNCHANGED <<lastTriggered, kept, up, running, beat, beatAt, fired>>
  BY DEF Passes, DiskFills, beatVars
<1>2. now' \in Nat /\ now <= now' /\ Minutes \in Nat
  BY EngineAssumption DEF Passes, DiskFills, BeatsInv
<1>3. \A b \in Beats : beat[b].at = "marking" => beat[b].since \in Nat
  BY DEF BeatsInv, Marking
<1>4. lastTriggered \in [Routines -> 0..now'] /\ kept.lastTriggered \in [Routines -> 0..now']
  <2>1. 0..now \subseteq 0..now'
    BY <1>2 DEF BeatsInv
  <2> QED
    BY <2>1 DEF BeatsInv
<1>5. BeatsInv'
  BY <1>1, <1>2, <1>4 DEF BeatsInv, Marking, Waiting
<1>6. MarksInv => MarksInv'
  BY <1>1 DEF MarksInv, Passes, DiskFills, Day
<1> QED
  BY <1>5, <1>6

(* The gateway starts, or ends wherever its beats are.                     *)
LEMMA ProcessBeats ==
    ASSUME BeatsInv, StartHeartbeat \/ ProcessEnds
    PROVE  BeatsInv' /\ (MarksInv => MarksInv')
<1>0. Minutes \in Nat \ {0}
  BY EngineAssumption
<1>1. CASE StartHeartbeat
  <2>1. UNCHANGED <<now, lastTriggered, kept, writable, fired>> /\ up' /\ beatAt' = now - 1
    BY <1>1 DEF StartHeartbeat, engineVars
  <2>2. /\ beat' = [b \in Beats |-> beat'[b]]
        /\ \A b \in Beats : beat'[b] \in {Waiting, Resting}
    BY <1>1 DEF StartHeartbeat
  <2>3. beatAt' \in Nat /\ beatAt' <= now
    <3>1. now \in Nat /\ now >= 1
      BY <1>0 DEF BeatsInv
    <3> QED
      BY <2>1, <3>1
  <2>4. \A b \in Beats : beat'[b].at # "marking" /\ (beat'[b].at = "waiting" => beat'[b] = Waiting)
    BY <2>2 DEF Waiting, Resting
  <2>5. BeatsInv'
    BY <2>1, <2>2, <2>3, <2>4 DEF BeatsInv, Waiting
  <2>6. MarksInv => MarksInv'
    BY <2>1, <2>4 DEF MarksInv, Day
  <2> QED
    BY <2>5, <2>6
<1>2. CASE ProcessEnds
  <2>1. /\ UNCHANGED <<now, kept, writable, fired, beatAt>> /\ up' = FALSE /\ running' = FALSE
        /\ lastTriggered' = kept.lastTriggered
    BY <1>2 DEF ProcessEnds, EngineRestart
  <2>2. /\ beat' = [b \in Beats |-> beat'[b]]
        /\ \A b \in Beats : beat'[b].at = "off"
    BY <1>2 DEF ProcessEnds, Resting
  <2>3. BeatsInv'
    BY <2>1, <2>2 DEF BeatsInv
  <2>4. MarksInv => MarksInv'
    BY <2>1, <2>2 DEF MarksInv, Day
  <2> QED
    BY <2>3, <2>4
<1> QED
  BY <1>1, <1>2

(* The end of a turn, Stop, a beat without tasks, and one that calls its   *)
(* handler.                                                                *)
LEMMA RestingBeats ==
    ASSUME BeatsInv,
           \/ StopHeartbeat
           \/ \E w \in Writers : TurnEnds(w)
           \/ \E b \in Beats : NothingToDo(b) \/ CallHandler(b)
    PROVE  /\ BeatsInv'
           /\ MarksInv => MarksInv' \/ \E b \in Beats : CallHandler(b)
<1>0. beat = [a \in Beats |-> beat[a]] /\ beatAt \in Nat /\ beatAt <= now /\ now \in Nat
  BY DEF BeatsInv
<1>1. ASSUME NEW w \in Writers, TurnEnds(w) PROVE BeatsInv' /\ (MarksInv => MarksInv')
  <2>1. /\ UNCHANGED <<engineVars, up, running, beatAt, fired>>
        /\ beat' = IF w \in Beats THEN [beat EXCEPT ![w] = AfterBeat(w)] ELSE beat
    BY <1>1 DEF TurnEnds
  <2>2. \A a \in Beats : \/ beat'[a] = beat[a] \/ beat'[a].at = "off"
                         \/ beat'[a] = Waiting /\ a # "initial" /\ up
    BY <1>0, <2>1 DEF AfterBeat, Resting, BeatsInv
  <2>3. beat' = [a \in Beats |-> beat'[a]]
    BY <1>0, <2>1
  <2>4. /\ fired' \in [Routines -> Nat] /\ (~up => ~running') /\ up' = up
        /\ beatAt' \in Nat /\ beatAt <= beatAt' /\ beatAt' <= now
    BY <1>0, <2>1 DEF BeatsInv
  <2> QED
    BY <2>1, <2>2, <2>3, <2>4, QuietBeats
<1>2. ASSUME StopHeartbeat PROVE BeatsInv' /\ (MarksInv => MarksInv')
  <2>1. /\ UNCHANGED <<engineVars, up, beatAt, fired>> /\ running' = FALSE
        /\ beat' = [a \in Beats |-> IF beat[a] = Waiting THEN Resting ELSE beat[a]]
    BY <1>2 DEF StopHeartbeat
  <2>2. \A a \in Beats : beat'[a] = beat[a] \/ beat'[a].at = "off"
    BY <2>1 DEF Resting
  <2>3. beat' = [a \in Beats |-> beat'[a]]
    BY <2>1
  <2>4. /\ fired' \in [Routines -> Nat] /\ (~up => ~running') /\ up' = up
        /\ beatAt' \in Nat /\ beatAt <= beatAt' /\ beatAt' <= now
    BY <1>0, <2>1 DEF BeatsInv
  <2> QED
    BY <2>1, <2>2, <2>3, <2>4, QuietBeats
<1>3. ASSUME NEW b \in Beats, NothingToDo(b) PROVE BeatsInv' /\ (MarksInv => MarksInv')
  <2>1. /\ UNCHANGED <<engineVars, up, running, fired>> /\ beatAt' = now /\ running
        /\ beat' = [beat EXCEPT ![b] = AfterBeat(b)]
    BY <1>3 DEF NothingToDo
  <2>2. \A a \in Beats : \/ beat'[a] = beat[a] \/ beat'[a].at = "off"
                         \/ beat'[a] = Waiting /\ a # "initial" /\ up
    BY <1>0, <2>1 DEF AfterBeat, Resting, BeatsInv
  <2>3. beat' = [a \in Beats |-> beat'[a]]
    BY <1>0, <2>1
  <2>4. /\ fired' \in [Routines -> Nat] /\ (~up => ~running') /\ up' = up
        /\ beatAt' \in Nat /\ beatAt <= beatAt' /\ beatAt' <= now
    BY <1>0, <2>1 DEF BeatsInv
  <2> QED
    BY <2>1, <2>2, <2>3, <2>4, QuietBeats
<1>4. ASSUME NEW b \in Beats, CallHandler(b) PROVE BeatsInv'
  <2>1. /\ UNCHANGED <<engineVars, up, running, beatAt>> /\ beat[b].at = "marking"
        /\ beat' = [beat EXCEPT ![b] = [at |-> "turn", told |-> beat[b].told, to |-> Destination(known)]]
        /\ fired' = [r \in Routines |-> IF r \in beat[b].told THEN Day(beat[b].since) ELSE fired[r]]
    BY <1>4 DEF CallHandler
  <2>2. beat'[b].at = "turn" /\ \A a \in Beats \ {b} : beat'[a] = beat[a]
    BY <1>0, <2>1
  <2>3. up
    BY <2>1 DEF BeatsInv
  <2>4. beat' = [a \in Beats |-> beat'[a]]
    BY <1>0, <2>1
  <2>5. fired' \in [Routines -> Nat]
    BY <2>1, DayType DEF BeatsInv, Marking
  <2> QED
    BY <1>0, <2>1, <2>2, <2>3, <2>4, <2>5, QuietBeats
<1> QED
  BY <1>1, <1>2, <1>3, <1>4

(* What a save of the engine leaves of the marks.                          *)
LEMMA EngineSaved ==
    ASSUME BeatsInv, SaveEngine, lastTriggered' \in [Routines -> 0..now]
    PROVE  /\ kept'.lastTriggered \in [Routines -> 0..now]
           /\ writable => kept'.lastTriggered = lastTriggered'
BY DEF SaveEngine, BeatsInv

(* A user's activity is recorded beside the marks.                         *)
LEMMA RecordedBeats ==
    ASSUME BeatsInv, NEW w \in Writers, Recorded(w)
    PROVE  BeatsInv' /\ (MarksInv => MarksInv')
<1>1. /\ UNCHANGED <<now, lastTriggered, writable, up, running, beat, beatAt, fired>>
      /\ SaveEngine
  BY DEF Recorded, RecordActivity, beatVars
<1>2. kept'.lastTriggered \in [Routines -> 0..now] /\ (writable => kept'.lastTriggered = lastTriggered')
  BY <1>1, EngineSaved DEF BeatsInv
<1>3. BeatsInv'
  BY <1>1, <1>2 DEF BeatsInv
<1>4. MarksInv => MarksInv'
  BY <1>1, <1>2 DEF MarksInv, Day
<1> QED
  BY <1>3, <1>4

(* A beat looks at the routines: none of those it finds was told today,    *)
(* for its mark would be of this very minute; and no other beat is just    *)
(* marking what it found in this minute.                                   *)
LEMMA LookingBeats ==
    ASSUME BeatsInv, NEW b \in Beats, ExecuteHeartbeat(b)
    PROVE  BeatsInv' /\ (MarksInv => MarksInv')
<1> DEFINE looks == [at |-> "marking", since |-> now, due |-> CheckRoutines, told |-> {}]
<1>1. /\ running /\ beat[b] = Waiting /\ IsTime(b)
      /\ beat' = [beat EXCEPT ![b] = looks] /\ beatAt' = now
      /\ UNCHANGED <<now, lastTriggered, kept, writable, up, running, fired>>
  BY DEF ExecuteHeartbeat, engineVars
<1>2. /\ now \in Nat /\ now >= Minutes /\ Minutes \in Nat /\ beatAt \in Nat /\ beatAt <= now
      /\ beat = [a \in Beats |-> beat[a]]
  BY EngineAssumption DEF BeatsInv
<1>3. CheckRoutines \in SUBSET Routines /\ \A r \in CheckRoutines : now % Minutes = TimeOfDay[r]
  BY DEF CheckRoutines
<1>4. /\ looks \in Marking /\ looks.at = "marking" /\ looks.since = now
      /\ looks.due = CheckRoutines /\ looks.told = {}
  BY <1>2, <1>3 DEF Marking
<1>5. \A a \in Beats \ {b} : beat[a].at = "marking" => beat[a].since < now /\ beat[a].since \in Nat
  <2> SUFFICES ASSUME NEW a \in Beats, a # b, beat[a].at = "marking"
               PROVE  beat[a].since < now /\ beat[a].since \in Nat
    OBVIOUS
  <2>1. beat[a].since \in Nat /\ beat[a].since <= beatAt
    BY DEF BeatsInv, Marking
  <2>2. CASE b = "ticker"
    BY <1>1, <1>2, <2>1, <2>2 DEF IsTime
  <2>3. CASE b = "initial"
    <3>1. a = "ticker"
      BY <2>3, HeartbeatAssumption
    <3>2. beat[b].at = "waiting"
      BY <1>1 DEF Waiting
    <3> QED
      BY <2>3, <3>1, <3>2 DEF BeatsInv
  <2> QED
    BY <2>2, <2>3, HeartbeatAssumption
<1> HIDE DEF looks
<1>6. /\ beat' = [a \in Beats |-> beat'[a]] /\ beat'[b] = looks
      /\ \A a \in Beats \ {b} : beat'[a] = beat[a]
  BY <1>1, <1>2
<1>7. ASSUME NEW a \in Beats, beat'[a].at = "marking"
      PROVE  /\ beat'[a] \in Marking
             /\ beat'[a].since <= beatAt' /\ beat'[a].since >= Minutes
             /\ \A r \in beat'[a].due \cup beat'[a].told : beat'[a].since % Minutes = TimeOfDay[r]
  <2>1. CASE a = b
    BY <1>1, <1>2, <1>3, <1>4, <1>6, <2>1
  <2>2. CASE a # b
    <3>1. beat'[a] = beat[a] /\ beat[a].since < now /\ beat[a].since \in Nat
      BY <1>5, <1>6, <1>7, <2>2
    <3> QED
      BY <1>1, <1>2, <1>7, <2>2, <3>1 DEF BeatsInv
  <2> QED
    BY <2>1, <2>2
<1>8. \A a, c \in Beats :
         /\ a = "initial" /\ c = "ticker" /\ beat'[a].at = "waiting" => beat'[c].at # "marking"
         /\ a # c /\ beat'[a].at = "marking" /\ beat'[c].at = "marking" => beat'[a].since # beat'[c].since
  <2> SUFFICES ASSUME NEW a \in Beats, NEW c \in Beats
               PROVE  /\ a = "initial" /\ c = "ticker" /\ beat'[a].at = "waiting" => beat'[c].at # "marking"
                      /\ a # c /\ beat'[a].at = "marking" /\ beat'[c].at = "marking" =>
                            beat'[a].since # beat'[c].since
    OBVIOUS
  <2>1. a # c /\ beat'[a].at = "marking" /\ beat'[c].at = "marking" => beat'[a].since # beat'[c].since
    BY <1>4, <1>5, <1>6 DEF BeatsInv
  <2>2. a = "initial" /\ c = "ticker" /\ beat'[a].at = "waiting" => beat'[c].at # "marking"
    <3>1. CASE b = "ticker"
      <4>1. a = "initial" => beat[a] # Waiting
        BY <1>1, <3>1 DEF IsTime
      <4>2. a = "initial" => beat'[a].at # "waiting"
        BY <1>6, <3>1, <4>1 DEF BeatsInv
      <4> QED
        BY <4>2
    <3>2. CASE b = "initial"
      BY <1>4, <1>6, <3>2
    <3> QED
      BY <3>1, <3>2, HeartbeatAssumption
  <2> QED
    BY <2>1, <2>2
<1>9. BeatsInv'
  <2>1. up'
    BY <1>1 DEF BeatsInv
  <2>2. \A a \in Beats : beat'[a].at = "waiting" => beat'[a] = Waiting
    BY <1>4, <1>6 DEF BeatsInv
  <2>3. beat' = [a \in Beats |-> beat'[a]]
    BY <1>6
  <2>4. Waiting' = Waiting
    BY DEF Waiting
  <2> QED
    BY <1>1, <1>2, <1>7, <1>8, <2>1, <2>2, <2>3, <2>4 DEF BeatsInv
<1>10. ASSUME MarksInv, writable PROVE MarksInv'
  <2>1. ASSUME NEW r \in CheckRoutines PROVE fired[r] # Day(now)
    <3> SUFFICES ASSUME fired[r] = Day(now) PROVE FALSE
      OBVIOUS
    <3>1. fired[r] # 0 /\ r \in Routines
      BY <1>2, <1>3, <2>1, DayType
    <3>2. PICK s \in 0..lastTriggered[r] : s % Minutes = TimeOfDay[r] /\ Day(s) = fired[r]
      BY <1>10, <3>1 DEF MarksInv
    <3>3. lastTriggered[r] \in 0..now
      BY <3>1 DEF BeatsInv
    <3>4. s \in Nat /\ s <= lastTriggered[r]
      BY <1>2, <3>3
    <3>5. s = now
      BY <1>2, <1>3, <2>1, <3>2, <3>4, SameMinute
    <3>6. lastTriggered[r] = now
      BY <1>2, <3>3, <3>4, <3>5
    <3> QED
      BY <2>1, <3>6 DEF CheckRoutines, SameDate
  <2>2. \A a \in Beats : beat'[a].at = "marking" =>
            /\ \A r \in beat'[a].told : beat'[a].since <= lastTriggered'[r]
            /\ \A r \in beat'[a].due \cup beat'[a].told : fired'[r] # Day(beat'[a].since)
    BY <1>1, <1>4, <1>6, <1>10, <2>1 DEF MarksInv
  <2> QED
    BY <1>1, <1>10, <2>2 DEF MarksInv, Day
<1> QED
  BY <1>1, <1>9, <1>10 DEF MarksInv

(* A routine is marked, on the disk too if it can be written.              *)
LEMMA MarkingBeats ==
    ASSUME BeatsInv, NEW b \in Beats, NEW r \in Routines, FireRoutine(b, r)
    PROVE  BeatsInv' /\ (MarksInv => MarksInv')
<1>1. /\ beat[b].at = "marking" /\ r \in beat[b].due
      /\ lastTriggered' = [lastTriggered EXCEPT ![r] = now] /\ SaveEngine
      /\ beat' = [beat EXCEPT ![b] = [beat[b] EXCEPT !.due = beat[b].due \ {r},
                                                    !.told = beat[b].told \cup {r}]]
      /\ UNCHANGED <<now, writable, up, running, beatAt, fired>>
  BY DEF FireRoutine, MarkRoutineTriggered, BeatsInv
<1>2. /\ now \in Nat /\ beat = [a \in Beats |-> beat[a]] /\ beatAt <= now /\ beatAt \in Nat
      /\ beat[b] \in Marking /\ beat[b].since <= beatAt
      /\ lastTriggered \in [Routines -> 0..now]
  BY <1>1 DEF BeatsInv
<1>3. PICK x : x = beat'[b]
  OBVIOUS
<1>4. /\ x \in Marking /\ x.at = "marking" /\ x.since = beat[b].since
      /\ x.due = beat[b].due \ {r} /\ x.told = beat[b].told \cup {r}
  <2>1. x = [beat[b] EXCEPT !.due = beat[b].due \ {r}, !.told = beat[b].told \cup {r}]
    BY <1>1, <1>2, <1>3
  <2> QED
    BY <1>2, <2>1 DEF Marking
<1>5. beat' = [a \in Beats |-> beat'[a]] /\ \A a \in Beats \ {b} : beat'[a] = beat[a]
  BY <1>1, <1>2
<1>6. lastTriggered' \in [Routines -> 0..now]
  BY <1>1, <1>2
<1>7. kept'.lastTriggered \in [Routines -> 0..now] /\ (writable => kept'.lastTriggered = lastTriggered')
  BY <1>1, <1>6, EngineSaved
<1>8. x.due \cup x.told = beat[b].due \cup beat[b].told
  BY <1>1, <1>4
<1>9. ASSUME NEW a \in Beats, beat'[a].at = "marking"
      PROVE  /\ beat'[a] \in Marking
             /\ beat'[a].since <= beatAt' /\ beat'[a].since >= Minutes
             /\ \A q \in beat'[a].due \cup beat'[a].told : beat'[a].since % Minutes = TimeOfDay[q]
  <2>1. CASE a = b
    BY <1>1, <1>3, <1>4, <1>8, <2>1 DEF BeatsInv
  <2>2. CASE a # b
    BY <1>1, <1>5, <1>9, <2>2 DEF BeatsInv
  <2> QED
    BY <2>1, <2>2
<1>10. \A a \in Beats : /\ beat'[a].at = beat[a].at
                        /\ beat'[a].at = "marking" => beat'[a].since = beat[a].since
                        /\ beat'[a].at = "waiting" => beat'[a] = beat[a]
  BY <1>1, <1>3, <1>4, <1>5
<1>11. BeatsInv'
  <2>1. Waiting' = Waiting
    BY DEF Waiting
  <2>2. \A a \in Beats : beat'[a].at = "waiting" => beat'[a] = Waiting
    BY <1>10 DEF BeatsInv
  <2>3. \A a, c \in Beats :
           /\ a = "initial" /\ c = "ticker" /\ beat'[a].at = "waiting" => beat'[c].at # "marking"
           /\ a # c /\ beat'[a].at = "marking" /\ beat'[c].at = "marking" => beat'[a].since # beat'[c].since
    BY <1>10 DEF BeatsInv
  <2>4. ~up' => ~running' /\ \A a \in Beats : beat'[a].at = "off"
    BY <1>1, <1>10 DEF BeatsInv
  <2>5. now' \in Nat /\ now' >= Minutes /\ beatAt' \in Nat /\ beatAt' <= now' /\ fired' \in [Routines -> Nat]
    BY <1>1 DEF BeatsInv
  <2> QED
    BY <1>1, <1>5, <1>6, <1>7, <1>9, <2>1, <2>2, <2>3, <2>4, <2>5 DEF BeatsInv
<1>12. ASSUME MarksInv, writable PROVE MarksInv'
  <2>1. \A q \in Routines : lastTriggered[q] \in 0..now /\ lastTriggered[q] <= lastTriggered'[q]
    BY <1>1, <1>2
  <2>2. \A q \in Routines :
           fired[q] = 0 \/ \E s \in 0..lastTriggered'[q] : s % Minutes = TimeOfDay[q] /\ Day(s) = fired[q]
    <3>1. \A q \in Routines : 0..lastTriggered[q] \subseteq 0..lastTriggered'[q]
      BY <1>2, <1>6, <2>1
    <3> QED
      BY <1>12, <3>1 DEF MarksInv
  <2>3. ASSUME NEW a \in Beats, beat'[a].at = "marking"
        PROVE  /\ \A q \in beat'[a].told : beat'[a].since <= lastTriggered'[q]
               /\ \A q \in beat'[a].due \cup beat'[a].told : fired[q] # Day(beat'[a].since)
    <3>1. beat'[a].since \in Nat /\ beat[a].since \in Nat /\ beat[a] \in Marking
      BY <1>9, <1>10, <2>3 DEF Marking, BeatsInv
    <3>2. CASE a = b
      <4>1. beat[b].since <= lastTriggered'[r]
        BY <1>1, <1>2, <3>1, <3>2
      <4>2. \A q \in beat[b].told : q \in Routines /\ beat[b].since <= lastTriggered[q]
        BY <1>1, <1>2, <1>12 DEF MarksInv, Marking
      <4>3. \A q \in x.told : x.since <= lastTriggered'[q]
        <5> SUFFICES ASSUME NEW q \in x.told PROVE x.since <= lastTriggered'[q]
          OBVIOUS
        <5>1. CASE q = r
          BY <1>4, <4>1, <5>1
        <5>2. CASE q # r
          <6>1. q \in Routines /\ beat[b].since <= lastTriggered[q]
            BY <1>4, <4>2, <5>2
          <6>2. lastTriggered[q] \in 0..now /\ lastTriggered'[q] \in 0..now
                /\ lastTriggered[q] <= lastTriggered'[q]
            BY <1>6, <2>1, <6>1
          <6> QED
            BY <1>2, <1>4, <3>1, <3>2, <6>1, <6>2
        <5> QED
          BY <5>1, <5>2
      <4>4. \A q \in x.due \cup x.told : fired[q] # Day(x.since)
        BY <1>1, <1>4, <1>8, <1>12 DEF MarksInv
      <4> QED
        BY <1>3, <3>2, <4>3, <4>4
    <3>3. CASE a # b
      <4>1. beat'[a] = beat[a]
        BY <1>5, <3>3
      <4>2. \A q \in beat[a].told : q \in Routines /\ beat[a].since <= lastTriggered[q]
        BY <1>12, <2>3, <3>1, <4>1 DEF MarksInv, Marking
      <4>3. ASSUME NEW q \in beat[a].told PROVE beat[a].since <= lastTriggered'[q]
        <5>1. /\ lastTriggered[q] \in 0..now /\ lastTriggered'[q] \in 0..now
              /\ lastTriggered[q] <= lastTriggered'[q] /\ beat[a].since <= lastTriggered[q]
          BY <1>6, <2>1, <4>2, <4>3
        <5> QED
          BY <1>2, <3>1, <5>1
      <4> QED
        BY <1>12, <2>3, <4>1, <4>3 DEF MarksInv
    <3> QED
      BY <3>2, <3>3
  <2> QED
    BY <1>1, <1>7, <1>12, <2>2, <2>3 DEF MarksInv, Day
<1> QED
  BY <1>1, <1>11, <1>12 DEF MarksInv

(* What is told now was told on no other beat of the day.                  *)
LEMMA TellingBeats ==
    ASSUME BeatsInv, MarksInv, NEW b \in Beats, CallHandler(b)
    PROVE  MarksInv'
<1> SUFFICES ASSUME writable PROVE MarksInv'
  BY DEF CallHandler, engineVars, MarksInv
<1>1. /\ beat[b].at = "marking"
      /\ beat' = [beat EXCEPT ![b] = [at |-> "turn", told |-> beat[b].told, to |-> Destination(known)]]
      /\ fired' = [r \in Routines |-> IF r \in beat[b].told THEN Day(beat[b].since) ELSE fired[r]]
      /\ UNCHANGED <<now, lastTriggered, kept, writable>>
  BY DEF CallHandler, engineVars
<1>2. /\ beat = [a \in Beats |-> beat[a]] /\ beat[b] \in Marking /\ beat[b].since \in Nat
      /\ lastTriggered \in [Routines -> 0..now] /\ now \in Nat
      /\ \A r \in beat[b].told : beat[b].since % Minutes = TimeOfDay[r]
  BY <1>1 DEF BeatsInv, Marking
<1>3. beat'[b].at = "turn" /\ \A a \in Beats \ {b} : beat'[a] = beat[a]
  BY <1>1, <1>2
<1>4. ASSUME NEW r \in Routines
      PROVE  fired'[r] = 0 \/ \E s \in 0..lastTriggered[r] : s % Minutes = TimeOfDay[r] /\ Day(s) = fired'[r]
  <2>1. CASE r \in beat[b].told
    <3>1. beat[b].since <= lastTriggered[r] /\ lastTriggered[r] \in Nat
      BY <1>1, <1>2, <2>1 DEF MarksInv
    <3>2. beat[b].since \in 0..lastTriggered[r]
      BY <1>2, <3>1
    <3>3. fired'[r] = Day(beat[b].since)
      BY <1>1, <2>1
    <3> QED
      BY <1>2, <2>1, <3>2, <3>3
  <2>2. CASE r \notin beat[b].told
    BY <1>1, <2>2 DEF MarksInv
  <2> QED
    BY <2>1, <2>2
<1>5. ASSUME NEW a \in Beats, beat'[a].at = "marking"
      PROVE  /\ \A r \in beat'[a].told : beat'[a].since <= lastTriggered[r]
             /\ \A r \in beat'[a].due \cup beat'[a].told : fired'[r] # Day(beat'[a].since)
  <2>1. a # b /\ beat'[a] = beat[a] /\ beat[a] \in Marking /\ beat[a].since \in Nat
    BY <1>3, <1>5 DEF BeatsInv, Marking
  <2>2. beat[a].since # beat[b].since
    BY <1>1, <1>5, <2>1 DEF BeatsInv
  <2>3. ASSUME NEW r \in beat[a].due \cup beat[a].told PROVE fired'[r] # Day(beat[a].since)
    <3>1. r \in Routines /\ beat[a].since % Minutes = TimeOfDay[r] /\ fired[r] # Day(beat[a].since)
      BY <1>5, <2>1, <2>3 DEF BeatsInv, MarksInv, Marking
    <3>2. CASE r \in beat[b].told
      <4>1. Day(beat[b].since) # Day(beat[a].since)
        BY <1>2, <2>1, <2>2, <3>1, <3>2, SameMinute
      <4> QED
        BY <1>1, <3>1, <3>2, <4>1
    <3>3. CASE r \notin beat[b].told
      BY <1>1, <3>1, <3>3
    <3> QED
      BY <3>2, <3>3
  <2>4. \A r \in beat[a].told : beat[a].since <= lastTriggered[r]
    BY <1>5, <2>1 DEF MarksInv
  <2> QED
    BY <2>1, <2>3, <2>4
<1> QED
  BY <1>1, <1>4, <1>5 DEF MarksInv, Day

(* Every step keeps both.                                                  *)
LEMMA BeatsNext == BeatsInv /\ MarksInv /\ [Next]_vars => BeatsInv' /\ MarksInv'
<1> SUFFICES ASSUME BeatsInv, MarksInv, HeartbeatMoves PROVE BeatsInv' /\ MarksInv'
  BY MovesOfTheHeartbeat
<1>1. CASE UNCHANGED <<engineVars, up, beatVars>>
  BY <1>1 DEF engineVars, beatVars, BeatsInv, MarksInv, Marking, Waiting, Day
<1>2. CASE StartHeartbeat \/ ProcessEnds
  BY <1>2, ProcessBeats
<1>3. CASE (Passes \/ DiskFills) /\ UNCHANGED <<up, beatVars>>
  BY <1>3, ClockBeats
<1>4. CASE \E w \in Writers : Recorded(w)
  BY <1>4, RecordedBeats
<1>5. CASE \/ StopHeartbeat
           \/ \E w \in Writers : TurnEnds(w)
           \/ \E b \in Beats : NothingToDo(b) \/ CallHandler(b)
  BY <1>5, RestingBeats, TellingBeats
<1>6. ASSUME NEW b \in Beats, ExecuteHeartbeat(b) \/ \E r \in Routines : FireRoutine(b, r)
      PROVE  BeatsInv' /\ MarksInv'
  BY <1>6, LookingBeats, MarkingBeats
<1> QED
  BY <1>1, <1>2, <1>3, <1>4, <1>5, <1>6 DEF HeartbeatMoves

(* A routine is put before the model at most once a day, whichever beat    *)
(* looks and however often the gateway is killed and started again, as     *)
(* long as proactive.json can be written.                                  *)
THEOREM RoutinesAreToldOnceADay == Spec => RoutineOncePerDay
<1>1. Init => BeatsInv /\ MarksInv
  BY BeatsInitially DEF Init
<1>2. BeatsInv /\ MarksInv /\ [Next]_vars =>
        [\A b \in Beats :
           beat[b].at = "marking" /\ beat'[b].at = "turn" /\ writable
              => \A r \in beat[b].told : fired[r] # Day(beat[b].since)]_heartbeatVars
  BY DEF MarksInv
<1> QED
  BY <1>1, <1>2, BeatsNext, PTL DEF Spec, RoutineOncePerDay
=============================================================================
