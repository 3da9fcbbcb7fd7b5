---------------------------------- MODULE Setup ----------------------------------
(***************************************************************************)
(* The commands that change config.json, at work beside the gateway and    *)
(* each other: each is a process that loads the settings, changes its copy *)
(* while it asks its user or a server, and saves the copy.  Nothing keeps  *)
(* two of them apart.                                                      *)
(***************************************************************************)
EXTENDS Wizards, TelegramPairing

CONSTANTS
    Commands,       \* the processes that may be started, and the command of each
    CommandOf,
    FirstFiles,     \* what may be on the disk at first
    Imported        \* the allow-list of the OpenClaw configuration that migrate takes over

Kinds == {"pairing", "onboard", "configure", "auto", "refresh", "login", "logout", "migrate"}

ASSUME SetupAssumption ==
    /\ CommandOf \in [Commands -> SUBSET Kinds]
    /\ Imported \subseteq Users
    /\ NoUser \notin Users
    /\ FirstFiles \subseteq {f \in ConfigFiles : f.holds.api => f.holds.key}

VARIABLES
    cli,            \* per process: its command, where it is, its draft, the code and what it has read
    base,           \* history: what each process's draft was made from
    listed,         \* history: the allow-list of the last complete file
    admitted        \* history: who was listed at first, imported or approved

historyVars == <<base, listed, admitted>>
vars == <<configFile, pairingVars, cli, historyVars>>

NotRun == [does |-> "none", at |-> "idle", draft |-> DefaultConfig, read |-> {}]
Over == [NotRun EXCEPT !.at = "over"]

Init ==
    /\ configFile \in FirstFiles
    /\ PairingInit
    /\ cli = [p \in Commands |-> NotRun]
    /\ base = [p \in Commands |-> "nothing"]
    /\ listed = configFile.holds.allow
    /\ admitted = configFile.holds.allow

TypeOK ==
    /\ configFile \in ConfigFiles
    /\ PairingTypeOK
    /\ cli \in [Commands ->
          [does : Kinds \cup {"none"},
           at : {"idle", "loaded", "approving", "approved", "truncated", "over"},
           draft : Settings, read : SUBSET Requests]]
    /\ base \in [Commands -> {"nothing", "current", "older", "given up"}]
    /\ listed \subseteq Users /\ admitted \subseteq Users
-----------------------------------------------------------------------------
FromFile == IF configFile.state = "whole" THEN "current" ELSE "nothing"

Holds(p, does, draft, from) ==
    /\ cli' = [cli EXCEPT ![p] = [does |-> does, at |-> "loaded", draft |-> draft, read |-> {}]]
    /\ base' = [base EXCEPT ![p] = from]

\* What a command other than onboard does first: some go on with the defaults when the
\* file cannot be loaded, the others give up.
GoesOnWithDefaults == {"configure", "auto"}

Load(p, does) ==
    /\ cli[p].at = "idle" /\ does \in CommandOf[p] \ {"onboard", "migrate"}
    /\ Unreadable => does \in GoesOnWithDefaults
    /\ \E env \in Environments :
          /\ does = "pairing" => LoadConfig(env).telegram
          /\ Holds(p, does, LoadConfig(env), FromFile)
    /\ UNCHANGED <<configFile, pairingVars, listed, admitted>>

TakesOverChannel(s, d) == ~s.telegram /\ d.telegram

\* Merges what it imports into what it loads, and saves at once.
MigrateLoads(p) ==
    /\ cli[p].at = "idle" /\ "migrate" \in CommandOf[p]
    /\ ~Unreadable
    /\ \E env \in Environments :
       \E d \in MigrateConfig(LoadConfig(env), configFile.state # "absent", Imported) :
         /\ Holds(p, "migrate", d, IF TakesOverChannel(LoadConfig(env), d) THEN "given up" ELSE FromFile)
         /\ admitted' = admitted \cup d.allow
    /\ UNCHANGED <<configFile, pairingVars, listed>>

\* The wizard offers to keep the settings or to start afresh, then asks for the target.
OnboardLoads(p) ==
    /\ cli[p].at = "idle" /\ "onboard" \in CommandOf[p]
    /\ \E reset \in BOOLEAN, env \in Environments :
         /\ reset => configFile.state # "absent" /\ ~Unreadable
         /\ \E d \in OnboardChooseTarget(IF reset THEN DefaultConfig ELSE LoadConfig(env)) :
              Holds(p, "onboard", d, IF reset THEN "given up" ELSE FromFile)
    /\ UNCHANGED <<configFile, pairingVars, listed, admitted>>

\* The credentials are in a store of their own; of the settings, the method changes.
LoginEdits(d) == WithBrain(d, {d.brain, IF d.brain = "keyless" THEN "ready" ELSE d.brain})
LogoutEdits(d) == WithBrain(d, {d.brain, IF d.brain = "ready" THEN "keyless" ELSE d.brain})

Edited(p) ==
    LET d == cli[p].draft
    IN  CASE cli[p].does = "onboard" -> QuickStart(d) \cup Manual(d)
          [] cli[p].does = "configure" -> ConfigureSections(d)
          [] cli[p].does = "auto" -> OnboardAuto(d)
          [] cli[p].does = "login" -> LoginEdits(d)
          [] cli[p].does = "logout" -> LogoutEdits(d)
          [] cli[p].does = "refresh" -> OnboardRefresh(d)
          [] OTHER -> {d}

\* The edit is over, and SaveConfig has begun.
EditAndTruncate(p) ==
    /\ cli[p].at = "loaded" /\ cli[p].does # "pairing"
    /\ \E d \in Edited(p) :
         cli' = [cli EXCEPT ![p].at = "truncated", ![p].draft = d]
    /\ TruncateConfig
    /\ UNCHANGED <<pairingVars, historyVars>>

\* The user cancels, the live test fails, or the process is killed before it saves.
GiveUp(p) ==
    /\ cli[p].at \in {"loaded", "approving", "approved"}
    /\ cli' = [cli EXCEPT ![p] = Over]
    /\ base' = [base EXCEPT ![p] = "nothing"]
    /\ UNCHANGED <<configFile, pairingVars, listed, admitted>>

\* Approve reads the requests, and takes the one with the code out of the file.
ApproveReads(p) ==
    /\ cli[p].at = "loaded" /\ cli[p].does = "pairing"
    /\ cli' = [cli EXCEPT ![p].at = "approving", ![p].read = requests]
    /\ UNCHANGED <<configFile, pairingVars, historyVars>>

\* No request with the code: the command ends, as it may by GiveUp.
Approve(p) ==
    /\ cli[p].at = "approving"
    /\ \E r \in cli[p].read :
         /\ requests' = cli[p].read \ {r}
         /\ cli' = [cli EXCEPT ![p].at = "approved", ![p].draft.allow = @ \cup {r.user}, ![p].read = {}]
         /\ admitted' = admitted \cup {r.user}
    /\ UNCHANGED <<configFile, gateway, heard, base, listed>>

\* The settings loaded before Approve are saved, with the user added.
SaveApproved(p) ==
    /\ cli[p].at = "approved"
    /\ TruncateConfig
    /\ cli' = [cli EXCEPT ![p].at = "truncated"]
    /\ UNCHANGED <<pairingVars, historyVars>>

Write(p) ==
    /\ cli[p].at = "truncated"
    /\ WriteConfig(cli[p].draft)
    /\ cli' = [cli EXCEPT ![p] = Over]
    /\ base' = [q \in Commands |-> IF q = p THEN "nothing"
                                   ELSE IF base[q] = "current" THEN "older" ELSE base[q]]
    /\ listed' = IF configFile'.state = "whole" THEN cli[p].draft.allow ELSE listed
    /\ UNCHANGED <<pairingVars, admitted>>

KilledSaving(p) ==
    /\ cli[p].at = "truncated"
    /\ WriteInterrupted
    /\ cli' = [cli EXCEPT ![p] = Over]
    /\ base' = [base EXCEPT ![p] = "nothing"]
    /\ UNCHANGED <<pairingVars, listed, admitted>>
-----------------------------------------------------------------------------
CommandStep(p) ==
    \/ \E does \in CommandOf[p] : Load(p, does)
    \/ OnboardLoads(p) \/ MigrateLoads(p) \/ EditAndTruncate(p) \/ GiveUp(p)
    \/ ApproveReads(p) \/ Approve(p) \/ SaveApproved(p)
    \/ Write(p) \/ KilledSaving(p)

GatewayStep ==
    /\ \/ GatewayStarts \/ GatewayStops \/ CreateOrReuse
       \/ \E u \in Users : HandleTelegramMessage(u)
       \/ \E r \in requests : Expires(r)
    /\ UNCHANGED <<cli, historyVars>>

Next == GatewayStep \/ \E p \in Commands : CommandStep(p)

Spec == Init /\ [][Next]_vars
-----------------------------------------------------------------------------
(***************************************************************************)
(* Nobody is heard who was never let in: not while a save leaves the file  *)
(* empty for a moment, not after the settings were reset or lost, though   *)
(* an empty allow-list allows everybody.                                   *)
(***************************************************************************)
StrangersStayOut == heard \subseteq admitted

(***************************************************************************)
(* Whatever path through the wizards and whatever prompts are cancelled,   *)
(* no file is left that enables the remote API without a key.              *)
(***************************************************************************)
EnabledApiHasKey == configFile.holds.api => configFile.holds.key

(***************************************************************************)
(* Someone who was let in is on the list until the operator starts afresh  *)
(* or takes a channel over from OpenClaw, or a command saves that loaded   *)
(* before another one saved, or found no whole file to load: no section of *)
(* a wizard loses an entry by itself.                                      *)
(***************************************************************************)
EntriesVanishForAReason ==
    [][listed \subseteq listed' \/ \E p \in Commands : cli[p].at = "truncated" /\ base[p] # "current"]_vars
=============================================================================
