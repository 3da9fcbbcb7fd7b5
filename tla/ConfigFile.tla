------------------------------- MODULE ConfigFile -------------------------------
(***************************************************************************)
(* pkg/config/config.go: config.json, which every command loads, and which *)
(* the commands that change it write back whole.  SaveConfig writes in     *)
(* place: the file is empty until the data has arrived, and LoadConfig     *)
(* takes an empty file for one without settings.  The environment of a     *)
(* process overrides what it loads, and so what it saves.  (An allow-list  *)
(* in the environment is left out; it would replace the file's.)           *)
(***************************************************************************)
EXTENDS Naturals, Sequences, FiniteSets, TLC

CONSTANTS
    Users,          \* who writes to the Telegram bot
    Environments    \* of the processes: the settings that variables override

VARIABLE configFile     \* what is on the disk

\* The provider's part: none chosen; no model named; credentials missing; complete.
Brains == {"none", "unnamed", "keyless", "ready"}

Settings ==
    [brain : Brains,
     public : BOOLEAN,          \* Gateway.Host is not a loopback address
     api : BOOLEAN,             \* V1API.Enabled
     key : BOOLEAN,             \* V1API.APIKey is not empty
     restricted : BOOLEAN,      \* Agents.Defaults.RestrictToWorkspace
     telegram : BOOLEAN,        \* Channels.Telegram.Enabled, with a token
     allow : SUBSET Users]      \* Channels.Telegram.AllowFrom

DefaultConfig ==
    [brain |-> "none", public |-> FALSE, api |-> FALSE, key |-> FALSE,
     restricted |-> TRUE, telegram |-> FALSE, allow |-> {}]

Whole(settings) == [state |-> "whole", holds |-> settings]
Without(state) == [state |-> state, holds |-> DefaultConfig]

ConfigFiles ==
    {f \in [state : {"whole", "absent", "empty", "garbled"}, holds : Settings] :
        f.state # "whole" => f.holds = DefaultConfig}

\* An environment that enables the API brings a key; variables that are empty are not set.
ASSUME EnvironmentAssumption ==
    \A env \in Environments :
        /\ DOMAIN env \subseteq {"credentials", "public", "api", "key", "restricted", "telegram"}
        /\ \A name \in DOMAIN env : env[name] \in BOOLEAN
        /\ "key" \in DOMAIN env => env["key"]
        /\ "api" \in DOMAIN env /\ env["api"] => "key" \in DOMAIN env

Override(env, name, setting) == IF name \in DOMAIN env THEN env[name] ELSE setting

\* LoadConfig: defaults for an absent or empty file, an error for one it cannot parse;
\* then the environment's variables.
Unreadable == configFile.state = "garbled"

LoadConfig(env) ==
    [configFile.holds EXCEPT
        !.brain = IF @ = "keyless" /\ Override(env, "credentials", FALSE) THEN "ready" ELSE @,
        !.public = Override(env, "public", @),
        !.api = Override(env, "api", @),
        !.key = Override(env, "key", @),
        !.restricted = Override(env, "restricted", @),
        !.telegram = Override(env, "telegram", @)]

\* SaveConfig, by os.WriteFile: the file is emptied, then written from its beginning.
TruncateConfig == configFile' = Without("empty")

\* Over another writer's data, which may be longer and keep its end.
WriteConfig(settings) ==
    \/ configFile' = Whole(settings)
    \/ configFile.state # "empty" /\ configFile' = Without("garbled")

\* A writer that dies between the two, or in the middle of the second.
WriteInterrupted == configFile' \in {configFile, Without("garbled")}
-----------------------------------------------------------------------------
(* cmd/v1claw/main.go: what the gateway asks of the settings it starts with. *)

GatewayProviderReady(s) == s.brain # "keyless"

ValidateGatewaySecurity(s) ==
    /\ s.api => s.key
    /\ s.public => s.restricted /\ (s.telegram => s.allow # {})
=============================================================================
