-------------------------------- MODULE Wizards --------------------------------
(***************************************************************************)
(* cmd/v1claw/onboard.go, configure.go and setup_experience.go, and        *)
(* pkg/migrate: what a command makes of the settings it has loaded.  Each  *)
(* section of a wizard is the set of the drafts its prompts can lead to,   *)
(* whatever is chosen, left empty or cancelled.                            *)
(***************************************************************************)
EXTENDS ConfigFile

\* A section after those before it.
Then(drafts, Section(_)) == UNION {Section(d) : d \in drafts}

\* A section that may be left out.
Maybe(drafts, Section(_)) == drafts \cup Then(drafts, Section)

WithBrain(d, brains) == {[d EXCEPT !.brain = b] : b \in brains}
-----------------------------------------------------------------------------
(* setup_experience.go                                                      *)

EnsureSetupAPIKey(d) == [d EXCEPT !.key = TRUE]

\* A mutated form: the target enables the API and leaves the key to the wizard's later steps.
TargetWithoutKey(d, target) ==
    IF target = "gateway"
      THEN [d EXCEPT !.public = TRUE, !.api = TRUE, !.restricted = TRUE]
      ELSE [d EXCEPT !.public = FALSE, !.api = FALSE]

ApplySetupTargetDefaults(d, target) ==
    IF target = "gateway"
      THEN EnsureSetupAPIKey([d EXCEPT !.public = TRUE, !.api = TRUE, !.restricted = TRUE])
      ELSE [d EXCEPT !.public = FALSE, !.api = FALSE]

OnboardChooseTarget(d) == {ApplySetupTargetDefaults(d, t) : t \in {"local", "gateway"}}
-----------------------------------------------------------------------------
(* configure.go, its sections                                               *)

\* Nothing changes if the first prompt is cancelled; the second unlocks unless "locked" is chosen.
ConfigureWorkspace(d) == {d} \cup {[d EXCEPT !.restricted = r] : r \in BOOLEAN}

\* Several providers, each with the prompts it needs, which may be left empty: the first
\* becomes the agent's at once, if it has none, and a key may be the one that was missing.
SelectProviders(d) ==
    WithBrain(d, CASE d.brain = "none" -> {"none", "unnamed"}
                   [] d.brain = "keyless" -> {"keyless", "ready"}
                   [] OTHER -> {d.brain})

\* A model brings its provider along, whose key may not have been given; or none is chosen.
SelectModel(d) ==
    WithBrain(d, CASE d.brain = "none" -> {"none"}
                   [] OTHER -> {d.brain, "keyless", "ready"})

ConfigureModels(d) == Then(SelectProviders(d), SelectModel)

GatewayModeLocal(d) == {ApplySetupTargetDefaults(d, "local")}

\* The host may be typed over; a key is made if there is none.
GatewayModeGateway(d) ==
    LET g == ApplySetupTargetDefaults(d, "gateway")
    IN  {[g EXCEPT !.public = p, !.key = TRUE] : p \in BOOLEAN}

\* The key is asked for, and made if left empty, only when the API is enabled.
GatewayModeCustom(d) ==
    {[d EXCEPT !.public = p, !.api = a, !.key = a \/ d.key] : p \in BOOLEAN, a \in BOOLEAN}

ConfigureGateway(d) == GatewayModeLocal(d) \cup GatewayModeGateway(d) \cup GatewayModeCustom(d)

\* A mutated form: a disabled channel's settings go back to the defaults.
DisableAndForgetAll(d) == [d EXCEPT !.telegram = FALSE, !.allow = {}]

DisableAllChannels(d) == [d EXCEPT !.telegram = FALSE]

\* Those selected are enabled again if there is a token.
ConfigureChannels(d) == {[DisableAllChannels(d) EXCEPT !.telegram = t] : t \in BOOLEAN}

\* Guided goes through the sections in order, classic in any order and again and again: no
\* order but that of workspace and gateway makes a difference.
ConfigureSections(d) ==
    Maybe(Maybe(Maybe(Maybe(Maybe({d}, ConfigureGateway), ConfigureWorkspace), ConfigureGateway),
                ConfigureModels), ConfigureChannels)
-----------------------------------------------------------------------------
(* onboard.go: a draft that is not among the results was given up.          *)

\* The provider, with its first model or none; what credentials it had, it has.
OnboardProvider(d) == WithBrain(d, {"unnamed", "keyless", "ready"})

\* The key must be given; one that fails the live test three times may be kept.
OnboardAPIKeyWithKey(d) == WithBrain(d, {IF d.brain = "unnamed" THEN "unnamed" ELSE "ready"})

\* Cloud and local providers ask for an endpoint instead; Azure's deployment names the model.
OnboardEndpoint(d) == OnboardAPIKeyWithKey(d) \cup WithBrain(d, {"ready"})

OnboardAPIKey(d) == OnboardAPIKeyWithKey(d) \cup OnboardEndpoint(d)

\* A model must be named if the provider has none of its own; whether the connection works
\* is tested, and a failure may be passed over.
OnboardModel(d) == WithBrain(d, {"ready"})

OnboardBrain(d) == Then(Then(OnboardProvider(d), OnboardAPIKey), OnboardModel)

\* Workspace, provider, access, and save.
QuickStart(d) == OnboardBrain(d)

\* The council, the tools and the permissions are settings of their own.
Manual(d) ==
    Maybe(Then(Then(ConfigureWorkspace(d), OnboardBrain), ConfigureGateway), ConfigureChannels)

\* The flags must name a provider, with a key where it needs one and a model where it has none.
OnboardAuto(d) == WithBrain(d, {"ready"})

\* Loads and saves: fields that are new to the program come with their defaults.
OnboardRefresh(d) == {d}
-----------------------------------------------------------------------------
(* pkg/migrate/config.go                                                    *)

\* What OpenClaw's configuration converts to: it has no API, and its own allow-list.
ConvertConfig(imported) ==
    {[DefaultConfig EXCEPT !.brain = b, !.public = p, !.telegram = t, !.allow = imported] :
        b \in Brains, p \in BOOLEAN, t \in BOOLEAN}

\* Telegram is taken over whole if it was not in use; providers' keys where there were none.
MergeConfig(d, incoming) ==
    LET withKeys == WithBrain(d, {d.brain, IF d.brain = "keyless" THEN "ready" ELSE d.brain})
    IN  {IF ~d.telegram /\ incoming.telegram
           THEN [k EXCEPT !.telegram = TRUE, !.allow = incoming.allow]
           ELSE k : k \in withKeys}

MigrateConfig(d, isThere, imported) ==
    IF isThere THEN UNION {MergeConfig(d, i) : i \in ConvertConfig(imported)}
               ELSE ConvertConfig(imported)
=============================================================================
