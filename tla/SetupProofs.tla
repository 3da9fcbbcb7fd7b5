------------------------------ MODULE SetupProofs ------------------------------
(***************************************************************************)
(* Proofs about Setup, for any users, codes and first files, and any       *)
(* number of commands running at once.                                     *)
(***************************************************************************)
EXTENDS Setup, TLAPS

\* Settings that may stand in the file while the users of a set are admitted, and that
\* those of another set have not vanished from.
Fit(those, users) ==
    {s \in Settings : those \subseteq s.allow /\ s.allow \subseteq users /\ (s.api => s.key)}

(* Filling in the provider's part leaves the rest of the settings alone.   *)
LEMMA BrainFits ==
    ASSUME NEW those, NEW users, NEW d \in Fit(those, users), NEW brains \in SUBSET Brains
    PROVE  WithBrain(d, brains) \subseteq Fit(those, users)
BY DEF WithBrain, Fit, Settings

(* The settings the program starts from without a file fit.                *)
LEMMA DefaultFits ==
    ASSUME NEW users
    PROVE  DefaultConfig \in Fit({}, users)
BY DEF DefaultConfig, Fit, Settings, Brains

(* A setup target changes the exposure, and never without a key.           *)
LEMMA TargetFits ==
    ASSUME NEW those, NEW users, NEW d \in Fit(those, users), NEW t
    PROVE  ApplySetupTargetDefaults(d, t) \in Fit(those, users)
BY DEF ApplySetupTargetDefaults, EnsureSetupAPIKey, Fit, Settings

(* The sections of configure take fitting drafts to fitting drafts.        *)
LEMMA WorkspaceFits ==
    ASSUME NEW those, NEW users, NEW d \in Fit(those, users)
    PROVE  ConfigureWorkspace(d) \subseteq Fit(those, users)
BY DEF ConfigureWorkspace, Fit, Settings

LEMMA GatewayFits ==
    ASSUME NEW those, NEW users, NEW d \in Fit(those, users)
    PROVE  ConfigureGateway(d) \subseteq Fit(those, users)
<1>1. GatewayModeLocal(d) \subseteq Fit(those, users)
  BY TargetFits DEF GatewayModeLocal
<1>2. GatewayModeGateway(d) \subseteq Fit(those, users)
  <2>1. ApplySetupTargetDefaults(d, "gateway") \in Fit(those, users)
    BY TargetFits
  <2> QED
    BY <2>1 DEF GatewayModeGateway, Fit, Settings
<1>3. GatewayModeCustom(d) \subseteq Fit(those, users)
  <2>1. ASSUME NEW p \in BOOLEAN, NEW a \in BOOLEAN
        PROVE  [d EXCEPT !.public = p, !.api = a, !.key = a \/ d.key] \in Fit(those, users)
    <3> DEFINE k == a \/ d.key
    <3>1. k \in BOOLEAN /\ (a => k)
      OBVIOUS
    <3> HIDE DEF k
    <3>2. [d EXCEPT !.public = p, !.api = a, !.key = k] \in Fit(those, users)
      BY <3>1 DEF Fit, Settings
    <3> QED
      BY <3>2 DEF k
  <2> DEFINE Custom(p, a) == [d EXCEPT !.public = p, !.api = a, !.key = a \/ d.key]
  <2>2. GatewayModeCustom(d) = {Custom(p, a) : p \in BOOLEAN, a \in BOOLEAN}
    BY DEF GatewayModeCustom
  <2>3. \A p \in BOOLEAN, a \in BOOLEAN : Custom(p, a) \in Fit(those, users)
    BY <2>1
  <2> HIDE DEF Custom
  <2> QED
    BY <2>2, <2>3
<1> QED
  BY <1>1, <1>2, <1>3 DEF ConfigureGateway

LEMMA ChannelsFit ==
    ASSUME NEW those, NEW users, NEW d \in Fit(those, users)
    PROVE  ConfigureChannels(d) \subseteq Fit(those, users)
BY DEF ConfigureChannels, DisableAllChannels, Fit, Settings

LEMMA ModelsFit ==
    ASSUME NEW those, NEW users, NEW d \in Fit(those, users)
    PROVE  ConfigureModels(d) \subseteq Fit(those, users)
<1>1. \A e \in Fit(those, users) : SelectProviders(e) \subseteq Fit(those, users)
  <2>1. \A e \in Fit(those, users) : e.brain \in Brains
    BY DEF Fit, Settings
  <2> QED
    BY <2>1, BrainFits DEF SelectProviders, Brains
<1>2. \A e \in Fit(those, users) : SelectModel(e) \subseteq Fit(those, users)
  <2>1. \A e \in Fit(those, users) : e.brain \in Brains
    BY DEF Fit, Settings
  <2> QED
    BY <2>1, BrainFits DEF SelectModel, Brains
<1> QED
  BY <1>1, <1>2 DEF ConfigureModels, Then

(* So does any sequence of them.                                           *)
LEMMA SectionsFit ==
    ASSUME NEW those, NEW users, NEW d \in Fit(those, users)
    PROVE  ConfigureSections(d) \subseteq Fit(those, users)
<1> DEFINE A == Maybe({d}, ConfigureGateway)
           B == Maybe(A, ConfigureWorkspace)
           C == Maybe(B, ConfigureGateway)
           D == Maybe(C, ConfigureModels)
<1>1. A \subseteq Fit(those, users)
  BY GatewayFits DEF Maybe, Then
<1>2. B \subseteq Fit(those, users)
  <2> HIDE DEF A
  <2> QED  BY <1>1, WorkspaceFits DEF Maybe, Then
<1>3. C \subseteq Fit(those, users)
  <2> HIDE DEF B
  <2> QED  BY <1>2, GatewayFits DEF Maybe, Then
<1>4. D \subseteq Fit(those, users)
  <2> HIDE DEF C
  <2> QED  BY <1>3, ModelsFit DEF Maybe, Then
<1>5. Maybe(D, ConfigureChannels) \subseteq Fit(those, users)
  <2> HIDE DEF D
  <2> QED  BY <1>4, ChannelsFit DEF Maybe, Then
<1> QED
  BY <1>5 DEF ConfigureSections

(* The steps of onboarding that settle the provider.                       *)
LEMMA OnboardBrainFits ==
    ASSUME NEW those, NEW users, NEW d \in Fit(those, users)
    PROVE  OnboardBrain(d) \subseteq Fit(those, users)
<1>1. \A e \in Fit(those, users) : OnboardProvider(e) \subseteq Fit(those, users)
  BY BrainFits DEF OnboardProvider, Brains
<1>2. \A e \in Fit(those, users) : OnboardAPIKey(e) \subseteq Fit(those, users)
  BY BrainFits DEF OnboardAPIKey, OnboardAPIKeyWithKey, OnboardEndpoint, Brains
<1>3. \A e \in Fit(those, users) : OnboardModel(e) \subseteq Fit(those, users)
  BY BrainFits DEF OnboardModel, Brains
<1>4. Then(OnboardProvider(d), OnboardAPIKey) \subseteq Fit(those, users)
  BY <1>1, <1>2 DEF Then
<1> QED
  BY <1>3, <1>4 DEF OnboardBrain, Then

(* The two paths through the onboarding wizard.                            *)
LEMMA OnboardingFits ==
    ASSUME NEW those, NEW users, NEW d \in Fit(those, users)
    PROVE  QuickStart(d) \cup Manual(d) \subseteq Fit(those, users)
<1> DEFINE A == Then(ConfigureWorkspace(d), OnboardBrain)
           B == Then(A, ConfigureGateway)
<1>1. A \subseteq Fit(those, users)
  BY WorkspaceFits, OnboardBrainFits DEF Then
<1>2. B \subseteq Fit(those, users)
  <2> HIDE DEF A
  <2> QED  BY <1>1, GatewayFits DEF Then
<1>3. Maybe(B, ConfigureChannels) \subseteq Fit(those, users)
  <2> HIDE DEF B
  <2> QED  BY <1>2, ChannelsFit DEF Maybe, Then
<1> QED
  BY <1>3, OnboardBrainFits DEF QuickStart, Manual

(* A migration brings its own list along, which its users are admitted by. *)
LEMMA MigrationFits ==
    ASSUME NEW users, NEW d \in Fit({}, users), NEW there, Imported \subseteq Users
    PROVE  \A e \in MigrateConfig(d, there, Imported) : e \in Fit({}, users \cup e.allow)
<1>1. \A i \in ConvertConfig(Imported) : i \in Fit({}, users \cup Imported) /\ i.allow = Imported
  <2>1. ASSUME NEW b \in Brains, NEW p \in BOOLEAN, NEW t \in BOOLEAN
        PROVE  LET i == [DefaultConfig EXCEPT !.brain = b, !.public = p, !.telegram = t,
                                              !.allow = Imported]
               IN  i \in Fit({}, users \cup Imported) /\ i.allow = Imported
    <3>1. DefaultConfig \in Settings /\ DefaultConfig.api = FALSE
      BY DEF DefaultConfig, Settings, Brains
    <3>2. \A s \in Settings : [s EXCEPT !.brain = b, !.public = p] \in Settings
                           /\ [s EXCEPT !.brain = b, !.public = p].api = s.api
      BY DEF Settings
    <3>3. \A s \in Settings :
              LET i == [s EXCEPT !.telegram = t, !.allow = Imported]
              IN  i \in Settings /\ i.api = s.api /\ i.allow = Imported
      BY DEF Settings
    <3> QED
      BY <3>1, <3>2, <3>3 DEF Fit
  <2> DEFINE I(b, p, t) == [DefaultConfig EXCEPT !.brain = b, !.public = p, !.telegram = t,
                                                 !.allow = Imported]
  <2>2. ConvertConfig(Imported) = {I(b, p, t) : b \in Brains, p \in BOOLEAN, t \in BOOLEAN}
    BY DEF ConvertConfig
  <2>3. \A b \in Brains, p \in BOOLEAN, t \in BOOLEAN :
            I(b, p, t) \in Fit({}, users \cup Imported) /\ I(b, p, t).allow = Imported
    BY <2>1
  <2> HIDE DEF I
  <2> SUFFICES ASSUME NEW i \in ConvertConfig(Imported)
               PROVE  i \in Fit({}, users \cup Imported) /\ i.allow = Imported
    OBVIOUS
  <2>4. PICK b \in Brains, p \in BOOLEAN, t \in BOOLEAN : i = I(b, p, t)
    BY <2>2
  <2> QED
    BY <2>3, <2>4
<1>2. ASSUME NEW i \in ConvertConfig(Imported), NEW e \in MergeConfig(d, i)
      PROVE  e \in Fit({}, users \cup e.allow)
  <2>1. WithBrain(d, {d.brain, IF d.brain = "keyless" THEN "ready" ELSE d.brain}) \subseteq Fit({}, users)
    BY BrainFits DEF Fit, Settings, Brains
  <2>2. PICK k \in Fit({}, users) : e = IF ~d.telegram /\ i.telegram
                                     THEN [k EXCEPT !.telegram = TRUE, !.allow = i.allow] ELSE k
    BY <2>1 DEF MergeConfig
  <2>3. i.allow \subseteq Users
    BY <1>1 DEF Fit, Settings
  <2> QED
    BY <2>2, <2>3 DEF Fit, Settings
<1> QED
  BY <1>1, <1>2 DEF MigrateConfig, Fit
-----------------------------------------------------------------------------
(* What every process and the gateway hold fits what has been admitted.    *)
Fitting ==
    /\ configFile.holds \in Fit({}, admitted)
    /\ \A p \in Commands : cli[p].draft \in Fit({}, admitted)
    /\ gateway.allow \subseteq admitted
    /\ heard \subseteq admitted

IInv == TypeOK /\ Fitting

(* What the environment overrides leaves the list alone, and brings a key  *)
(* with the remote API.                                                    *)
LEMMA LoadedFits ==
    ASSUME NEW users, configFile.holds \in Fit({}, users), NEW env \in Environments
    PROVE  /\ LoadConfig(env) \in Fit({}, users)
           /\ LoadConfig(env).allow = configFile.holds.allow
<1> DEFINE s == configFile.holds
           brain == IF s.brain = "keyless" /\ Override(env, "credentials", FALSE) THEN "ready" ELSE s.brain
           public == Override(env, "public", s.public)
           api == Override(env, "api", s.api)
           key == Override(env, "key", s.key)
           restricted == Override(env, "restricted", s.restricted)
           telegram == Override(env, "telegram", s.telegram)
<1>1. s \in Settings /\ s.allow \subseteq users /\ (s.api => s.key)
  BY DEF Fit
<1>2. brain \in Brains
  BY <1>1 DEF Settings, Brains
<1>3. \A name, b : b \in BOOLEAN => Override(env, name, b) \in BOOLEAN
  BY EnvironmentAssumption DEF Override
<1>4. public \in BOOLEAN /\ api \in BOOLEAN /\ key \in BOOLEAN /\ restricted \in BOOLEAN /\ telegram \in BOOLEAN
  BY <1>1, <1>3 DEF Settings
<1>5. api => key
  BY <1>1, EnvironmentAssumption DEF Override
<1>6. LoadConfig(env) = [s EXCEPT !.brain = brain, !.public = public, !.api = api, !.key = key,
                                  !.restricted = restricted, !.telegram = telegram]
  BY DEF LoadConfig
<1> HIDE DEF brain, public, api, key, restricted, telegram
<1>7. LoadConfig(env) = [brain |-> brain, public |-> public, api |-> api, key |-> key,
                         restricted |-> restricted, telegram |-> telegram, allow |-> s.allow]
  BY <1>1, <1>6 DEF Settings
<1> QED
  BY <1>1, <1>2, <1>4, <1>5, <1>7 DEF Fit, Settings

(* More users admitted, more settings fit.                                 *)
LEMMA FitGrows ==
    ASSUME NEW users, NEW more, NEW s \in Fit({}, users), users \subseteq more
    PROVE  s \in Fit({}, more)
BY DEF Fit

(* The types hold at first.                                                *)
LEMMA InitInv == Init => IInv
<1> SUFFICES ASSUME Init PROVE IInv
  OBVIOUS
<1>1. DefaultConfig \in Fit({}, admitted)
  BY DefaultFits
<1>2. configFile \in ConfigFiles /\ configFile.holds \in Fit({}, admitted)
  BY SetupAssumption DEF Init, ConfigFiles, Fit
<1>3. admitted \subseteq Users
  BY <1>2 DEF Init, Fit, Settings
<1>4. TypeOK
  <2>1. NotRun \in [does : Kinds \cup {"none"}, at : {"idle", "loaded", "approving", "approved", "truncated", "over"},
                     draft : Settings, read : SUBSET Requests]
    BY <1>1 DEF NotRun, Fit
  <2>2. PairingTypeOK
    BY DEF Init, PairingInit, PairingTypeOK, GatewayIs
  <2> QED
    BY <1>2, <1>3, <2>1, <2>2 DEF Init, TypeOK
<1> QED
  BY <1>1, <1>2, <1>4 DEF Init, IInv, Fitting, PairingInit, GatewayIs, NotRun

-----------------------------------------------------------------------------
\* What a step leaves of the types and of Fitting when only one part changes.
Process == [does : Kinds \cup {"none"},
            at : {"idle", "loaded", "approving", "approved", "truncated", "over"},
            draft : Settings, read : SUBSET Requests]

(* A process takes a step of its own, and all that it holds fits.          *)
LEMMA ProcessFits ==
    ASSUME IInv, NEW p \in Commands, NEW c \in Process,
           cli' = [cli EXCEPT ![p] = c],
           admitted' \in SUBSET Users, admitted \subseteq admitted',
           c.draft \in Fit({}, admitted')
    PROVE  /\ cli' \in [Commands -> Process]
           /\ \A q \in Commands : cli'[q].draft \in Fit({}, admitted')
<1>1. cli \in [Commands -> Process]
  BY DEF IInv, TypeOK, Process
<1>2. \A q \in Commands : cli[q].draft \in Fit({}, admitted')
  BY FitGrows DEF IInv, Fitting
<1> QED
  BY <1>1, <1>2

(* The file a save leaves fits if the draft does.                          *)
LEMMA FileFits ==
    ASSUME NEW users, NEW d \in Fit({}, users), configFile \in ConfigFiles,
           configFile.holds \in Fit({}, users),
           TruncateConfig \/ WriteConfig(d) \/ WriteInterrupted \/ UNCHANGED configFile
    PROVE  configFile' \in ConfigFiles /\ configFile'.holds \in Fit({}, users)
<1>1. DefaultConfig \in Fit({}, users) /\ DefaultConfig \in Settings
  BY DefaultFits DEF Fit
<1>2. \A w \in {"empty", "garbled"} : Without(w) \in ConfigFiles /\ Without(w).holds = DefaultConfig
  BY <1>1 DEF Without, ConfigFiles
<1>3. Whole(d) \in ConfigFiles /\ Whole(d).holds = d
  BY DEF Whole, ConfigFiles, Fit
<1> QED
  BY <1>1, <1>2, <1>3 DEF TruncateConfig, WriteConfig, WriteInterrupted

(* What a command's edit makes of a fitting draft fits: nobody vanishes. *)
LEMMA EditFits ==
    ASSUME IInv, NEW p \in Commands, cli[p].does # "pairing", NEW d \in Edited(p),
           NEW those, cli[p].draft \in Fit(those, admitted)
    PROVE  d \in Fit(those, admitted)
<1> DEFINE e == cli[p].draft
<1>1. e \in Fit(those, admitted)
  OBVIOUS
<1>2. e.brain \in Brains
  BY <1>1 DEF Fit, Settings
<1>3. CASE cli[p].does = "migrate"
  BY <1>1, <1>3 DEF Edited
<1>4. CASE cli[p].does = "onboard"
  BY <1>1, <1>4, OnboardingFits DEF Edited
<1>5. CASE cli[p].does = "configure"
  BY <1>1, <1>5, SectionsFit DEF Edited
<1>6. CASE cli[p].does = "auto"
  BY <1>1, <1>6, BrainFits DEF Edited, OnboardAuto, Brains
<1>7. CASE cli[p].does = "login"
  BY <1>1, <1>2, <1>7, BrainFits DEF Edited, LoginEdits, Brains
<1>8. CASE cli[p].does = "logout"
  BY <1>1, <1>2, <1>8, BrainFits DEF Edited, LogoutEdits, Brains
<1>9. CASE cli[p].does = "refresh"
  BY <1>1, <1>9 DEF Edited, OnboardRefresh
<1>10. CASE cli[p].does = "none"
  BY <1>1, <1>10 DEF Edited
<1> QED
  BY <1>3, <1>4, <1>5, <1>6, <1>7, <1>8, <1>9, <1>10 DEF IInv, TypeOK, Kinds
-----------------------------------------------------------------------------
\* The part of the invariant about the file, the gateway and the requests.
FileAndGatewayFit ==
    /\ configFile \in ConfigFiles /\ configFile.holds \in Fit({}, admitted)
    /\ PairingTypeOK
    /\ gateway.allow \subseteq admitted
    /\ heard \subseteq admitted

(* The next state keeps the invariant if it keeps that part and what is    *)
(* said of each process.                                                   *)
LEMMA InvParts ==
    ASSUME FileAndGatewayFit',
           cli' \in [Commands -> Process], \A q \in Commands : cli'[q].draft \in Fit({}, admitted'),
           base' \in [Commands -> {"nothing", "current", "older", "given up"}],
           listed' \in SUBSET Users, admitted' \in SUBSET Users
    PROVE  IInv'
BY DEF IInv, TypeOK, Fitting, FileAndGatewayFit, Process

(* Nothing of the file and the gateway changes, more users are admitted.   *)
LEMMA FileAndGatewayStay ==
    ASSUME IInv, UNCHANGED <<configFile, gateway, heard>>, requests' \in SUBSET Requests,
           admitted' \in SUBSET Users, admitted \subseteq admitted'
    PROVE  FileAndGatewayFit'
<1>1. configFile.holds \in Fit({}, admitted')
  BY FitGrows DEF IInv, Fitting
<1> QED
  BY <1>1 DEF IInv, TypeOK, Fitting, FileAndGatewayFit, PairingTypeOK

(* A step of a saving command leaves a file that fits.                     *)
LEMMA FileChangesGatewayStays ==
    ASSUME IInv, UNCHANGED pairingVars,
           admitted' \in SUBSET Users, admitted \subseteq admitted',
           NEW d \in Fit({}, admitted'),
           TruncateConfig \/ WriteConfig(d) \/ WriteInterrupted
    PROVE  FileAndGatewayFit'
<1>1. configFile.holds \in Fit({}, admitted')
  BY FitGrows DEF IInv, Fitting
<1>2. configFile' \in ConfigFiles /\ configFile'.holds \in Fit({}, admitted')
  BY <1>1, FileFits DEF IInv, TypeOK
<1> QED
  BY <1>2 DEF IInv, TypeOK, Fitting, FileAndGatewayFit, PairingTypeOK, pairingVars

(* A command's step keeps the invariant.                                   *)
LEMMA CommandKeepsInv ==
    ASSUME IInv, NEW p \in Commands, CommandStep(p)
    PROVE  IInv'
<1>0. /\ cli[p] \in Process /\ cli \in [Commands -> Process]
      /\ cli[p].draft \in Fit({}, admitted)
      /\ \A env \in Environments : LoadConfig(env) \in Fit({}, admitted)
      /\ DefaultConfig \in Fit({}, admitted)
      /\ base \in [Commands -> {"nothing", "current", "older", "given up"}]
      /\ requests \in SUBSET Requests
      /\ listed \in SUBSET Users /\ admitted \in SUBSET Users
  BY DefaultFits, LoadedFits DEF IInv, TypeOK, Fitting, Process, PairingTypeOK
<1>1. Over \in Process /\ Over.draft \in Fit({}, admitted)
  BY <1>0 DEF Over, NotRun, Process, Fit
<1>2. ASSUME NEW does \in Kinds, NEW d \in Fit({}, admitted), NEW from \in {"nothing", "current", "older", "given up"},
             Holds(p, does, d, from), UNCHANGED <<configFile, pairingVars, listed, admitted>>
      PROVE  IInv'
  <2> DEFINE c == [does |-> does, at |-> "loaded", draft |-> d, read |-> {}]
  <2>1. c \in Process /\ c.draft \in Fit({}, admitted')
    BY <1>2 DEF Process, Fit
  <2>2. cli' = [cli EXCEPT ![p] = c]
    BY <1>2 DEF Holds
  <2>3. cli' \in [Commands -> Process] /\ \A q \in Commands : cli'[q].draft \in Fit({}, admitted')
    BY <1>0, <1>2, <2>1, <2>2, ProcessFits
  <2>4. base' \in [Commands -> {"nothing", "current", "older", "given up"}]
    BY <1>0, <1>2 DEF Holds
  <2>5. FileAndGatewayFit'
    BY <1>0, <1>2, FileAndGatewayStay DEF pairingVars
  <2> QED
    BY <1>0, <1>2, <2>3, <2>4, <2>5, InvParts
<1>3. FromFile \in {"nothing", "current", "older", "given up"}
  BY DEF FromFile
<1>4. CASE \E does \in CommandOf[p] : Load(p, does)
  <2>1. PICK does \in CommandOf[p] : Load(p, does)
    BY <1>4
  <2>2. does \in Kinds
    BY SetupAssumption
  <2>3. PICK env \in Environments : Holds(p, does, LoadConfig(env), FromFile)
    BY <2>1 DEF Load
  <2>4. LoadConfig(env) \in Fit({}, admitted)
    BY <1>0
  <2> QED
    BY <1>2, <1>3, <2>1, <2>2, <2>3, <2>4 DEF Load
<1>5. CASE OnboardLoads(p)
  <2>1. PICK reset \in BOOLEAN, env \in Environments :
            \E d \in OnboardChooseTarget(IF reset THEN DefaultConfig ELSE LoadConfig(env)) :
               Holds(p, "onboard", d, IF reset THEN "given up" ELSE FromFile)
    BY <1>5 DEF OnboardLoads
  <2>2. PICK d \in OnboardChooseTarget(IF reset THEN DefaultConfig ELSE LoadConfig(env)) :
            Holds(p, "onboard", d, IF reset THEN "given up" ELSE FromFile)
    BY <2>1
  <2>3. d \in Fit({}, admitted)
    <3> DEFINE from == IF reset THEN DefaultConfig ELSE LoadConfig(env)
    <3>1. from \in Fit({}, admitted)
      BY <1>0
    <3> HIDE DEF from
    <3>2. OnboardChooseTarget(from) \subseteq Fit({}, admitted)
      BY <3>1, TargetFits DEF OnboardChooseTarget
    <3> QED
      BY <2>2, <3>2 DEF from
  <2> QED
    BY <1>2, <1>3, <1>5, <2>2, <2>3 DEF OnboardLoads, Kinds
<1>6. CASE EditAndTruncate(p)
  <2>1. PICK d \in Edited(p) : cli' = [cli EXCEPT ![p].at = "truncated", ![p].draft = d]
    BY <1>6 DEF EditAndTruncate
  <2>2. admitted' = admitted /\ d \in Fit({}, admitted')
    BY <1>0, <1>6, EditFits DEF EditAndTruncate, historyVars
  <2> DEFINE c == [cli[p] EXCEPT !.at = "truncated", !.draft = d]
  <2>3. c \in Process /\ c.draft \in Fit({}, admitted') /\ cli' = [cli EXCEPT ![p] = c]
    BY <1>0, <2>1, <2>2 DEF Process, Fit
  <2>4. cli' \in [Commands -> Process] /\ \A q \in Commands : cli'[q].draft \in Fit({}, admitted')
    BY <1>0, <2>2, <2>3, ProcessFits
  <2>5. FileAndGatewayFit'
    BY <1>0, <1>6, <2>2, FileChangesGatewayStays DEF EditAndTruncate
  <2> QED
    BY <1>0, <1>6, <2>4, <2>5, InvParts DEF EditAndTruncate, historyVars
<1>13. CASE MigrateLoads(p)
  <2>0. PICK env \in Environments :
            \E d \in MigrateConfig(LoadConfig(env), configFile.state # "absent", Imported) :
               /\ Holds(p, "migrate", d,
                        IF TakesOverChannel(LoadConfig(env), d) THEN "given up" ELSE FromFile)
               /\ admitted' = admitted \cup d.allow
    BY <1>13 DEF MigrateLoads
  <2>1. PICK d \in MigrateConfig(LoadConfig(env), configFile.state # "absent", Imported) :
            /\ Holds(p, "migrate", d,
                     IF TakesOverChannel(LoadConfig(env), d) THEN "given up" ELSE FromFile)
            /\ admitted' = admitted \cup d.allow
    BY <2>0
  <2>2. d \in Fit({}, admitted')
    BY <1>0, <2>1, MigrationFits, SetupAssumption
  <2>3. admitted' \in SUBSET Users /\ admitted \subseteq admitted'
    BY <1>0, <2>1, <2>2 DEF Fit, Settings
  <2> DEFINE c == [does |-> "migrate", at |-> "loaded", draft |-> d, read |-> {}]
  <2>4. c \in Process /\ c.draft \in Fit({}, admitted') /\ cli' = [cli EXCEPT ![p] = c]
    BY <2>1, <2>2 DEF Process, Kinds, Fit, Holds
  <2>5. cli' \in [Commands -> Process] /\ \A q \in Commands : cli'[q].draft \in Fit({}, admitted')
    BY <2>3, <2>4, ProcessFits
  <2>6. FileAndGatewayFit'
    BY <1>0, <1>13, <2>3, FileAndGatewayStay DEF MigrateLoads, pairingVars
  <2>7. base' \in [Commands -> {"nothing", "current", "older", "given up"}]
    BY <1>0, <1>3, <2>1 DEF Holds
  <2> QED
    BY <1>0, <1>13, <2>3, <2>5, <2>6, <2>7, InvParts DEF MigrateLoads
<1>7. CASE GiveUp(p)
  <2>1. cli' \in [Commands -> Process] /\ \A q \in Commands : cli'[q].draft \in Fit({}, admitted')
    BY <1>0, <1>1, <1>7, ProcessFits DEF GiveUp
  <2>2. FileAndGatewayFit'
    BY <1>0, <1>7, FileAndGatewayStay DEF GiveUp, pairingVars
  <2> QED
    BY <1>0, <1>7, <2>1, <2>2, InvParts DEF GiveUp
<1>8. CASE ApproveReads(p)
  <2> DEFINE c == [cli[p] EXCEPT !.at = "approving", !.read = requests]
  <2>1. c \in Process /\ c.draft \in Fit({}, admitted) /\ cli' = [cli EXCEPT ![p] = c]
    BY <1>0, <1>8 DEF ApproveReads, Process
  <2>2. cli' \in [Commands -> Process] /\ \A q \in Commands : cli'[q].draft \in Fit({}, admitted')
    BY <1>0, <1>8, <2>1, ProcessFits DEF ApproveReads, historyVars
  <2>3. FileAndGatewayFit'
    BY <1>0, <1>8, FileAndGatewayStay DEF ApproveReads, pairingVars, historyVars
  <2> QED
    BY <1>0, <1>8, <2>2, <2>3, InvParts DEF ApproveReads, historyVars
<1>9. CASE Approve(p)
  <2>1. PICK r \in cli[p].read :
            /\ requests' = cli[p].read \ {r}
            /\ cli' = [cli EXCEPT ![p].at = "approved", ![p].draft.allow = @ \cup {r.user}, ![p].read = {}]
            /\ admitted' = admitted \cup {r.user}
    BY <1>9 DEF Approve
  <2>2. r \in Requests /\ r.user \in Users /\ requests' \in SUBSET Requests
    BY <1>0, <2>1 DEF Process, Requests
  <2>3. admitted' \in SUBSET Users /\ admitted \subseteq admitted'
    BY <1>0, <2>1, <2>2
  <2> DEFINE d == [cli[p].draft EXCEPT !.allow = @ \cup {r.user}]
             c == [cli[p] EXCEPT !.at = "approved", !.draft = d, !.read = {}]
  <2>4. d \in Fit({}, admitted')
    BY <1>0, <2>1, <2>2 DEF Fit, Settings
  <2>5. cli' = [cli EXCEPT ![p] = c]
    BY <1>0, <2>1 DEF Process
  <2>6. c \in Process /\ c.draft \in Fit({}, admitted')
    <3> HIDE DEF d
    <3> QED  BY <1>0, <2>4 DEF Process, Fit
  <2>7. cli' \in [Commands -> Process] /\ \A q \in Commands : cli'[q].draft \in Fit({}, admitted')
    <3> HIDE DEF c
    <3> QED  BY <2>3, <2>5, <2>6, ProcessFits
  <2>8. FileAndGatewayFit'
    BY <1>9, <2>2, <2>3, FileAndGatewayStay DEF Approve
  <2> QED
    BY <1>0, <1>9, <2>3, <2>7, <2>8, InvParts DEF Approve
<1>10. CASE SaveApproved(p)
  <2> DEFINE c == [cli[p] EXCEPT !.at = "truncated"]
  <2>1. c \in Process /\ c.draft \in Fit({}, admitted) /\ cli' = [cli EXCEPT ![p] = c]
    BY <1>0, <1>10 DEF SaveApproved, Process
  <2>2. cli' \in [Commands -> Process] /\ \A q \in Commands : cli'[q].draft \in Fit({}, admitted')
    BY <1>0, <1>10, <2>1, ProcessFits DEF SaveApproved, historyVars
  <2>3. FileAndGatewayFit'
    BY <1>0, <1>10, FileChangesGatewayStays DEF SaveApproved, historyVars
  <2> QED
    BY <1>0, <1>10, <2>2, <2>3, InvParts DEF SaveApproved, historyVars
<1>11. CASE Write(p)
  <2>1. cli' \in [Commands -> Process] /\ \A q \in Commands : cli'[q].draft \in Fit({}, admitted')
    BY <1>0, <1>1, <1>11, ProcessFits DEF Write
  <2>2. FileAndGatewayFit'
    BY <1>0, <1>11, FileChangesGatewayStays DEF Write
  <2>3. listed' \in SUBSET Users
    BY <1>0, <1>11 DEF Write, Fit, Settings
  <2>4. base' \in [Commands -> {"nothing", "current", "older", "given up"}]
    BY <1>0, <1>11 DEF Write
  <2> QED
    BY <1>0, <1>11, <2>1, <2>2, <2>3, <2>4, InvParts DEF Write
<1>12. CASE KilledSaving(p)
  <2>1. cli' \in [Commands -> Process] /\ \A q \in Commands : cli'[q].draft \in Fit({}, admitted')
    BY <1>0, <1>1, <1>12, ProcessFits DEF KilledSaving
  <2>2. FileAndGatewayFit'
    BY <1>0, <1>12, FileChangesGatewayStays DEF KilledSaving
  <2> QED
    BY <1>0, <1>12, <2>1, <2>2, InvParts DEF KilledSaving
<1> QED
  BY <1>4, <1>5, <1>6, <1>7, <1>8, <1>9, <1>10, <1>11, <1>12, <1>13 DEF CommandStep

(* A step of the gateway or an expiry keeps it: an empty list lets nobody  *)
(* in, since those it would let in are asked for a code instead.           *)
LEMMA GatewayKeepsInv ==
    ASSUME IInv, GatewayStep
    PROVE  IInv'
<1>0. /\ cli' \in [Commands -> Process]
      /\ \A q \in Commands : cli'[q].draft \in Fit({}, admitted')
      /\ base' \in [Commands -> {"nothing", "current", "older", "given up"}]
      /\ listed' \in SUBSET Users /\ admitted' \in SUBSET Users /\ admitted' = admitted
  BY DEF IInv, TypeOK, Fitting, Process, GatewayStep, historyVars
<1>1. /\ configFile \in ConfigFiles /\ configFile.holds \in Fit({}, admitted)
      /\ PairingTypeOK
      /\ gateway.allow \subseteq admitted /\ heard \subseteq admitted
      /\ \A env \in Environments : LoadConfig(env).allow \subseteq admitted
      /\ admitted \subseteq Users
  BY LoadedFits DEF IInv, TypeOK, Fitting, Fit
<1>2. ASSUME NEW at \in {"off", "poll"}, NEW a, a \subseteq admitted
      PROVE  /\ GatewayIs(at, a) \in [at : {"off", "poll", "create"}, user : Users \cup {NoUser},
                                      read : SUBSET Requests, allow : SUBSET Users]
             /\ GatewayIs(at, a).allow \subseteq admitted
             /\ GatewayIs(at, a).at # "create"
  BY <1>1, <1>2 DEF GatewayIs
<1>3. CASE GatewayStarts \/ GatewayStops
  <2>1. FileAndGatewayFit'
    <3>1. UNCHANGED <<configFile, requests, heard>>
      BY <1>3 DEF GatewayStarts, GatewayStops
    <3>2. \/ \E env \in Environments : gateway' = GatewayIs("poll", LoadConfig(env).allow)
          \/ gateway' = GatewayIs("off", {})
      BY <1>3 DEF GatewayStarts, GatewayStops
    <3>3. /\ gateway' \in [at : {"off", "poll", "create"}, user : Users \cup {NoUser},
                             read : SUBSET Requests, allow : SUBSET Users]
          /\ gateway'.allow \subseteq admitted
          /\ gateway'.at # "create"
      BY <1>1, <1>2, <3>2
    <3> QED
      BY <1>0, <1>1, <3>1, <3>3 DEF FileAndGatewayFit, PairingTypeOK
  <2> QED
    BY <1>0, <2>1, InvParts
<1>4. ASSUME NEW u \in Users, HandleTelegramMessage(u)
      PROVE  IInv'
  <2> DEFINE allow == SyncAllowList
  <2>1. allow \subseteq admitted
    BY <1>1 DEF SyncAllowList, Fit
  <2>2. CASE AsksForPairing(allow)
    <3>1. gateway' = [at |-> "create", user |-> u, read |-> requests, allow |-> allow]
          /\ UNCHANGED <<heard, configFile, requests>>
      BY <1>4, <2>2 DEF HandleTelegramMessage
    <3> HIDE DEF allow
    <3>2. FileAndGatewayFit'
      BY <1>0, <1>1, <2>1, <3>1 DEF FileAndGatewayFit, PairingTypeOK
    <3> QED
      BY <1>0, <3>2, InvParts
  <2>3. CASE ~AsksForPairing(allow)
    <3>1. /\ gateway' = [gateway EXCEPT !.allow = allow]
          /\ heard' = IF IsAllowed(u, allow) THEN heard \cup {u} ELSE heard
          /\ UNCHANGED <<configFile, requests>>
      BY <1>4, <2>3 DEF HandleTelegramMessage
    <3>2. allow # {}
      BY <2>3 DEF AsksForPairing
    <3> HIDE DEF allow
    <3>3. heard' \subseteq admitted
      BY <1>1, <2>1, <3>1, <3>2 DEF IsAllowed
    <3>4. FileAndGatewayFit'
      BY <1>0, <1>1, <2>1, <3>1, <3>3 DEF FileAndGatewayFit, PairingTypeOK
    <3> QED
      BY <1>0, <3>4, InvParts
  <2> QED
    BY <2>2, <2>3
<1>5. CASE CreateOrReuse
  <2>1. requests' \in SUBSET Requests
    <3>1. gateway.user \in Users \cup {NoUser} /\ gateway.read \in SUBSET Requests
      BY <1>1 DEF PairingTypeOK
    <3> QED
      BY <1>1, <1>5, <3>1 DEF CreateOrReuse, PairingTypeOK, Requests
  <2>2. FileAndGatewayFit'
    BY <1>0, <1>1, <1>2, <1>5, <2>1 DEF CreateOrReuse, FileAndGatewayFit, PairingTypeOK
  <2> QED
    BY <1>0, <2>2, InvParts
<1>6. CASE \E r \in requests : Expires(r)
  <2>1. FileAndGatewayFit'
    BY <1>0, <1>1, <1>6 DEF Expires, FileAndGatewayFit, PairingTypeOK
  <2> QED
    BY <1>0, <2>1, InvParts
<1> QED
  BY <1>3, <1>4, <1>5, <1>6 DEF GatewayStep

(* IInv is inductive.                                                      *)
LEMMA StepKeepsInv == IInv /\ [Next]_vars => IInv'
<1> SUFFICES ASSUME IInv, [Next]_vars PROVE IInv'
  OBVIOUS
<1>1. CASE Next
  BY <1>1, CommandKeepsInv, GatewayKeepsInv DEF Next
<1>2. CASE UNCHANGED vars
  BY <1>2 DEF vars, pairingVars, historyVars, IInv, TypeOK, Fitting, PairingTypeOK
<1> QED
  BY <1>1, <1>2

(* Whatever commands run at once, beside the gateway and each other, and   *)
(* wherever they are killed, all that they hold has its type.              *)
THEOREM TypeCorrect == Spec => []TypeOK
<1>1. IInv => TypeOK
  BY DEF IInv
<1> QED
  BY InitInv, StepKeepsInv, <1>1, PTL DEF Spec

(* The gateway hands the agent messages of those only that were listed at  *)
(* first, imported or approved: the strengthening is that no draft, file   *)
(* or list in memory names anybody else.                                   *)
THEOREM OnlyAdmittedAreHeard == Spec => []StrangersStayOut
<1>1. IInv => StrangersStayOut
  BY DEF IInv, Fitting, StrangersStayOut
<1> QED
  BY InitInv, StepKeepsInv, <1>1, PTL DEF Spec

(* No sequence of wizards, cancelled or killed at any point and run at     *)
(* once, leaves a file that enables the remote API without a key.          *)
THEOREM ApiAlwaysHasKey == Spec => []EnabledApiHasKey
<1>1. IInv => EnabledApiHasKey
  BY DEF IInv, Fitting, EnabledApiHasKey, Fit
<1> QED
  BY InitInv, StepKeepsInv, <1>1, PTL DEF Spec
-----------------------------------------------------------------------------
\* Whoever is on the list is in the file, and in every draft made from it.
ListInv ==
    /\ configFile.state = "whole" => listed = configFile.holds.allow
    /\ \A p \in Commands : base[p] = "current" => listed \subseteq cli[p].draft.allow

(* Nobody vanishes from a draft while it is edited.                        *)
LEMMA EditKeepsList ==
    ASSUME IInv, NEW p \in Commands, cli[p].does # "pairing", NEW d \in Edited(p)
    PROVE  cli[p].draft.allow \subseteq d.allow
<1> DEFINE those == cli[p].draft.allow
<1>1. cli[p].draft \in Fit(those, admitted)
  BY DEF IInv, Fitting, Fit
<1> HIDE DEF those
<1>2. d \in Fit(those, admitted)
  BY <1>1, EditFits
<1> QED
  BY <1>2 DEF Fit, those

(* Nor when it is made for a target.                                       *)
LEMMA TargetKeepsList ==
    ASSUME NEW d \in Settings, NEW e \in OnboardChooseTarget(d)
    PROVE  e.allow = d.allow
BY DEF OnboardChooseTarget, ApplySetupTargetDefaults, EnsureSetupAPIKey, Settings

(* Nor when settings are imported beside a file that is there, without     *)
(* taking over the channel.                                                *)
LEMMA MigrationKeepsList ==
    ASSUME NEW d \in Settings, NEW e \in MigrateConfig(d, TRUE, Imported),
           d.telegram \/ ~e.telegram
    PROVE  e.allow = d.allow
<1>1. PICK i \in ConvertConfig(Imported) : e \in MergeConfig(d, i)
  BY DEF MigrateConfig
<1>2. PICK k \in WithBrain(d, {d.brain, IF d.brain = "keyless" THEN "ready" ELSE d.brain}) :
          e = IF ~d.telegram /\ i.telegram
                THEN [k EXCEPT !.telegram = TRUE, !.allow = i.allow] ELSE k
  BY <1>1 DEF MergeConfig
<1>3. k \in Settings /\ k.allow = d.allow /\ k.telegram = d.telegram
  BY DEF WithBrain, Settings, Brains
<1>4. CASE ~d.telegram /\ i.telegram
  BY <1>2, <1>3, <1>4 DEF Settings
<1> QED
  BY <1>2, <1>3, <1>4

(* A process that takes a draft made from the current file, or from        *)
(* something else, leaves the lists in order.                              *)
LEMMA LoadKeepsList ==
    ASSUME IInv, ListInv, NEW p \in Commands, NEW does, NEW d, NEW from,
           Holds(p, does, d, from), UNCHANGED <<configFile, listed>>,
           from = "current" => listed \subseteq d.allow
    PROVE  ListInv'
<1>1. cli \in [Commands -> Process] /\ base \in [Commands -> {"nothing", "current", "older", "given up"}]
  BY DEF IInv, TypeOK, Process
<1>2. /\ cli'[p].draft = d /\ base'[p] = from
      /\ \A q \in Commands \ {p} : cli'[q] = cli[q] /\ base'[q] = base[q]
  BY <1>1 DEF Holds
<1> QED
  BY <1>2 DEF ListInv

(* ListInv is inductive: after a save no draft is of the newest file, and  *)
(* until one every draft of it holds the whole list.                       *)
LEMMA ListNext ==
    ASSUME IInv, ListInv, [Next]_vars
    PROVE  ListInv'
<1>0. /\ cli \in [Commands -> Process]
      /\ base \in [Commands -> {"nothing", "current", "older", "given up"}]
      /\ \A env \in Environments :
            LoadConfig(env) \in Settings /\ LoadConfig(env).allow = configFile.holds.allow
      /\ \A p \in Commands : cli[p].draft \in Settings
  BY LoadedFits DEF IInv, TypeOK, Fitting, Process, Fit
<1>1. CASE UNCHANGED <<configFile, listed, base, cli>>
  BY <1>1 DEF ListInv
<1>2. CASE GatewayStep
  <2>1. UNCHANGED <<configFile, listed, base, cli>>
    BY <1>2 DEF GatewayStep, GatewayStarts, GatewayStops, CreateOrReuse, HandleTelegramMessage,
                Expires, historyVars
  <2> QED
    BY <1>1, <2>1
<1>3. ASSUME NEW p \in Commands, CommandStep(p)
      PROVE  ListInv'
  <2>1. CASE \E does \in CommandOf[p] : Load(p, does)
    <3>1. PICK does \in CommandOf[p] : Load(p, does)
      BY <2>1
    <3>2. PICK env \in Environments : Holds(p, does, LoadConfig(env), FromFile)
      BY <3>1 DEF Load
    <3>3. FromFile = "current" => listed \subseteq LoadConfig(env).allow
      BY <1>0 DEF FromFile, ListInv
    <3> QED
      BY <3>1, <3>2, <3>3, LoadKeepsList DEF Load
  <2>2. CASE OnboardLoads(p)
    <3>1. PICK reset \in BOOLEAN, env \in Environments :
              \E d \in OnboardChooseTarget(IF reset THEN DefaultConfig ELSE LoadConfig(env)) :
                 Holds(p, "onboard", d, IF reset THEN "given up" ELSE FromFile)
      BY <2>2 DEF OnboardLoads
    <3>2. PICK d \in OnboardChooseTarget(IF reset THEN DefaultConfig ELSE LoadConfig(env)) :
              Holds(p, "onboard", d, IF reset THEN "given up" ELSE FromFile)
      BY <3>1
    <3> DEFINE from == IF reset THEN "given up" ELSE FromFile
    <3>3. ASSUME from = "current" PROVE listed \subseteq d.allow
      <4>1. ~reset /\ configFile.state = "whole"
        BY <3>3 DEF FromFile
      <4>2. d.allow = LoadConfig(env).allow
        BY <1>0, <3>2, <4>1, TargetKeepsList
      <4> QED
        BY <1>0, <4>1, <4>2 DEF ListInv
    <3>4. Holds(p, "onboard", d, from) /\ UNCHANGED <<configFile, listed>>
      BY <2>2, <3>2 DEF OnboardLoads
    <3> HIDE DEF from
    <3> QED
      BY <3>3, <3>4, LoadKeepsList
  <2>3. CASE MigrateLoads(p)
    <3>0. PICK env \in Environments :
              \E d \in MigrateConfig(LoadConfig(env), configFile.state # "absent", Imported) :
                 Holds(p, "migrate", d,
                       IF TakesOverChannel(LoadConfig(env), d) THEN "given up" ELSE FromFile)
      BY <2>3 DEF MigrateLoads
    <3>1. PICK d \in MigrateConfig(LoadConfig(env), configFile.state # "absent", Imported) :
              Holds(p, "migrate", d,
                    IF TakesOverChannel(LoadConfig(env), d) THEN "given up" ELSE FromFile)
      BY <3>0
    <3> DEFINE from == IF TakesOverChannel(LoadConfig(env), d) THEN "given up" ELSE FromFile
    <3>2. ASSUME from = "current" PROVE listed \subseteq d.allow
      <4>1. ~TakesOverChannel(LoadConfig(env), d) /\ configFile.state = "whole"
        BY <3>2 DEF FromFile
      <4>2. (configFile.state # "absent") = TRUE
        BY <4>1
      <4>3. d \in MigrateConfig(LoadConfig(env), TRUE, Imported)
        BY <3>1, <4>2
      <4>4. d.allow = LoadConfig(env).allow
        BY <1>0, <4>1, <4>3, MigrationKeepsList DEF TakesOverChannel
      <4> QED
        BY <1>0, <4>1, <4>4 DEF ListInv
    <3>3. Holds(p, "migrate", d, from) /\ UNCHANGED <<configFile, listed>>
      BY <2>3, <3>1 DEF MigrateLoads
    <3> HIDE DEF from
    <3> QED
      BY <3>2, <3>3, LoadKeepsList
  <2>4. CASE EditAndTruncate(p)
    <3>1. PICK d \in Edited(p) : cli' = [cli EXCEPT ![p].at = "truncated", ![p].draft = d]
      BY <2>4 DEF EditAndTruncate
    <3>2. cli[p].draft.allow \subseteq d.allow
      BY <2>4, EditKeepsList DEF EditAndTruncate
    <3>3. cli'[p].draft = d /\ \A q \in Commands \ {p} : cli'[q] = cli[q]
      BY <1>0, <3>1 DEF Process
    <3>4. configFile'.state = "empty" /\ base' = base /\ listed' = listed
      BY <2>4 DEF EditAndTruncate, TruncateConfig, Without, historyVars
    <3> QED
      BY <3>2, <3>3, <3>4 DEF ListInv
  <2>5. CASE GiveUp(p)
    <3>1. base'[p] = "nothing" /\ \A q \in Commands \ {p} : cli'[q] = cli[q] /\ base'[q] = base[q]
      BY <1>0, <2>5 DEF GiveUp
    <3> QED
      BY <2>5, <3>1 DEF GiveUp, ListInv
  <2>6. CASE ApproveReads(p)
    <3>1. \A q \in Commands : cli'[q].draft = cli[q].draft
      BY <1>0, <2>6 DEF ApproveReads, Process
    <3> QED
      BY <2>6, <3>1 DEF ApproveReads, ListInv, historyVars
  <2>7. CASE Approve(p)
    <3>1. PICK r \in cli[p].read :
              cli' = [cli EXCEPT ![p].at = "approved", ![p].draft.allow = @ \cup {r.user}, ![p].read = {}]
      BY <2>7 DEF Approve
    <3> DEFINE d == [cli[p].draft EXCEPT !.allow = @ \cup {r.user}]
               c == [cli[p] EXCEPT !.at = "approved", !.draft = d, !.read = {}]
    <3>2. cli \in [Commands -> Process] /\ cli[p] \in Process /\ cli[p].draft \in Settings
      BY <1>0
    <3>3. cli[p].draft.allow \subseteq d.allow
      BY <3>2 DEF Settings
    <3>4. cli' = [cli EXCEPT ![p] = c]
      BY <3>1, <3>2 DEF Process
    <3>5. c.draft = d
      <4> HIDE DEF d
      <4> QED  BY <3>2 DEF Process
    <3> HIDE DEF c, d
    <3>6. cli[p].draft.allow \subseteq cli'[p].draft.allow /\ \A q \in Commands \ {p} : cli'[q] = cli[q]
      BY <3>2, <3>3, <3>4, <3>5
    <3> QED
      BY <2>7, <3>6 DEF Approve, ListInv
  <2>8. CASE SaveApproved(p)
    <3>1. \A q \in Commands : cli'[q].draft = cli[q].draft
      BY <1>0, <2>8 DEF SaveApproved, Process
    <3>2. configFile'.state = "empty" /\ base' = base /\ listed' = listed
      BY <2>8 DEF SaveApproved, TruncateConfig, Without, historyVars
    <3> QED
      BY <3>1, <3>2 DEF ListInv
  <2>9. CASE Write(p)
    <3>1. \A q \in Commands : base'[q] # "current"
      BY <2>9 DEF Write
    <3>2. configFile'.state = "whole" => configFile'.holds = cli[p].draft
      BY <2>9 DEF Write, WriteConfig, Whole, Without
    <3>3. configFile'.state = "whole" => listed' = cli[p].draft.allow
      BY <2>9 DEF Write
    <3> QED
      BY <3>1, <3>2, <3>3 DEF ListInv
  <2>10. CASE KilledSaving(p)
    <3>1. base'[p] = "nothing" /\ \A q \in Commands \ {p} : cli'[q] = cli[q] /\ base'[q] = base[q]
      BY <1>0, <2>10 DEF KilledSaving
    <3>2. listed' = listed /\ (configFile' = configFile \/ configFile'.state # "whole")
      BY <2>10 DEF KilledSaving, WriteInterrupted, Without
    <3> QED
      BY <3>1, <3>2 DEF ListInv
  <2> QED
    BY <1>3, <2>1, <2>2, <2>3, <2>4, <2>5, <2>6, <2>7, <2>8, <2>9, <2>10 DEF CommandStep
<1> QED
  BY <1>1, <1>2, <1>3 DEF Next, vars, historyVars

(* Only a save changes the list, and it loses nobody if its draft was made *)
(* from the newest file.                                                   *)
LEMMA ListShrinksForAReason ==
    ASSUME ListInv, [Next]_vars
    PROVE  listed \subseteq listed'
             \/ \E p \in Commands : cli[p].at = "truncated" /\ base[p] # "current"
<1>1. ASSUME NEW p \in Commands, Write(p)
      PROVE  listed \subseteq listed' \/ (cli[p].at = "truncated" /\ base[p] # "current")
  BY <1>1 DEF Write, ListInv
<1>2. ASSUME NEW p \in Commands, CommandStep(p), ~Write(p)
      PROVE  listed' = listed
  BY <1>2 DEF CommandStep, Load, OnboardLoads, MigrateLoads, EditAndTruncate, GiveUp, ApproveReads,
              Approve, SaveApproved, KilledSaving, historyVars
<1>3. GatewayStep \/ UNCHANGED vars => listed' = listed
  BY DEF GatewayStep, vars, historyVars
<1> QED
  BY <1>1, <1>2, <1>3 DEF Next

(* However many commands run at once and wherever they are killed, no      *)
(* section of a wizard loses somebody who was let in: an entry vanishes    *)
(* when the operator starts afresh or takes the channel over, or with a    *)
(* save that was not made from the newest file.                            *)
THEOREM NobodyVanishesByAnEdit == Spec => EntriesVanishForAReason
<1>1. Init => ListInv
  BY DEF Init, ListInv
<1>2. IInv /\ ListInv /\ [Next]_vars => ListInv'
  BY ListNext
<1>3. ListInv /\ [Next]_vars =>
          [listed \subseteq listed'
             \/ \E p \in Commands : cli[p].at = "truncated" /\ base[p] # "current"]_vars
  BY ListShrinksForAReason
<1> QED
  BY InitInv, StepKeepsInv, <1>1, <1>2, <1>3, PTL DEF Spec, EntriesVanishForAReason
=============================================================================
