------------------------------ MODULE Credentials ------------------------------
(***************************************************************************)
(* pkg/auth: the credentials of the model providers, kept encrypted in     *)
(* auth.json.  The gateway creates its Codex provider with one, and its    *)
(* turns read them again, refresh OpenAI's token when it is about to       *)
(* expire, and send it; `v1claw auth` logs in and out from other           *)
(* processes.  storeMu orders the goroutines of one process only; every    *)
(* process replaces the file through the same temporary file.  A           *)
(* credential that the reader's master key does not open is left out of    *)
(* what it reads, and so of what it writes.                                *)
(***************************************************************************)
EXTENDS Naturals, FiniteSets, TLC

CONSTANTS
    Turns,          \* the gateway's turns that need OpenAI's token
    Commands,       \* runs of `v1claw auth`
    Accounts,       \* of those who log in to OpenAI
    MasterKeys,     \* V1CLAW_AUTH_MASTER_KEY; the gateway's is GatewayKey
    GatewayKey,
    NoStore

ASSUME KeyAssumption == GatewayKey \in MasterKeys

ASSUME UsersAssumption == Turns \cap Commands = {}

Providers == {"openai", "anthropic"}

VARIABLES
    authFile,       \* auth.json: provider -> credential, NoStore when there is none
    authTemp,       \* auth.json.tmp
    authMethod,     \* providers.*.auth_method in the configuration
    accountID,      \* the provider's own account, NoStore before it is created
    user            \* what each turn and each command does

authVars == <<authFile, authTemp, authMethod, accountID, user>>

Begun == [at |-> "begun"]
Done == [at |-> "done"]

AuthInit ==
    /\ authFile = NoStore
    /\ authTemp = NoStore
    /\ authMethod = [p \in Providers |-> "none"]
    /\ accountID = NoStore
    /\ user = [u \in Turns \cup Commands |-> Begun]

Stored(store) == IF store = NoStore THEN <<>> ELSE store

\* loadStoreLocked
Readable(key) ==
    LET all == Stored(authFile)
    IN [p \in {q \in DOMAIN all : all[q].key = key} |-> all[p]]

(***************************************************************************)
(* SetCredential and DeleteCredential, of a turn or a command: load,       *)
(* change, write the temporary file, rename.                               *)
(***************************************************************************)
KeyOf(u) == IF u \in Turns THEN GatewayKey ELSE user[u].key

\* storeMu, in the gateway.
StoreMuFree(u) ==
    u \in Turns => \A t \in Turns : user[t].at \notin {"loaded", "written"}

With(store, p, cred) == [q \in DOMAIN store \cup {p} |-> IF q = p THEN cred ELSE store[q]]
Without(store, p) == [q \in DOMAIN store \ {p} |-> store[q]]

LoadStore(u) ==
    /\ user[u].at \in {"setting", "deleting"}
    /\ StoreMuFree(u)
    /\ user' = [user EXCEPT ![u] =
          [at |-> "loaded", does |-> user[u].does, provider |-> user[u].provider,
           draft |-> IF user[u].at = "setting"
                     THEN With(Readable(KeyOf(u)), user[u].provider, user[u].cred)
                     ELSE Without(Readable(KeyOf(u)), user[u].provider)]]
    /\ UNCHANGED <<authFile, authTemp, authMethod, accountID>>

WriteStore(u) ==
    /\ user[u].at = "loaded"
    /\ authTemp' = user[u].draft
    /\ user' = [user EXCEPT ![u].at = "written"]
    /\ UNCHANGED <<authFile, authMethod, accountID>>

\* CodexProvider.Chat: a token without an account goes out with the provider's own.
Request(cred) ==
    [at |-> "sent", owner |-> cred.owner,
     account |-> IF cred.account # "none" THEN cred.account ELSE accountID]

\* It is what lies there that is renamed; another process may have done so already.
RenameStore(u) ==
    /\ user[u].at = "written"
    /\ authFile' = IF authTemp # NoStore THEN authTemp ELSE authFile
    /\ authTemp' = NoStore
    /\ user' = [user EXCEPT ![u] =
                   IF authTemp = NoStore THEN Done
                   ELSE IF u \in Turns THEN Request(user[u].draft["openai"])
                   ELSE [at |-> "saved", does |-> user[u].does, provider |-> user[u].provider]]
    /\ UNCHANGED <<authMethod, accountID>>

StoreFails(u) ==
    /\ user[u].at \in {"loaded", "written"}
    /\ authTemp' \in IF user[u].at = "written" THEN {NoStore} ELSE {authTemp}
    /\ user' = [user EXCEPT ![u] = Done]
    /\ UNCHANGED <<authFile, authMethod, accountID>>

(***************************************************************************)
(* The gateway: createCodexAuthProvider when it starts, and then           *)
(* createCodexTokenSource in every turn.                                   *)
(***************************************************************************)
Mine == Readable(GatewayKey)

CreateCodexAuthProvider ==
    /\ accountID = NoStore
    /\ authMethod["openai"] = "oauth"
    /\ "openai" \in DOMAIN Mine
    /\ accountID' = Mine["openai"].account
    /\ UNCHANGED <<authFile, authTemp, authMethod, user>>

\* No credential, and the turn fails; or one that is still good.
UseToken(t) ==
    /\ accountID # NoStore
    /\ user[t] = Begun
    /\ StoreMuFree(t)
    /\ user' = [user EXCEPT ![t] =
                   IF "openai" \in DOMAIN Mine THEN Request(Mine["openai"]) ELSE Done]
    /\ UNCHANGED <<authFile, authTemp, authMethod, accountID>>

NeedsRefresh(t) ==
    /\ accountID # NoStore
    /\ user[t] = Begun
    /\ StoreMuFree(t)
    /\ "openai" \in DOMAIN Mine
    /\ Mine["openai"].oauth
    /\ user' = [user EXCEPT ![t] = [at |-> "refreshing", cred |-> Mine["openai"]]]
    /\ UNCHANGED <<authFile, authTemp, authMethod, accountID>>

\* A mutated form: the account is that of the credential now stored.
KnownAccountOfStore(cred) ==
    IF "openai" \in DOMAIN Mine THEN Mine["openai"].account ELSE cred.account

\* What an answer without an account falls back to.
KnownAccount(cred) == cred.account

RefreshAccessToken(t) ==
    /\ user[t].at = "refreshing"
    /\ \E account \in {user[t].cred.owner, KnownAccount(user[t].cred)} :
          user' = [user EXCEPT ![t] =
              [at |-> "setting", does |-> "refresh", provider |-> "openai",
               cred |-> [user[t].cred EXCEPT !.account = account, !.key = GatewayKey]]]
    /\ UNCHANGED <<authFile, authTemp, authMethod, accountID>>

RefreshFails(t) ==
    /\ user[t].at = "refreshing"
    /\ user' = [user EXCEPT ![t] = Done]
    /\ UNCHANGED <<authFile, authTemp, authMethod, accountID>>

(***************************************************************************)
(* v1claw auth login and logout.                                           *)
(***************************************************************************)
Login(c) ==
    /\ user[c] = Begun
    /\ \E way \in {"browser", "device", "paste"}, key \in MasterKeys :
          user' = [user EXCEPT ![c] = [at |-> "authorizing", does |-> "login", way |-> way, key |-> key]]
    /\ UNCHANGED <<authFile, authTemp, authMethod, accountID>>

Granted(c, p, cred) ==
    user' = [user EXCEPT ![c] =
                [at |-> "setting", does |-> "login", provider |-> p, cred |-> cred, key |-> user[c].key]]

\* LoginBrowser's callback and LoginDeviceCode's poll end in the exchange of a
\* code for tokens, whose answer may lack the account.
LoginGranted(c) ==
    /\ user[c].at = "authorizing"
    /\ user[c].way \in {"browser", "device"}
    /\ \E owner \in Accounts : \E account \in {owner, "none"} :
          Granted(c, "openai", [owner |-> owner, account |-> account, oauth |-> TRUE, key |-> user[c].key])
    /\ UNCHANGED <<authFile, authTemp, authMethod, accountID>>

LoginPasteToken(c) ==
    /\ user[c].at = "authorizing"
    /\ user[c].way = "paste"
    /\ Granted(c, "anthropic", [owner |-> "pasted", account |-> "none", oauth |-> FALSE, key |-> user[c].key])
    /\ UNCHANGED <<authFile, authTemp, authMethod, accountID>>

\* A wrong state, no code, a refused exchange, the five or fifteen minutes over,
\* no input.
LoginFails(c) ==
    /\ user[c].at = "authorizing"
    /\ user' = [user EXCEPT ![c] = Done]
    /\ UNCHANGED <<authFile, authTemp, authMethod, accountID>>

Logout(c) ==
    /\ user[c] = Begun
    /\ \E p \in Providers, key \in MasterKeys :
          user' = [user EXCEPT ![c] = [at |-> "deleting", does |-> "logout", provider |-> p, key |-> key]]
    /\ UNCHANGED <<authFile, authTemp, authMethod, accountID>>

LogoutAll(c) ==
    /\ user[c] = Begun
    /\ authFile' = NoStore
    /\ user' = [user EXCEPT ![c] = [at |-> "saved", does |-> "logout", provider |-> "all"]]
    /\ UNCHANGED <<authTemp, authMethod, accountID>>

\* The configuration follows, when it can be loaded.
UpdateConfig(c) ==
    /\ user[c].at = "saved"
    /\ \/ authMethod' = [p \in Providers |->
              IF user[c].provider \notin {p, "all"} THEN authMethod[p]
              ELSE IF user[c].does = "logout" THEN "none"
              ELSE IF p = "openai" THEN "oauth" ELSE "token"]
       \/ UNCHANGED authMethod
    /\ user' = [user EXCEPT ![c] = Done]
    /\ UNCHANGED <<authFile, authTemp, accountID>>

\* A command is killed.
Killed(c) ==
    /\ user[c] \notin {Begun, Done}
    /\ user' = [user EXCEPT ![c] = Done]
    /\ UNCHANGED <<authFile, authTemp, authMethod, accountID>>
-----------------------------------------------------------------------------
AuthStep ==
    \/ CreateCodexAuthProvider
    \/ \E u \in Turns \cup Commands :
          LoadStore(u) \/ WriteStore(u) \/ RenameStore(u) \/ StoreFails(u)
    \/ \E t \in Turns :
          UseToken(t) \/ NeedsRefresh(t) \/ RefreshAccessToken(t) \/ RefreshFails(t)
    \/ \E c \in Commands :
          \/ Login(c) \/ LoginGranted(c) \/ LoginPasteToken(c) \/ LoginFails(c)
          \/ Logout(c) \/ LogoutAll(c) \/ UpdateConfig(c) \/ Killed(c)
-----------------------------------------------------------------------------
(***************************************************************************)
(* A stored token is with the account of its owner, or with none, whoever  *)
(* logs in as somebody else while a turn waits for the answer to its       *)
(* refresh.  What a turn sends names the token's own account, none, or     *)
(* that of the credential the provider was created with: never that of a   *)
(* third.                                                                  *)
(***************************************************************************)
AccountGoesWithToken ==
    /\ \A p \in DOMAIN Stored(authFile) : authFile[p].account \in {authFile[p].owner, "none"}
    /\ \A t \in Turns : user[t].at = "sent" =>
          user[t].account \in {user[t].owner, "none", accountID}

(***************************************************************************)
(* A token is sent with its own account or none.  It is not: after a login *)
(* as somebody else whose answer lacks the account, the running gateway    *)
(* sends the new token with the account it was started with.               *)
(***************************************************************************)
AccountSentWithToken ==
    \A t \in Turns : user[t].at = "sent" => user[t].account \in {user[t].owner, "none"}

(***************************************************************************)
(* "logout      Remove stored credentials" (main.go:2240): after a logout  *)
(* only a login stores a credential again.  A refresh under way does too.  *)
(***************************************************************************)
OnlyLoginsBringCredentials ==
    [][DOMAIN Stored(authFile') \subseteq DOMAIN Stored(authFile)
       \/ \E c \in Commands : user[c].at = "written" /\ user[c].does = "login"]_authVars
=============================================================================
