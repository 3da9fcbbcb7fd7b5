----------------------------- MODULE TelegramPairing -----------------------------
(***************************************************************************)
(* pkg/pairing/telegram.go and the part of pkg/channels/telegram.go that   *)
(* lets users in: the file of pending requests, which the gateway adds to  *)
(* and the command line takes from, each reading it, then replacing it     *)
(* whole; and the gateway's allow-list, taken from config.json before      *)
(* every message.  Requests that have expired are as good as gone.         *)
(***************************************************************************)
EXTENDS ConfigFile

CONSTANTS
    Codes,          \* the one-time codes: a million in the code
    NoUser

VARIABLES
    requests,       \* telegram_pairings.json
    gateway,        \* handleMessage: where it is, for whom, what it has read; the allow-list
    heard           \* the users whose messages have been handed to the agent

pairingVars == <<requests, gateway, heard>>

Requests == [code : Codes, user : Users]

GatewayIs(at, allow) == [at |-> at, user |-> NoUser, read |-> {}, allow |-> allow]

PairingInit ==
    /\ requests = {}
    /\ gateway = GatewayIs("off", {})
    /\ heard = {}

PairingTypeOK ==
    /\ requests \subseteq Requests
    /\ gateway \in [at : {"off", "poll", "create"}, user : Users \cup {NoUser},
                   read : SUBSET Requests, allow : SUBSET Users]
    /\ gateway.at = "create" => gateway.user \in Users
    /\ heard \subseteq Users

\* gatewayCmd: the settings it starts with must pass; without Telegram there is no bot.
GatewayStarts ==
    /\ gateway.at = "off"
    /\ ~Unreadable
    /\ \E env \in Environments :
          /\ LoadConfig(env).telegram
          /\ GatewayProviderReady(LoadConfig(env)) /\ ValidateGatewaySecurity(LoadConfig(env))
          /\ gateway' = GatewayIs("poll", LoadConfig(env).allow)
    /\ UNCHANGED <<configFile, requests, heard>>

GatewayStops ==
    /\ gateway.at # "off"
    /\ gateway' = GatewayIs("off", {})
    /\ UNCHANGED <<configFile, requests, heard>>

\* syncAllowListFromConfig: an error keeps the list there was.
SyncAllowList == IF Unreadable THEN gateway.allow ELSE configFile.holds.allow

IsAllowed(user, allow) == allow = {} \/ user \in allow

\* A mutated form: the empty allow-list is left to IsAllowed.
AsksForPairingNever(allow) == FALSE

\* ~hasAuthorizedUsers: then IsAllowed, for which an empty list allows all, is not asked.
AsksForPairing(allow) == allow = {}

\* A message other than a command, up to CreateOrReuse's reading of the requests.
HandleTelegramMessage(user) ==
    /\ gateway.at = "poll"
    /\ LET allow == SyncAllowList
       IN  IF AsksForPairing(allow)
             THEN /\ gateway' = [at |-> "create", user |-> user, read |-> requests, allow |-> allow]
                  /\ UNCHANGED heard
             ELSE /\ gateway' = [gateway EXCEPT !.allow = allow]
                  /\ heard' = IF IsAllowed(user, allow) THEN heard \cup {user} ELSE heard
    /\ UNCHANGED <<configFile, requests>>

CodesOf(rs) == {r.code : r \in rs}

\* The user's request is shown again, or a new one made with a code that is not in use.
CreateOrReuse ==
    /\ gateway.at = "create"
    /\ IF gateway.user \in {r.user : r \in gateway.read}
         THEN UNCHANGED requests
         ELSE \/ \E c \in Codes \ CodesOf(gateway.read) :
                    requests' = gateway.read \cup {[code |-> c, user |-> gateway.user]}
              \/ Codes \subseteq CodesOf(gateway.read) /\ UNCHANGED requests
    /\ gateway' = GatewayIs("poll", gateway.allow)
    /\ UNCHANGED <<configFile, heard>>

Expires(r) ==
    /\ r \in requests
    /\ requests' = requests \ {r}
    /\ UNCHANGED <<configFile, gateway, heard>>
=============================================================================
