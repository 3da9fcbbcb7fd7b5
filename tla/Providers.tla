------------------------------- MODULE Providers -------------------------------
(***************************************************************************)
(* pkg/providers: what a provider makes of a request and of a failure.     *)
(* The agent loop reads failures by the words in their text, so a failure  *)
(* is the set of words, among those it looks for, that the provider's      *)
(* wording holds.  A request is the sequence of items that goes out on the *)
(* wire for the messages of a turn.                                        *)
(***************************************************************************)
EXTENDS Integers, Sequences, SequencesExt

HTTPKinds == {"http", "azure", "vertex", "bedrock"}
SDKKinds == {"codex", "claude"}         \* vendors' SDKs, with a token source
CLIKinds == {"claudeCli", "codexCli", "worker"}
AllKinds == HTTPKinds \cup SDKKinds \cup CLIKinds \cup {"copilot"}

Statuses == {"400", "401", "403", "404", "429", "503"}
Failures == Statuses \cup {"timeout", "cancelled", "credentials", "garbled"}

\* What the service itself says in the body: a 401 of Google's and a 429 of OpenAI's
\* speak of tokens, a 400 of a context that is too long or of tools it does not know.
VendorWords(failure) ==
    CASE failure = "400" -> {{}, {"context", "length", "token"}, {"no tools"}}
      [] failure \in {"401", "403", "429"} -> {{}, {"token"}}
      [] OTHER -> {{}}

\* What http.StatusText and the code itself add to an SDK's text.
StatusWords(status) ==
    {status} \cup CASE status = "401" -> {"unauthorized"}
                    [] status = "403" -> {"forbidden"}
                    [] status = "429" -> {"too many requests"}
                    [] status = "503" -> {"service unavailable"}
                    [] OTHER -> {}

\* The errors of the HTTP client: "context deadline exceeded (Client.Timeout ...)", "i/o
\* timeout", "context canceled".
ClientErrors(failure) ==
    CASE failure = "timeout" -> {{"context", "timeout"}, {"timeout"}}
      [] failure = "cancelled" -> {{"context"}}
      [] OTHER -> {{}}

\* Of a body with the vendor's message in it; some statuses have a text of their own,
\* without the code, and a rejected key's message is left out.
FormatAPIError(status, vendor) ==
    CASE status = "401" -> {}
      [] status \in {"403", "404"} -> vendor
      [] status = "429" -> vendor \cup {"rate limit", "quota"}
      [] OTHER -> vendor \cup {status}

ParseAzureError(status, vendor) ==
    CASE status \in {"401", "404"} -> vendor
      [] status = "429" -> vendor \cup {"rate limit", "quota"}
      [] OTHER -> vendor \cup {status}

ParseVertexError(status, vendor) ==
    CASE status \in {"401", "403", "404"} -> vendor
      [] status = "429" -> vendor \cup {"quota"}
      [] OTHER -> vendor \cup {status}

ParseBedrockError(status, vendor) ==
    CASE status \in {"400", "401", "403", "404"} -> vendor
      [] status = "429" -> vendor \cup {"quota"}
      [] OTHER -> vendor \cup {status}

\* What each provider's Chat may return for a failure; a body without a message in it is
\* quoted with its code, but by Bedrock's.
HTTPChatFails(failure) ==
    IF failure \notin Statuses THEN ClientErrors(failure)
    ELSE {FormatAPIError(failure, v) : v \in VendorWords(failure)} \cup {{failure}}

AzureChatFails(failure) ==
    IF failure \notin Statuses THEN ClientErrors(failure)
    ELSE {ParseAzureError(failure, v) : v \in VendorWords(failure)} \cup {{failure}}

\* "gcloud auth print-access-token: ..."
VertexChatFails(failure) ==
    CASE failure \in Statuses ->
             {ParseVertexError(failure, v) : v \in VendorWords(failure)} \cup {{failure}}
      [] failure = "credentials" -> {{"token"}}
      [] OTHER -> ClientErrors(failure)

BedrockChatFails(failure) ==
    IF failure \notin Statuses THEN ClientErrors(failure)
    ELSE {ParseBedrockError(failure, v) : v \in VendorWords(failure)}

\* "refreshing token: ...", whatever the token source has run into.
CodexChatFails(failure) ==
    CASE failure \in Statuses -> {StatusWords(failure) \cup v : v \in VendorWords(failure)}
      [] failure = "credentials" -> {{"token"}}
      [] OTHER -> ClientErrors(failure)

ClaudeChatFails(failure) ==
    CASE failure \in Statuses -> {StatusWords(failure) \cup v : v \in VendorWords(failure)}
      [] failure = "credentials" -> {{"token"}}
      [] OTHER -> ClientErrors(failure)

\* A command writes its own words or the service's; one that is killed leaves "signal:
\* killed", and one that was never started the context's error.
CommandFails(failure) ==
    CASE failure \in Statuses ->
             VendorWords(failure) \cup {StatusWords(failure) \cup v : v \in VendorWords(failure)}
      [] failure \in {"timeout", "cancelled"} -> {{}, {"context"}}
      [] OTHER -> {{}}

CodexCliChatFails(failure) ==
    IF failure = "cancelled" THEN {{"context"}} ELSE CommandFails(failure)

ErrorTexts(kind, failure) ==
    CASE kind = "http" -> HTTPChatFails(failure)
      [] kind = "azure" -> AzureChatFails(failure)
      [] kind = "vertex" -> VertexChatFails(failure)
      [] kind = "bedrock" -> BedrockChatFails(failure)
      [] kind = "codex" -> CodexChatFails(failure)
      [] kind = "claude" -> ClaudeChatFails(failure)
      [] kind = "codexCli" -> CodexCliChatFails(failure)
      [] OTHER -> CommandFails(failure)

\* The Copilot SDK's session and the autonomous workers are sent the last text of the user
\* and return a text.
MayCallTools(kind) == kind \notin {"copilot", "worker"}
-----------------------------------------------------------------------------
(* Messages of a turn: [role, calls, id], a result's id being its call's.   *)

NoName == ""
NoId == <<"", "", 0, 0>>
ServiceId(round, i) == <<"own", "", round, i>>
NamedId(prefix, name) == <<prefix, name, 0, 0>>

\* Where the identity of a call may be from.  Services give each call its own; Gemini's have
\* none, and parseVertexResponse makes one of the name; what a command's model has written
\* is taken as it is: none, the "call_xxx" of the prompt's template again, or one of its own.
Identities(kind) ==
    CASE kind = "vertex" -> {"name"}
      [] kind \in {"claudeCli", "codexCli"} -> {"none", "template", "own"}
      [] OTHER -> {"own"}

CallId(identity, round, i, name) ==
    CASE identity = "name" -> NamedId("call_", name)
      [] identity = "none" -> NoId
      [] identity = "template" -> NamedId("call_xxx", NoName)
      [] identity = "own" -> ServiceId(round, i)

\* The i-th call of an answer.  The loop keeps the name under Function only.
ParsedCall(identity, round, i, name) ==
    [id |-> CallId(identity, round, i, name), name |-> NoName, function |-> name]

Text(role) == [role |-> role, calls |-> << >>, id |-> NoId]
CallsMessage(calls) == [role |-> "assistant", calls |-> calls, id |-> NoId]
ResultMessage(id) == [role |-> "tool", calls |-> << >>, id |-> id]

HasCalls(m) == m.role = "assistant" /\ m.calls # << >>
-----------------------------------------------------------------------------
(* What a message becomes in a request's messages, contents or input items. *)

TextItem(role) == [type |-> "text", role |-> role]
CallItem(id, name) == [type |-> "call", id |-> id, name |-> name]
ResultItem(id) == [type |-> "result", id |-> id]

\* A mutated form: results have a role the conversion does not know.
OpenAIItemsWithoutResults(m) ==
    CASE HasCalls(m) -> [i \in DOMAIN m.calls |-> CallItem(m.calls[i].id, m.calls[i].function)]
      [] m.role = "tool" -> << >>
      [] OTHER -> <<TextItem(m.role)>>

\* The OpenAI formats take the messages as they are.
OpenAIItems(m) ==
    CASE HasCalls(m) -> [i \in DOMAIN m.calls |-> CallItem(m.calls[i].id, m.calls[i].function)]
      [] m.role = "tool" -> <<ResultItem(m.id)>>
      [] OTHER -> <<TextItem(m.role)>>

BedrockItems(m) == OpenAIItems(m)

ResolveCodexToolCall(c) == IF c.name # NoName THEN c.name ELSE c.function

\* A call without a name is skipped.
CodexItems(m) ==
    IF HasCalls(m)
    THEN FlattenSeq([i \in DOMAIN m.calls |->
             LET name == ResolveCodexToolCall(m.calls[i])
             IN  IF name # NoName THEN <<CallItem(m.calls[i].id, name)>> ELSE << >>])
    ELSE OpenAIItems(m)

\* buildClaudeParams reads the field Name alone.
ClaudeItems(m) ==
    IF HasCalls(m) THEN [i \in DOMAIN m.calls |-> CallItem(m.calls[i].id, m.calls[i].name)]
    ELSE OpenAIItems(m)

\* A call goes out under its name, a result under its call's identity.
VertexItems(m) ==
    IF HasCalls(m)
    THEN [i \in DOMAIN m.calls |-> CallItem(NamedId("", m.calls[i].function), m.calls[i].function)]
    ELSE OpenAIItems(m)

Items(kind, m) ==
    CASE kind \in {"http", "azure"} -> OpenAIItems(m)
      [] kind = "bedrock" -> BedrockItems(m)
      [] kind = "codex" -> CodexItems(m)
      [] kind = "claude" -> ClaudeItems(m)
      [] kind = "vertex" -> VertexItems(m)

Request(kind, messages) ==
    FlattenSeq([p \in DOMAIN messages |-> Items(kind, messages[p])])

\* The CLIs and Copilot are sent one text, and an assistant's calls are not in it.
StructuredKinds == HTTPKinds \cup SDKKinds
=============================================================================
