----------------------------- MODULE DeviceClient -----------------------------
(***************************************************************************)
(* `v1claw client` (cmd/v1claw/main.go): a device that connects to the     *)
(* gateway, registers what it offers, asks the user's questions one after  *)
(* the other and serves capability requests meanwhile.  One goroutine      *)
(* reads the connection; a question waits 120 seconds for the next answer  *)
(* that comes through a channel, whichever question that one is for.       *)
(***************************************************************************)
EXTENDS Naturals, Sequences, FiniteSets

CONSTANTS
    Questions,      \* what the user asks, numbered; one when run with --message
    Requests,       \* the capability requests of the gateway: what each asks for
    AnswerSize      \* responseCh: 16 in the code

VARIABLES
    device,         \* [platform, tools], what there is on the device
    client,         \* the main goroutine: where it is, and the question it is at
    conn,           \* "none", "open" or "closed"
    inbox,          \* the frames on their way from the gateway
    pump,           \* clientReadPump: whether it runs, and the answer it is handing over
    answers,        \* responseCh
    asked,          \* the questions whose answer the gateway still works on
    requests,       \* the state of each capability request
    shown           \* the answer that was shown for each question, 0 for a timeout

clientVars == <<device, client, conn, inbox, pump, answers, asked, requests, shown>>

Offered == {"camera", "microphone", "screen"}

ClientInit ==
    /\ device \in [platform : {"termux", "linux"}, tools : SUBSET {"camera", "microphone"}]
    /\ client = [at |-> "dialing", question |-> 0, registered |-> FALSE]
    /\ conn = "none"
    /\ inbox = <<>>
    /\ pump = [on |-> FALSE, holds |-> 0]
    /\ answers = <<>>
    /\ asked = {}
    /\ requests = [r \in DOMAIN Requests |-> "none"]
    /\ shown = <<>>

\* What the device says it offers: elsewhere than on Termux ffmpeg or arecord.
DetectCapabilities(d) == d.tools

\* Whether it can serve a request.
ExecuteLocalCapability(d, capability) ==
    IF d.platform = "termux" /\ capability \in Offered /\ capability \in d.tools
    THEN {"served", "failed"} ELSE {"failed"}

(***************************************************************************)
(* The main goroutine.                                                     *)
(***************************************************************************)
\* Dial, the welcome frame, the registration by HTTP, whose failure is shown
\* but ends nothing, and the read pump.
Connect ==
    /\ client.at = "dialing"
    /\ \/ /\ \E registered \in BOOLEAN :
                client' = [client EXCEPT !.at = "prompting", !.registered = registered]
          /\ conn' = "open"
          /\ pump' = [pump EXCEPT !.on = TRUE]
       \/ /\ client' = [client EXCEPT !.at = "gone"]
          /\ UNCHANGED <<conn, pump>>
    /\ UNCHANGED <<device, inbox, answers, asked, requests, shown>>

\* A question that cannot be written ends the session.
SendChat ==
    /\ client.at = "prompting"
    /\ client.question < Questions
    /\ IF conn = "open"
       THEN /\ client' = [client EXCEPT !.at = "waiting", !.question = @ + 1]
            /\ asked' = asked \cup {client.question + 1}
       ELSE /\ client' = [client EXCEPT !.at = "leaving"]
            /\ UNCHANGED asked
    /\ UNCHANGED <<device, conn, inbox, pump, answers, requests, shown>>

ShowAnswer ==
    /\ client.at = "waiting"
    /\ answers # <<>>
    /\ shown' = Append(shown, Head(answers))
    /\ answers' = Tail(answers)
    /\ client' = [client EXCEPT !.at = "prompting"]
    /\ UNCHANGED <<device, conn, inbox, pump, asked, requests>>

AnswerTimesOut ==
    /\ client.at = "waiting"
    /\ shown' = Append(shown, 0)
    /\ client' = [client EXCEPT !.at = "prompting"]
    /\ UNCHANGED <<device, conn, inbox, pump, answers, asked, requests>>

\* The user leaves, or the only question is over.
Leave ==
    /\ client.at = "prompting"
    /\ client' = [client EXCEPT !.at = "leaving"]
    /\ UNCHANGED <<device, conn, inbox, pump, answers, asked, requests, shown>>

\* The device is taken off the gateway's list, if that works, and the process ends.
Deregister ==
    /\ client.at = "leaving"
    /\ client' = [client EXCEPT !.at = "gone"]
    /\ conn' = "closed"
    /\ pump' = [on |-> FALSE, holds |-> 0]
    /\ UNCHANGED <<device, inbox, answers, asked, requests, shown>>

\* The connection breaks, or a ping cannot be written and closes it.
ConnectionCloses ==
    /\ conn = "open"
    /\ conn' = "closed"
    /\ inbox' = <<>>
    /\ asked' = {}
    /\ UNCHANGED <<device, client, pump, answers, requests, shown>>

(***************************************************************************)
(* clientReadPump and the goroutines it starts.                            *)
(***************************************************************************)
ReadError ==
    /\ pump.on /\ pump.holds = 0
    /\ conn = "closed"
    /\ pump' = [pump EXCEPT !.on = FALSE]
    /\ UNCHANGED <<device, client, conn, inbox, answers, asked, requests, shown>>

\* A mutated form: the pump waits for room.
HandOverWaiting ==
    /\ Len(answers) < AnswerSize
    /\ answers' = Append(answers, pump.holds)

\* What does not fit is dropped.
HandOver ==
    answers' = IF Len(answers) < AnswerSize THEN Append(answers, pump.holds) ELSE answers

PumpHandsOver ==
    /\ pump.holds # 0
    /\ HandOver
    /\ pump' = [pump EXCEPT !.holds = 0]
    /\ UNCHANGED <<device, client, conn, inbox, asked, requests, shown>>

ReadFrame ==
    /\ pump.on /\ pump.holds = 0
    /\ inbox # <<>>
    /\ inbox' = Tail(inbox)
    /\ IF Head(inbox).type = "chat_response"
       THEN /\ pump' = [pump EXCEPT !.holds = Head(inbox).of]
            /\ UNCHANGED requests
       ELSE IF Head(inbox).type = "capability_request"
       THEN /\ requests' = [requests EXCEPT ![Head(inbox).of] = "running"]
            /\ UNCHANGED pump
       ELSE UNCHANGED <<pump, requests>>
    /\ UNCHANGED <<device, client, conn, answers, asked, shown>>

\* handleCapabilityRequest: whatever comes of it is reported, if it can be written.
HandleCapabilityRequest(r) ==
    /\ requests[r] = "running"
    /\ \E outcome \in ExecuteLocalCapability(device, Requests[r]) :
          requests' = [requests EXCEPT ![r] = IF conn = "open" THEN outcome ELSE "lost"]
    /\ UNCHANGED <<device, client, conn, inbox, pump, answers, asked, shown>>

(***************************************************************************)
(* The gateway: external here, DeviceHub has it in detail.                 *)
(***************************************************************************)
Frame(type, n) == [type |-> type, of |-> n]

\* An answer, or an error when the turn fails or takes too long.
GatewayAnswers(q) ==
    /\ conn = "open"
    /\ q \in asked
    /\ asked' = asked \ {q}
    /\ \E type \in {"chat_response", "error"} : inbox' = Append(inbox, Frame(type, q))
    /\ UNCHANGED <<device, client, conn, pump, answers, requests, shown>>

\* It asks a registered device for what it has announced.
GatewayRequests(r) ==
    /\ conn = "open"
    /\ client.registered
    /\ requests[r] = "none"
    /\ Requests[r] \in DetectCapabilities(device)
    /\ requests' = [requests EXCEPT ![r] = "sent"]
    /\ inbox' = Append(inbox, Frame("capability_request", r))
    /\ UNCHANGED <<device, client, conn, pump, answers, asked, shown>>
-----------------------------------------------------------------------------
\* What the client does by itself; a user need not ask or leave.
ClientSystemStep ==
    \/ ShowAnswer \/ AnswerTimesOut \/ Deregister
    \/ ReadError \/ PumpHandsOver \/ ReadFrame
    \/ \E r \in DOMAIN Requests : HandleCapabilityRequest(r)

ClientStep ==
    \/ ClientSystemStep
    \/ Connect \/ SendChat \/ Leave \/ ConnectionCloses
    \/ \E q \in asked : GatewayAnswers(q)
    \/ \E r \in DOMAIN Requests : GatewayRequests(r)
-----------------------------------------------------------------------------
(***************************************************************************)
(* A device goes on serving its gateway while its user says nothing:       *)
(* however many late answers nobody reads, a request that reached it while *)
(* connected gets its response, unless the connection goes or it leaves.   *)
(***************************************************************************)
RequestsAreServed ==
    \A r \in DOMAIN Requests :
        (requests[r] \in {"sent", "running"})
            ~> (requests[r] \in {"served", "failed", "lost"} \/ conn = "closed")

(***************************************************************************)
(* The answer shown under a question is that question's.  After one answer *)
(* that came too late every later question gets the one before's.          *)
(***************************************************************************)
AnswersMatchQuestions == \A q \in DOMAIN shown : shown[q] \in {0, q}

(***************************************************************************)
(* What a device has registered it can serve.  A computer with ffmpeg      *)
(* registers a camera and a microphone that work on Termux only.           *)
(***************************************************************************)
AdvertisedIsOffered ==
    \A capability \in DetectCapabilities(device) :
        "served" \in ExecuteLocalCapability(device, capability)
=============================================================================
