----------------------------- MODULE VoicePipeline -----------------------------
(***************************************************************************)
(* pkg/voice/pipeline.go with the wake word, the recorder, the speech      *)
(* providers and the player: it records without a pause, transcribes each  *)
(* recording in a goroutine of its own, and speaks each reply in another.  *)
(* It is not one of the manager's channels: it has a subscription to the   *)
(* bus, taken by the goroutine handleOutbound once that gets to run, and   *)
(* sees every reply, of which it speaks those to "voice".                  *)
(***************************************************************************)
EXTENDS BaseChannel

VARIABLES
    voiceRunning,   \* p.running
    stopClosed,     \* p.stopCh is closed; it is made once, by NewPipeline
    recorder,       \* recordLoop
    recording,      \* per message, processRecording
    speaker,        \* handleOutbound
    speech          \* per reply, speakResponse

voiceVars == <<voiceRunning, stopClosed, recorder, recording, speaker, speech>>

VoiceInit ==
    /\ voiceRunning = FALSE
    /\ stopClosed = FALSE
    /\ recorder = "off"
    /\ recording = [m \in Messages |-> "none"]
    /\ speaker = "off"
    /\ speech = [r \in Replies |-> "none"]

VoiceTypeOK ==
    /\ <<voiceRunning, stopClosed>> \in BOOLEAN \X BOOLEAN
    /\ recorder \in {"off", "recording", "gone"}
    /\ recording \in [Messages -> {"none", "transcribing"}]
    /\ speaker \in {"off", "spawned", "listening", "gone"}
    /\ speech \in [Replies -> {"none", "speaking", "again"}]

\* Start: without a recorder, a permission or a transcriber it returns an error, and
\* leaves running set.
VoiceStart ==
    /\ ~voiceRunning
    /\ voiceRunning' = TRUE
    /\ \/ UNCHANGED <<recorder, speaker>>
       \/ recorder' = "recording" /\ speaker' = "spawned"
    /\ UNCHANGED <<stopClosed, recording, speech>>

VoiceStop ==
    /\ voiceRunning' = FALSE
    /\ stopClosed' = (stopClosed \/ voiceRunning)
    /\ UNCHANGED <<recorder, recording, speaker, speech>>

\* The context or the stop channel; recordLoop also ends when the permission is gone.
VoiceTold == ctxDone \/ stopClosed

RecordLoopEnds ==
    /\ recorder = "recording" /\ VoiceTold
    /\ recorder' = "gone"
    /\ UNCHANGED <<voiceRunning, stopClosed, recording, speaker, speech, busVars, baseVars>>

Record(m) ==
    /\ recorder = "recording" /\ ~ctxDone
    /\ NextFrom("voice", m)
    /\ recording' = [recording EXCEPT ![m] = "transcribing"]
    /\ UNCHANGED <<voiceRunning, stopClosed, recorder, speaker, speech, busVars,
                   channelOf, copies, ctxDone, running, call>>

\* The transcription failed or is empty, lacks the wake phrase, or is nothing but it:
\* then "Yes?" is spoken, which answers no message.
NothingToSend(m) ==
    /\ recording[m] = "transcribing"
    /\ recording' = [recording EXCEPT ![m] = "none"]
    /\ UNCHANGED <<voiceRunning, stopClosed, recorder, speaker, speech, busVars, baseVars>>

ProcessRecording(m) ==
    /\ recording[m] = "transcribing"
    /\ recording' = [recording EXCEPT ![m] = "none"]
    /\ PublishInbound(m)
    /\ UNCHANGED <<voiceRunning, stopClosed, recorder, speaker, speech, baseVars>>

HandleOutboundStarts ==
    /\ speaker = "spawned"
    /\ SubscribeOutbound("voice")
    /\ speaker' = "listening"
    /\ UNCHANGED <<voiceRunning, stopClosed, recorder, recording, speech, baseVars>>

HandleOutboundReceives ==
    /\ speaker = "listening"
    /\ Receive("voice")
    /\ LET r == Head(subs["voice"].buffer)
       IN  speech' = IF ChannelFor(r) = "voice" THEN [speech EXCEPT ![r] = "speaking"] ELSE speech
    /\ UNCHANGED <<voiceRunning, stopClosed, recorder, recording, speaker, baseVars>>

HandleOutboundEnds ==
    /\ speaker = "listening" /\ VoiceTold
    /\ Unsubscribe("voice")
    /\ speaker' = "gone"
    /\ UNCHANGED <<voiceRunning, stopClosed, recorder, recording, speech, baseVars>>

\* speakResponse: the first provider that has speech, and the player; if playing
\* failed, which it may do after the user heard it, the phone's own voice, if any.
SpeakResponse(r) ==
    /\ speech[r] \in {"speaking", "again"}
    /\ \E spoken, heard \in BOOLEAN :
        /\ spoken => heard
        /\ IF heard THEN Show(r) ELSE UNCHANGED copies
        /\ speech' = [speech EXCEPT ![r] =
                        IF @ = "speaking" /\ ~spoken THEN "again" ELSE "none"]
    /\ UNCHANGED <<voiceRunning, stopClosed, recorder, recording, speaker, busVars,
                   channelOf, unread, ctxDone, running, call>>

VoiceStep ==
    \/ RecordLoopEnds \/ HandleOutboundStarts \/ HandleOutboundReceives \/ HandleOutboundEnds
    \/ \E m \in Messages : NothingToSend(m) \/ ProcessRecording(m)
    \/ \E r \in Replies : SpeakResponse(r)
=============================================================================
