--------------------------- MODULE WhatsAppChannel ---------------------------
(***************************************************************************)
(* pkg/channels/whatsapp.go: one connection to the bridge, never made      *)
(* again.  When it breaks, listen goes on reading from it every two        *)
(* seconds; the WebSocket library gives up by a panic at the thousandth    *)
(* read from a failed connection, which ends the process.                  *)
(***************************************************************************)
EXTENDS BaseChannel

CONSTANT MaxFailedReads     \* 1000 in the library

ASSUME WhatsAppAssumption == MaxFailedReads \in Nat

VARIABLES
    conn,           \* c.conn: none, open, or broken
    listener,       \* the goroutine that reads
    failedReads,    \* reads from the broken connection
    panicked        \* the process is dead

whatsAppVars == <<conn, listener, failedReads, panicked>>

WhatsAppInit ==
    /\ conn = "none"
    /\ listener = "off"
    /\ failedReads = 0
    /\ panicked = FALSE

WhatsAppTypeOK ==
    /\ conn \in {"none", "open", "broken"}
    /\ listener \in {"off", "reading", "gone"}
    /\ failedReads \in 0..MaxFailedReads
    /\ panicked \in BOOLEAN

\* Start dials: without a bridge the channel stays down until the next start.
WhatsAppStart ==
    \/ UNCHANGED <<running, whatsAppVars>>
    \/ /\ conn' = "open"
       /\ listener' = "reading"
       /\ running' = [running EXCEPT !["whatsapp"] = TRUE]
       /\ UNCHANGED <<failedReads, panicked>>

WhatsAppStop ==
    /\ conn' = "none"
    /\ running' = [running EXCEPT !["whatsapp"] = FALSE]
    /\ UNCHANGED <<listener, failedReads, panicked>>

ConnectionBreaks ==
    /\ conn = "open"
    /\ conn' = "broken"
    /\ UNCHANGED <<listener, failedReads, panicked, busVars, baseVars>>

ReadMessage(m) ==
    /\ listener = "reading" /\ conn = "open"
    /\ NextFrom("whatsapp", m)
    /\ HandleMessage(m)
    /\ UNCHANGED <<whatsAppVars, channelOf, copies, ctxDone, running, call>>

\* The context is looked at between two reads only: a read of an open connection
\* that brings nothing does not return until Stop closes it.
ReadFails ==
    /\ listener = "reading" /\ conn = "broken" /\ ~ctxDone
    /\ failedReads < MaxFailedReads
    /\ failedReads' = failedReads + 1
    /\ panicked' = (failedReads' = MaxFailedReads)
    /\ UNCHANGED <<conn, listener, busVars, baseVars>>

ListenEnds ==
    /\ listener = "reading" /\ ctxDone /\ conn # "open"
    /\ listener' = "gone"
    /\ UNCHANGED <<conn, failedReads, panicked, busVars, baseVars>>

\* Send holds the channel's lock throughout; a write to a connection that is
\* broken may seem to succeed.
WhatsAppSend(c) ==
    /\ call[c].at = "send" /\ ChannelFor(call[c].msg) = "whatsapp"
    /\ call' = [call EXCEPT ![c] = Idle]
    /\ IF conn = "open" THEN Show(call[c].msg) ELSE UNCHANGED copies
    /\ UNCHANGED <<whatsAppVars, busVars, channelOf, unread, ctxDone, running>>
=============================================================================
