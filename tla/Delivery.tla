------------------------------- MODULE Delivery -------------------------------
(***************************************************************************)
(* What the gateway promises of a user's message, whatever channel it came *)
(* by.  Its fate only moves forward, so that it is handled once.  The      *)
(* replies to it, as many as its turn likes, are made while it is being    *)
(* handled; each is shown in the user's chat twice at most (that the       *)
(* second time is for an error is not said).  One that the turn sends is   *)
(* shown before the turn makes the next; those that it publishes have no   *)
(* such order.  Any reply, and any message, may be lost at any time:       *)
(* queues are bounded, services fail and the gateway stops.                *)
(***************************************************************************)
EXTENDS Fates

CONSTANTS Messages, Replies, ReplyTo

VARIABLES
    fate,       \* of each message
    way,        \* how each reply goes: "sent", "published", or "none" yet
    copies      \* of each reply, in the chat its message came from

vars == <<fate, way, copies>>

Init ==
    /\ fate = [m \in Messages |-> Unread]
    /\ way = [r \in Replies |-> "none"]
    /\ copies = [r \in Replies |-> 0]

\* The replies to a message are numbered in the order in which they are made.
IsNext(r) ==
    \A q \in Replies : ReplyTo[q] = ReplyTo[r] => ((way[q] = "none") = (q >= r))

IsLast(r) ==
    \A q \in Replies : ReplyTo[q] = ReplyTo[r] /\ q > r => way[q] = "none"

Make(r) ==
    /\ fate[ReplyTo[r]] = Handled
    /\ IsNext(r)
    /\ \E how \in {"sent", "published"} : way' = [way EXCEPT ![r] = how]
    /\ UNCHANGED <<fate, copies>>

\* Showing the last of its copies, a reply may be what its message still waited for.
Show(r) ==
    /\ CASE way[r] = "sent" -> fate[ReplyTo[r]] = Handled /\ IsLast(r)
         [] way[r] = "published" -> fate[ReplyTo[r]] \in {Handled, Answered}
         [] OTHER -> FALSE
    /\ copies[r] < 2
    /\ copies' = [copies EXCEPT ![r] = @ + 1]
    /\ \/ UNCHANGED fate
       \/ fate' = [fate EXCEPT ![ReplyTo[r]] = Settled]
    /\ UNCHANGED way

\* A message gets on, or is given up.
Advance(m) ==
    /\ \E f \in Unread..Settled : f > fate[m] /\ fate' = [fate EXCEPT ![m] = f]
    /\ UNCHANGED <<way, copies>>

\* A subscriber leaves with the replies its buffer held; the process ends with whatever
\* was under way.
GiveUp ==
    /\ fate' \in [Messages -> Unread..Settled]
    /\ \A m \in Messages : fate'[m] = fate[m] \/ (fate[m] # Unread /\ fate'[m] = Settled)
    /\ UNCHANGED <<way, copies>>

Next ==
    \/ GiveUp
    \/ \E m \in Messages : Advance(m)
    \/ \E r \in Replies : Make(r) \/ Show(r)

Spec == Init /\ [][Next]_vars
=============================================================================
