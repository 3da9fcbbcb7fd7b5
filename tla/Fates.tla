--------------------------------- MODULE Fates ---------------------------------
(* The fates of a user's message, in the order in which it meets them. *)
EXTENDS Naturals

Unread == 0     \* the channel's service has it
Received == 1   \* a channel has taken it, and may still drop it
Queued == 2     \* it is on the bus
Handled == 3    \* the agent has taken it
Answered == 4   \* its answer is on the way
Settled == 5    \* nothing will be done about it any more
=============================================================================
