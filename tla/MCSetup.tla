--------------------------------- MODULE MCSetup ---------------------------------
(* Setup with one wizard beside one pairing command and the gateway: the files  *)
(* the first runs of the program leave.                                         *)
EXTENDS Setup

CONSTANTS u1, u2, c1, c2, wizard, pair

Wizard == {"onboard", "configure", "auto", "refresh", "login", "logout", "migrate"}

MCCommandOf == (wizard :> Wizard) @@ (pair :> {"pairing"})

Paired == [DefaultConfig EXCEPT !.brain = "ready", !.telegram = TRUE, !.allow = {u1}]
Unpaired == [Paired EXCEPT !.allow = {}]

\* Nothing; credentials and a token; an exposed API with its key; all turned off.
MCEnvironments ==
    {<<>>,
     [credentials |-> TRUE, telegram |-> TRUE],
     [public |-> TRUE, api |-> TRUE, key |-> TRUE, restricted |-> FALSE],
     [public |-> FALSE, api |-> FALSE, telegram |-> FALSE]}

MCFirstFiles == {Without("absent"), Whole(Paired), Whole(Unpaired)}
=============================================================================
