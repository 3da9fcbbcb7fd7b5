------------------------------- MODULE MCGateway -------------------------------
(* Instances of Gateway: a message by Telegram, or two by WhatsApp or voice, of *)
(* which the first has two replies.                                             *)
EXTENDS Gateway

ByTens == [r \in Replies |-> r \div 10]

From(channel) == [m \in Messages |-> channel]

OneChannel == {1 :> "telegram" @@ 2 :> "none", From("whatsapp"), From("voice")}
=============================================================================
