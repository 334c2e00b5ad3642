----------------------------- MODULE MCChatRoom -----------------------------
EXTENDS ChatRoom, TLC

CONSTANTS c1, c2

MCClients == {c1, c2}
MCMaxLines == c1 :> 2 @@ c2 :> 1
=============================================================================
