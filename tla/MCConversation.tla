--------------------------- MODULE MCConversation ---------------------------
(* Instances of Conversation for TLC: the cfg files give the bounds.         *)
EXTENDS Conversation
=============================================================================
