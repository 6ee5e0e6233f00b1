--------------------------- MODULE MCConversation ---------------------------
(* The commands of the run of Conversation: an order that is listed, one of  *)
(* nothing, both ends of an order, and a word that is a reply or no command. *)
EXTENDS Conversation, TLC

MCCommands == {"order", "nothing", "confirm", "cancel", "No"}

=============================================================================
