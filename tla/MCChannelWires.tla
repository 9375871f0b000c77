--------------------------- MODULE MCChannelWires ---------------------------
(* One message to the bot, and a gateway that says nothing. *)
EXTENDS ChannelWires

NoFrames == <<>>
=============================================================================
