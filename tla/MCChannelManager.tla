-------------------------- MODULE MCChannelManager --------------------------
(* Two users of one channel; ann writes twice. *)
EXTENDS ChannelManager

CONSTANTS ann, bob, a1, a2, b1

TwoUsers == {ann, bob}
ThreeMessages == {a1, a2, b1}

\* All of them are hers.
OneUser == {ann}
OnlyAnn == [m \in Messages |-> ann]

SenderOf == [m \in Messages |-> IF m = b1 THEN bob ELSE ann]
=============================================================================
