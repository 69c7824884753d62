---------------------------- MODULE MCChannelTurns ----------------------------
(***************************************************************************)
(* An instance of ChannelTurns: two conversations, one with two messages,  *)
(* and a single permit, so that turns queue behind a conversation and      *)
(* behind the limit at the same time.                                      *)
(***************************************************************************)
EXTENDS ChannelTurns

CONSTANTS m1, m2, m3, c1, c2

MCMessages == {m1, m2, m3}

MCConversations == {c1, c2}

MCConversationOf == [m \in MCMessages |-> IF m = m3 THEN c2 ELSE c1]

=============================================================================
