--------------------------- MODULE MCChannelHandler ---------------------------
(***************************************************************************)
(* An instance of ChannelHandler with two tool approvals and a question,   *)
(* so that a permission is superseded by one of each kind.                 *)
(***************************************************************************)
EXTENDS ChannelHandler

CONSTANTS approval1, approval2, question

MCRequests == {approval1, approval2, question}

MCQuestions == {question}

=============================================================================
