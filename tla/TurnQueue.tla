------------------------------ MODULE TurnQueue ------------------------------
(***************************************************************************)
(* What the channel bridge promises about the messages of its              *)
(* conversations: the turns of one conversation run one at a time and in   *)
(* the order in which their messages were accepted, and a message whose    *)
(* turn was answered has no further turn.  A turn may be dropped before it *)
(* runs, may fail, and a restart of the application loses the line.        *)
(*                                                                         *)
(* ChannelTurns is shown to implement this specification.                  *)
(***************************************************************************)
EXTENDS Sequences, SequencesExt

CONSTANTS
    Messages,        \* messages of the channels
    Conversations,   \* conversations
    ConversationOf   \* the conversation of a message

VARIABLES
    line,       \* line[c]: the accepted turns of conversation c, oldest first
    running,    \* the messages whose turn runs
    answered    \* the messages whose turn was answered

queueVars == <<line, running, answered>>

----------------------------------------------------------------------------

QueueInit ==
    /\ line = [c \in Conversations |-> << >>]
    /\ running = {}
    /\ answered = {}

\* A message with no turn in the line, and not answered yet, gets one at its end.
Accept(m) ==
    LET c == ConversationOf[m] IN
    /\ m \notin answered
    /\ m \notin ToSet(line[c])
    /\ line' = [line EXCEPT ![c] = Append(@, m)]
    /\ UNCHANGED <<running, answered>>

\* The oldest turn of its conversation begins.
Begin(m) ==
    LET c == ConversationOf[m] IN
    /\ line[c] # << >>
    /\ Head(line[c]) = m
    /\ m \notin answered
    /\ m \notin running
    /\ running' = running \cup {m}
    /\ UNCHANGED <<line, answered>>

\* The oldest turn leaves the line: answered, failed, or dropped before it ran.
Leave(m) ==
    LET c == ConversationOf[m] IN
    /\ line[c] # << >>
    /\ Head(line[c]) = m
    /\ line' = [line EXCEPT ![c] = Tail(@)]
    /\ running' = running \ {m}
    /\ \/ /\ m \in running
          /\ answered' = answered \cup {m}
       \/ UNCHANGED answered

\* A restart forgets the turns, never the answers.
Restart ==
    /\ line' = [c \in Conversations |-> << >>]
    /\ running' = {}
    /\ UNCHANGED answered

QueueNext ==
    \/ \E m \in Messages : Accept(m) \/ Begin(m) \/ Leave(m)
    \/ Restart

QueueSpec == QueueInit /\ [][QueueNext]_queueVars

=============================================================================
