----------------------------- MODULE ChannelTurns -----------------------------
(***************************************************************************)
(* The turns of the instant-messaging channels                             *)
(* (src/main/im/channelTurnCoordinator.ts, channelInboxStore.ts).          *)
(*                                                                         *)
(* The channel sidecar delivers a message with an HTTP request that stays  *)
(* open until the turn of the message is answered; it may deliver it again *)
(* at any time, and it may close the request.  The coordinator keeps       *)
(*   - the durable inbox, one row per message (inbox);                     *)
(*   - the promise of each message in flight (activeEvents, phase);        *)
(*   - the tail of each conversation, so that its turns run one after the  *)
(*     other (conversationTails, queue);                                   *)
(*   - the permits that bound the turns of all conversations (activeCount, *)
(*     permits).                                                           *)
(* A step is the code between two awaits.  The process may die at any      *)
(* time: the inbox survives, the rest does not.                            *)
(*                                                                         *)
(* A definition marked Mutant is the one after it with a fault, which      *)
(* nothing uses.                                                           *)
(***************************************************************************)
EXTENDS Integers, Sequences, SequencesExt, FiniteSets

CONSTANTS
    Messages,          \* messages of the channels
    Conversations,     \* conversations
    ConversationOf,    \* the conversation of a message
    MaxConcurrency,    \* turns that may run at the same time
    MaxDeliveries,     \* bound: requests per message
    MaxCrashes         \* bound: restarts of the application

\* The constructor of the coordinator rejects any other limit.
ASSUME ConcurrencyAssumption == MaxConcurrency \in Nat \ {0}

ASSUME ConversationAssumption == ConversationOf \in [Messages -> Conversations]

ASSUME BoundsAssumption == MaxDeliveries \in Nat /\ MaxCrashes \in Nat

VARIABLES
    inbox,       \* status of the row of a message, "none" without a row
    phase,       \* where the operation of a message is, "none" without one
    queue,       \* queue[c]: operations of c whose promise is not settled, oldest first
    permits,     \* turns that wait for a permit, oldest first
    active,      \* activeCount
    aborted,     \* the request that created the operation was closed
    requests,    \* open requests that wait for the promise of a message
    deliveries,  \* requests made for a message so far
    crashes      \* restarts so far

vars == <<inbox, phase, queue, permits, active, aborted, requests, deliveries,
          crashes>>

----------------------------------------------------------------------------
(* Statuses *)

InboxStatus == {"none", "pending", "processing", "completed", "error"}

Holding == {"entering", "executing"}       \* counted in activeCount

InTurn == {"waiting", "woken"} \cup Holding   \* its predecessor has settled

Phase == {"none", "chained", "settled"} \cup InTurn

Woken == {m \in Messages : phase[m] = "woken"}

Holders == {m \in Messages : phase[m] \in Holding}

\* Mutant: turns are not chained behind their conversation.
IsOldestOrNot(m) == queue[ConversationOf[m]] # << >>

IsOldest(m) ==
    LET c == ConversationOf[m] IN queue[c] # << >> /\ Head(queue[c]) = m

----------------------------------------------------------------------------

Init ==
    /\ inbox = [m \in Messages |-> "none"]
    /\ phase = [m \in Messages |-> "none"]
    /\ queue = [c \in Conversations |-> << >>]
    /\ permits = << >>
    /\ active = 0
    /\ aborted = [m \in Messages |-> FALSE]
    /\ requests = [m \in Messages |-> 0]
    /\ deliveries = [m \in Messages |-> 0]
    /\ crashes = 0

----------------------------------------------------------------------------
(* Requests of the sidecar *)

CountDelivery(m) ==
    /\ deliveries[m] < MaxDeliveries
    /\ deliveries' = [deliveries EXCEPT ![m] = @ + 1]

\* run: the message is in flight, the request shares its promise.
Join(m) ==
    /\ CountDelivery(m)
    /\ phase[m] \notin {"none", "settled"}
    /\ requests' = [requests EXCEPT ![m] = @ + 1]
    /\ UNCHANGED <<inbox, phase, queue, permits, active, aborted, crashes>>

\* run: the promise is settled but not forgotten yet, or the inbox holds the
\* result: the request is answered at once.
AnswerAtOnce(m) ==
    /\ CountDelivery(m)
    /\ \/ phase[m] = "settled"
       \/ phase[m] = "none" /\ inbox[m] = "completed"
    /\ UNCHANGED <<inbox, phase, queue, permits, active, aborted, requests, crashes>>

\* Mutant: the result in the inbox is not looked at.
EnqueueAgain(m) ==
    /\ CountDelivery(m)
    /\ phase[m] = "none"
    /\ inbox' = [inbox EXCEPT ![m] = IF @ = "none" THEN "pending" ELSE @]
    /\ phase' = [phase EXCEPT ![m] = "chained"]
    /\ queue' = [queue EXCEPT ![ConversationOf[m]] = Append(@, m)]
    /\ aborted' = [aborted EXCEPT ![m] = FALSE]
    /\ requests' = [requests EXCEPT ![m] = @ + 1]
    /\ UNCHANGED <<permits, active, crashes>>

\* run: a row is claimed and the operation chained after the tail of its
\* conversation.  The row of an earlier attempt keeps its status.
Enqueue(m) ==
    /\ CountDelivery(m)
    /\ phase[m] = "none"
    /\ inbox[m] # "completed"
    /\ inbox' = [inbox EXCEPT ![m] = IF @ = "none" THEN "pending" ELSE @]
    /\ phase' = [phase EXCEPT ![m] = "chained"]
    /\ queue' = [queue EXCEPT ![ConversationOf[m]] = Append(@, m)]
    /\ aborted' = [aborted EXCEPT ![m] = FALSE]
    /\ requests' = [requests EXCEPT ![m] = @ + 1]
    /\ UNCHANGED <<permits, active, crashes>>

Deliver(m) == Join(m) \/ AnswerAtOnce(m) \/ Enqueue(m)

\* The request that created the operation is closed: its signal is aborted.  The
\* signals of the requests that joined later reach nobody.
Disconnect(m) ==
    /\ phase[m] \notin {"none", "settled"}
    /\ ~ aborted[m]
    /\ aborted' = [aborted EXCEPT ![m] = TRUE]
    /\ UNCHANGED <<inbox, phase, queue, permits, active, requests, deliveries, crashes>>

----------------------------------------------------------------------------
(* The operation of a message *)

\* The promise of m settles: the next operation of the conversation may go on,
\* and every request that shares the promise is answered.
Settle(m, newPhase) ==
    /\ phase' = [newPhase EXCEPT ![m] = "settled"]
    /\ queue' = [queue EXCEPT ![ConversationOf[m]] = Tail(@)]
    /\ requests' = [requests EXCEPT ![m] = 0]

\* Mutant: a release wakes nobody.
ReleasedNobody == phase

\* release: the count goes down and the oldest waiting turn is woken.  It counts
\* itself only when it runs again.
ReleasedPhase ==
    IF permits = << >> THEN phase ELSE [phase EXCEPT ![Head(permits)] = "woken"]

Release ==
    /\ active' = active - 1
    /\ permits' = IF permits = << >> THEN permits ELSE Tail(permits)

\* The predecessor has settled: a closed request is dropped, another one takes a
\* permit or waits for one.
Start(m) ==
    /\ phase[m] = "chained"
    /\ IsOldest(m)
    /\ UNCHANGED <<inbox, aborted, deliveries, crashes>>
    /\ \/ /\ aborted[m]
          /\ Settle(m, phase)
          /\ UNCHANGED <<permits, active>>
       \/ /\ ~ aborted[m]
          /\ active < MaxConcurrency
          /\ active' = active + 1
          /\ phase' = [phase EXCEPT ![m] = "entering"]
          /\ UNCHANGED <<queue, permits, requests>>
       \/ /\ ~ aborted[m]
          /\ active >= MaxConcurrency
          /\ permits' = Append(permits, m)
          /\ phase' = [phase EXCEPT ![m] = "waiting"]
          /\ UNCHANGED <<queue, active, requests>>

\* Mutant: the woken turn does not count itself.
WakeUncounted(m) ==
    /\ phase[m] = "woken"
    /\ phase' = [phase EXCEPT ![m] = "entering"]
    /\ UNCHANGED <<inbox, queue, permits, active, aborted, requests, deliveries, crashes>>

\* acquire: the woken turn counts itself, whatever the count has become.
Wake(m) ==
    /\ phase[m] = "woken"
    /\ active' = active + 1
    /\ phase' = [phase EXCEPT ![m] = "entering"]
    /\ UNCHANGED <<inbox, queue, permits, aborted, requests, deliveries, crashes>>

\* Mutant: a turn cancelled while it waited keeps its permit.
EnterKeepingPermit(m) ==
    /\ phase[m] = "entering"
    /\ IF aborted[m]
         THEN Settle(m, phase) /\ UNCHANGED <<inbox, permits, active>>
         ELSE /\ inbox' = [inbox EXCEPT ![m] = "processing"]
              /\ phase' = [phase EXCEPT ![m] = "executing"]
              /\ UNCHANGED <<queue, permits, active, requests>>
    /\ UNCHANGED <<aborted, deliveries, crashes>>

\* With the permit: a request closed meanwhile gives it back, another one marks
\* its row and executes.
Enter(m) ==
    /\ phase[m] = "entering"
    /\ \/ /\ aborted[m]
          /\ Release
          /\ Settle(m, ReleasedPhase)
          /\ UNCHANGED inbox
       \/ /\ ~ aborted[m]
          /\ inbox' = [inbox EXCEPT ![m] = "processing"]
          /\ phase' = [phase EXCEPT ![m] = "executing"]
          /\ UNCHANGED <<queue, permits, active, requests>>
    /\ UNCHANGED <<aborted, deliveries, crashes>>

\* The execution ends with a result, or with an error or an empty result.
Finish(m) ==
    /\ phase[m] = "executing"
    /\ \E status \in {"completed", "error"} :
          inbox' = [inbox EXCEPT ![m] = status]
    /\ Release
    /\ Settle(m, ReleasedPhase)
    /\ UNCHANGED <<aborted, deliveries, crashes>>

\* The tail has settled: the message and the conversation are forgotten.
Forget(m) ==
    /\ phase[m] = "settled"
    /\ phase' = [phase EXCEPT ![m] = "none"]
    /\ UNCHANGED <<inbox, queue, permits, active, aborted, requests, deliveries, crashes>>

\* Mutant: the rows of the interrupted turns keep their status.
CrashWithoutRecovery ==
    /\ crashes < MaxCrashes
    /\ crashes' = crashes + 1
    /\ phase' = [m \in Messages |-> "none"]
    /\ queue' = [c \in Conversations |-> << >>]
    /\ permits' = << >>
    /\ active' = 0
    /\ aborted' = [m \in Messages |-> FALSE]
    /\ requests' = [m \in Messages |-> 0]
    /\ UNCHANGED <<inbox, deliveries>>

\* The process dies and starts again: recoverInterrupted puts the rows of the
\* interrupted turns back; the requests are gone.
Crash ==
    /\ crashes < MaxCrashes
    /\ crashes' = crashes + 1
    /\ inbox' = [m \in Messages |-> IF inbox[m] = "processing" THEN "pending" ELSE inbox[m]]
    /\ phase' = [m \in Messages |-> "none"]
    /\ queue' = [c \in Conversations |-> << >>]
    /\ permits' = << >>
    /\ active' = 0
    /\ aborted' = [m \in Messages |-> FALSE]
    /\ requests' = [m \in Messages |-> 0]
    /\ UNCHANGED deliveries

----------------------------------------------------------------------------

Step(m) == Start(m) \/ Wake(m) \/ Enter(m) \/ Finish(m) \/ Forget(m)

Next ==
    \/ \E m \in Messages : Deliver(m) \/ Disconnect(m) \/ Step(m)
    \/ Crash

\* A microtask that is due runs; an execution ends, because the handler of the
\* channel settles every reply within its timeout (ACCUMULATOR_TIMEOUT_MS).
Fairness == \A m \in Messages : WF_vars(Step(m))

Spec == Init /\ [][Next]_vars

FairSpec == Spec /\ Fairness

----------------------------------------------------------------------------
(* Properties *)

TypeOK ==
    /\ inbox \in [Messages -> InboxStatus]
    /\ phase \in [Messages -> Phase]
    /\ queue \in [Conversations -> Seq(Messages)]
    /\ permits \in Seq(Messages)
    /\ active \in Nat
    /\ aborted \in [Messages -> BOOLEAN]
    /\ requests \in [Messages -> Nat]
    /\ deliveries \in [Messages -> Nat]
    /\ crashes \in Nat

\* A row says "processing" exactly while a turn of the message executes: neither
\* a crash, a cancelled request nor a redelivery leaves it behind, so no message
\* is stuck in a turn nobody runs (markProcessing, complete, fail and
\* recoverInterrupted of channelInboxStore.ts).
ProcessingIsExecuting ==
    \A m \in Messages : inbox[m] = "processing" <=> phase[m] = "executing"

\* No permit is lost: the count is the number of turns that hold a permit, and a
\* turn sleeps only while the permits are held or already given to woken turns
\* (acquire and release, with the cancellation between them).
PermitsNotLost ==
    /\ active = Cardinality(Holders)
    /\ permits # << >> => active + Cardinality(Woken) >= MaxConcurrency

\* An answered message is answered for good: a redelivery, a late request or a
\* restart neither runs it again nor takes its result away (activeEvents and the
\* completed row of the inbox).
AnsweredOnce ==
    [][\A m \in Messages :
          inbox[m] = "completed" => inbox'[m] = "completed" /\ phase'[m] # "executing"]_vars

\* The turns are those of the abstract queue: one at a time and in order within
\* a conversation, none after the answer, none begun out of line.
Queue == INSTANCE TurnQueue WITH
    line <- queue,
    running <- {m \in Messages : phase[m] = "executing"},
    answered <- {m \in Messages : inbox[m] = "completed"}

ImplementsQueue == Queue!QueueSpec

\* Every request is answered in the end, whatever the other conversations and
\* the closed requests do: a chain of turns, a permit or a shared promise never
\* leaves one behind.
RequestsAnswered ==
    \A m \in Messages : (requests[m] > 0) ~> (requests[m] = 0)

=============================================================================
