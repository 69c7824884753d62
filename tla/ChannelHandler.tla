---------------------------- MODULE ChannelHandler ----------------------------
(***************************************************************************)
(* How the turn of a channel message is executed                           *)
(* (src/main/im/imCoworkHandler.ts): the handler of one conversation and   *)
(* the Pi session behind it.                                               *)
(*                                                                         *)
(* The coordinator (ChannelTurns) runs one turn of the conversation at a   *)
(* time.  A turn waits for a promise that the accumulator of the session   *)
(* settles when the session completes, fails, is stopped, asks for a       *)
(* permission, or when the accumulator times out.  A permission is asked   *)
(* in the chat: its prompt answers the turn, and the next message of the   *)
(* conversation decides it.  The same session may also run turns the chat  *)
(* did not ask for (the desktop, a scheduled task): their output goes to a *)
(* background accumulator, which nobody waits for.                         *)
(*                                                                         *)
(* The Pi session is external: it runs or not, asks for permissions, and   *)
(* emits its events.  Left out: the deletion of the session and the retry  *)
(* of a turn with a new session, which begin with a new accumulator.       *)
(*                                                                         *)
(* A definition marked Mutant is the one after it with a fault, which      *)
(* nothing uses.                                                           *)
(***************************************************************************)
EXTENDS Integers, FiniteSets

CONSTANTS
    Requests,      \* permissions the session may ask for
    Questions,     \* those that are questions of the agent, not tool approvals
    MaxMessages,   \* bound: messages of the conversation
    MaxForeign     \* bound: turns of the session the chat did not ask for

ASSUME QuestionsAssumption == Questions \subseteq Requests

\* The id of a request is a UUID.
ASSUME RequestAssumption == "none" \notin Requests

VARIABLES
    turn,       \* where the turn of the current message is
    promise,    \* its responsePromise: "none", "pending" or "settled"
    listening,  \* cancelTurn listens to the signal of its request
    aborted,    \* that signal is aborted
    acc,        \* the accumulator of the session
    pending,    \* pendingPermissionByConversation
    running,    \* the Pi session runs a turn
    starting,   \* promises of startSession and continueSession not settled yet
    decision,   \* what became of each permission request
    messages,   \* messages so far
    foreign     \* foreign turns so far

vars == <<turn, promise, listening, aborted, acc, pending, running, starting,
          decision, messages, foreign>>

handlerVars == <<acc, pending, promise, running, decision>>

----------------------------------------------------------------------------

\* "turn": somebody waits for it; "background": nobody does; "delivery": somebody
\* waits for an accumulator marked as a background delivery.
Accumulator == {"none", "turn", "background", "delivery"}

Waits(a) == a \in {"turn", "delivery"}

IsBackground(a) == a \in {"background", "delivery"}

NoPermission == [request |-> "none", background |-> FALSE]

Permission == [request : Requests, background : BOOLEAN] \cup {NoPermission}

Open == {r \in Requests : decision[r] = "open"}

\* The part of the state that the events of the session change together.
Now == [acc |-> acc, pending |-> pending, promise |-> promise,
        running |-> running, decision |-> decision]

Become(s) ==
    /\ acc' = s.acc
    /\ pending' = s.pending
    /\ promise' = s.promise
    /\ running' = s.running
    /\ decision' = s.decision

\* Mutant: the promise is settled, the accumulator stays.
SettledKeepingAccumulator(s) ==
    [s EXCEPT !.promise = IF Waits(s.acc) THEN "settled" ELSE @]

\* The accumulator is removed; whoever waits for it gets its answer.
Settled(s) ==
    [s EXCEPT !.acc = "none",
              !.promise = IF Waits(s.acc) THEN "settled" ELSE @]

\* Mutant: the requests of the session stay open.
ClosedKeepingRequests(s) == [s EXCEPT !.running = FALSE]

\* The turn of the session is over, its open requests are gone.
Closed(s) ==
    [s EXCEPT !.running = FALSE,
              !.decision = [r \in Requests |-> IF @[r] = "open" THEN "closed" ELSE @[r]]]

\* stopSession, with the sessionStopped event it emits.
Stopped(s) == Settled([Closed(s) EXCEPT !.pending = NoPermission])

\* respondToPermission: only an open request is decided; the denial of a tool
\* stops the session, the denial of a question goes to the agent.
Denied(s, r) ==
    IF s.decision[r] # "open" THEN s
    ELSE LET answered == [s EXCEPT !.decision[r] = "deny"] IN
         IF r \in Questions THEN answered ELSE Stopped(answered)

Allowed(s, r) ==
    IF s.decision[r] # "open" THEN s ELSE [s EXCEPT !.decision[r] = "allow"]

\* createAccumulatorPromise: an accumulator still there is rejected.
WithPromise(s, kind) == [Settled(s) EXCEPT !.acc = kind, !.promise = "pending"]

----------------------------------------------------------------------------

Init ==
    /\ turn = "idle"
    /\ promise = "none"
    /\ listening = FALSE
    /\ aborted = FALSE
    /\ acc = "none"
    /\ pending = NoPermission
    /\ running = FALSE
    /\ starting = 0
    /\ decision = [r \in Requests |-> "new"]
    /\ messages = 0
    /\ foreign = 0

----------------------------------------------------------------------------
(* The turn of a message *)

NewMessage ==
    /\ turn = "idle"
    /\ messages < MaxMessages
    /\ messages' = messages + 1
    /\ aborted' = FALSE
    /\ listening' = FALSE
    /\ UNCHANGED <<starting, foreign>>

\* No permission is pending: the message is for the session.
Task ==
    /\ NewMessage
    /\ pending = NoPermission
    /\ turn' = "setup"
    /\ promise' = "none"
    /\ UNCHANGED <<acc, pending, running, decision>>

\* A permission is pending: any text but an answer only brings a reminder.
Remind ==
    /\ NewMessage
    /\ pending # NoPermission
    /\ UNCHANGED <<turn, promise, acc, pending, running, decision>>

ReplyDeny ==
    /\ NewMessage
    /\ pending # NoPermission
    /\ Become(Denied([Now EXCEPT !.pending = NoPermission], pending.request))
    /\ UNCHANGED turn

\* The accumulator of the reply keeps the background mark of the permission.
ReplyAllow ==
    /\ NewMessage
    /\ pending # NoPermission
    /\ Become(Allowed(WithPromise([Now EXCEPT !.pending = NoPermission],
                                  IF pending.background THEN "delivery" ELSE "turn"),
                      pending.request))
    /\ turn' = "awaiting"

\* The session and the prompts are ready: the accumulator is made.  A request
\* closed meanwhile cancels the turn.
Prepare ==
    /\ turn = "setup"
    /\ listening' = ~ aborted
    /\ \/ /\ ~ aborted
          /\ Become(WithPromise(Now, "turn"))
          /\ turn' = "launching"
       \/ /\ aborted
          /\ Become(Stopped(Settled(WithPromise(Now, "turn"))))
          /\ turn' = "awaiting"
    /\ UNCHANGED <<aborted, starting, messages, foreign>>

\* startSession, or continueSession of a session that is active.  A request
\* closed since, or a missing session, rejects the accumulator instead.
Launch ==
    /\ turn = "launching"
    /\ turn' = "awaiting"
    /\ \/ /\ ~ aborted
          /\ starting' = starting + 1
          /\ UNCHANGED handlerVars
       \/ /\ Become(Settled(Now))
          /\ UNCHANGED starting
    /\ UNCHANGED <<listening, aborted, messages, foreign>>

\* Mutant: a call that was settled is accepted once more.
StartedAgain ==
    /\ starting' = starting - 1
    /\ running' = TRUE
    /\ UNCHANGED <<turn, promise, listening, aborted, acc, pending, decision, messages, foreign>>

\* The call is accepted, and the session runs.
Started ==
    /\ starting > 0
    /\ starting' = starting - 1
    /\ running' = TRUE
    /\ UNCHANGED <<turn, promise, listening, aborted, acc, pending, decision, messages, foreign>>

\* The call is rejected: onSessionStartError rejects the accumulator the session
\* has by now.
StartRejected ==
    /\ starting > 0
    /\ starting' = starting - 1
    /\ Become(Settled(Now))
    /\ UNCHANGED <<turn, listening, aborted, messages, foreign>>

\* The sidecar closes the request: cancelTurn stops the session while the
\* accumulator is still that of the turn.
Abort ==
    /\ turn # "idle"
    /\ ~ aborted
    /\ aborted' = TRUE
    /\ \/ /\ listening /\ acc = "turn"
          /\ Become(Stopped(Settled(Now)))
       \/ /\ ~ (listening /\ acc = "turn")
          /\ UNCHANGED handlerVars
    /\ UNCHANGED <<turn, listening, starting, messages, foreign>>

\* The promise is settled: the turn ends and the coordinator goes on.
Return ==
    /\ turn = "awaiting"
    /\ promise = "settled"
    /\ turn' = "idle"
    /\ promise' = "none"
    /\ listening' = FALSE
    /\ UNCHANGED <<aborted, acc, pending, running, starting, decision, messages, foreign>>

----------------------------------------------------------------------------
(* Events of the session *)

HandlerOnly == UNCHANGED <<turn, listening, aborted, starting, messages, foreign>>

\* handlePermissionRequest: the permission that waits is denied, the new one
\* takes its place and its prompt answers the turn.
Ask(r) ==
    /\ running
    /\ decision[r] = "new"
    /\ LET asked == [Now EXCEPT !.decision[r] = "open"]
           alone == IF pending = NoPermission THEN asked
                    ELSE Denied([asked EXCEPT !.pending = NoPermission], pending.request)
           background == IF alone.acc # "none" THEN IsBackground(alone.acc)
                         ELSE pending.background
       IN Become(Settled([alone EXCEPT
                             !.pending = [request |-> r, background |-> background]]))
    /\ HandlerOnly

\* Mutant: the timer forgets the permission without denying it.
PermissionTimeoutForgets ==
    /\ pending # NoPermission
    /\ Become([Now EXCEPT !.pending = NoPermission])
    /\ HandlerOnly

\* Nobody answered within 60 seconds.
PermissionTimeout ==
    /\ pending # NoPermission
    /\ Become(Denied([Now EXCEPT !.pending = NoPermission], pending.request))
    /\ HandlerOnly

\* The request is answered on the desktop.
DesktopAnswer(r) ==
    /\ decision[r] = "open"
    /\ \/ Become(Allowed(Now, r))
       \/ Become(Denied(Now, r))
    /\ HandlerOnly

\* A message of a session nobody waits for opens a background accumulator.
Output ==
    /\ running
    /\ acc = "none"
    /\ Become([Now EXCEPT !.acc = "background"])
    /\ HandlerOnly

\* handleComplete: the answer of a background accumulator is not a reply, and
\* the function returns before it settles anything.
Completed(s) ==
    IF IsBackground(s.acc) THEN [s EXCEPT !.acc = "none"] ELSE Settled(s)

Complete ==
    /\ running
    /\ Open = {}
    /\ Become(Completed([Now EXCEPT !.running = FALSE, !.pending = NoPermission]))
    /\ HandlerOnly

\* handleError: the session fails with whatever is open.
Fail ==
    /\ running
    /\ Become(Settled([Closed(Now) EXCEPT !.pending = NoPermission]))
    /\ HandlerOnly

\* The session is stopped on the desktop.
Stop ==
    /\ Become(Stopped(Now))
    /\ HandlerOnly

\* A turn of the desktop or of a scheduled task begins, or replaces the one that
\* runs; disposeSessionForRecreation emits no event for the replaced one.
ForeignTurn ==
    /\ foreign < MaxForeign
    /\ foreign' = foreign + 1
    /\ Become([Closed(Now) EXCEPT !.running = TRUE])
    /\ UNCHANGED <<turn, listening, aborted, starting, messages>>

\* Mutant: only background accumulators have a timer.
BackgroundTimeout ==
    /\ acc = "background"
    /\ Become([Now EXCEPT !.acc = "none"])
    /\ HandlerOnly

\* The timer of the accumulator: the turn gets what there is and the session is
\* stopped; a background accumulator is only forgotten.
AccumulatorTimeout ==
    /\ acc # "none"
    /\ \/ /\ Waits(acc)
          /\ Become(Stopped(Settled(Now)))
       \/ /\ acc = "background"
          /\ Become([Now EXCEPT !.acc = "none"])
    /\ HandlerOnly

----------------------------------------------------------------------------

Message == Task \/ Remind \/ ReplyDeny \/ ReplyAllow

Next ==
    \/ Message \/ Prepare \/ Launch \/ Started \/ StartRejected \/ Abort \/ Return
    \/ \E r \in Requests : Ask(r) \/ DesktopAnswer(r)
    \/ PermissionTimeout \/ AccumulatorTimeout
    \/ Output \/ Complete \/ Fail \/ Stop \/ ForeignTurn

\* The code of a turn goes on after its awaits, and the timers of a permission
\* and of an accumulator fire.  Nothing is assumed of the session or the user.
Fairness ==
    /\ WF_vars(Prepare) /\ WF_vars(Launch) /\ WF_vars(Return)
    /\ WF_vars(PermissionTimeout)
    /\ WF_vars(AccumulatorTimeout)

Spec == Init /\ [][Next]_vars

FairSpec == Spec /\ Fairness

----------------------------------------------------------------------------
(* Properties *)

TypeOK ==
    /\ turn \in {"idle", "setup", "launching", "awaiting"}
    /\ promise \in {"none", "pending", "settled"}
    /\ listening \in BOOLEAN
    /\ aborted \in BOOLEAN
    /\ acc \in Accumulator
    /\ pending \in Permission
    /\ running \in BOOLEAN
    /\ starting \in Nat
    /\ decision \in [Requests -> {"new", "open", "allow", "deny", "closed"}]
    /\ messages \in Nat
    /\ foreign \in Nat

\* A permission that blocks the session is the one the conversation can answer:
\* superseding, stopping, denying and completing never leave another one open,
\* whose tool call would wait with nobody to ask (handlePermissionRequest).
OpenIsPending == Open \subseteq {pending.request}

\* An accumulator somebody waits for belongs to the turn that runs: the answer
\* of a session never settles the promise of an earlier or a later message
\* (createAccumulatorPromise, cleanupAccumulator).
WaiterIsCurrent ==
    Waits(acc) => turn \in {"launching", "awaiting"} /\ promise = "pending"

\* Every permission is decided in the end, by the user, by a newer request, by
\* the end of the session or by its timer.
PermissionsDecided ==
    \A r \in Requests : (decision[r] = "open") ~> (decision[r] # "open")

\* A turn whose accumulator is its own is answered in the end, whatever the
\* session, the desktop and the request do.
OwnTurnsEnd == (turn = "awaiting" /\ acc = "turn") ~> (turn = "idle")

\* Every turn is answered in the end.
TurnsEnd == (turn # "idle") ~> (turn = "idle")

=============================================================================
