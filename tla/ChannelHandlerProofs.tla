-------------------------- MODULE ChannelHandlerProofs --------------------------
(***************************************************************************)
(* Proofs about ChannelHandler, for any set of permission requests and any *)
(* number of messages and foreign turns.                                   *)
(*                                                                         *)
(* The invariant of the module is inductive: type correctness, one open    *)
(* permission at most, and a waiting accumulator that belongs to the turn. *)
(* The events of the session act on the record Now; the first lemmas say   *)
(* what each operator on such a record changes, the rest that each action  *)
(* keeps the invariant.                                                    *)
(***************************************************************************)
EXTENDS ChannelHandler, TLAPS

Decision == {"new", "open", "allow", "deny", "closed"}

HandlerState ==
    [acc : Accumulator, pending : Permission, promise : {"none", "pending", "settled"},
     running : BOOLEAN, decision : [Requests -> Decision]]

OpenIn(s) == {r \in Requests : s.decision[r] = "open"}

IInv == TypeOK /\ OpenIsPending /\ WaiterIsCurrent

----------------------------------------------------------------------------
(* The operators on a state of the handler *)

LEMMA NowState ==
  ASSUME IInv
  PROVE  /\ Now \in HandlerState
         /\ Now.acc = acc /\ Now.pending = pending /\ Now.promise = promise
         /\ OpenIn(Now) = Open
BY DEF IInv, TypeOK, Now, HandlerState, OpenIn, Open, Decision

LEMMA SettledState ==
  ASSUME NEW s \in HandlerState
  PROVE  /\ Settled(s) \in HandlerState
         /\ Settled(s).acc = "none"
         /\ Settled(s).pending = s.pending
         /\ OpenIn(Settled(s)) = OpenIn(s)
BY DEF Settled, HandlerState, Accumulator, OpenIn

LEMMA ClosedState ==
  ASSUME NEW s \in HandlerState
  PROVE  /\ Closed(s) \in HandlerState
         /\ Closed(s).acc = s.acc /\ Closed(s).promise = s.promise
         /\ Closed(s).pending = s.pending
         /\ OpenIn(Closed(s)) = {}
<1> DEFINE closed == [r \in Requests |-> IF s.decision[r] = "open" THEN "closed"
                                         ELSE s.decision[r]]
<1>1. closed \in [Requests -> Decision] /\ \A r \in Requests : closed[r] # "open"
  BY DEF HandlerState, Decision
<1>2. Closed(s) = [s EXCEPT !.running = FALSE, !.decision = closed]
  BY DEF Closed
<1> HIDE DEF closed
<1>. QED BY <1>1, <1>2 DEF HandlerState, OpenIn

LEMMA ForgetState ==
  ASSUME NEW s \in HandlerState
  PROVE  /\ [s EXCEPT !.pending = NoPermission] \in HandlerState
         /\ [s EXCEPT !.pending = NoPermission].acc = s.acc
         /\ [s EXCEPT !.pending = NoPermission].promise = s.promise
         /\ [s EXCEPT !.pending = NoPermission].pending = NoPermission
         /\ OpenIn([s EXCEPT !.pending = NoPermission]) = OpenIn(s)
BY DEF HandlerState, Permission, OpenIn

LEMMA StoppedState ==
  ASSUME NEW s \in HandlerState
  PROVE  /\ Stopped(s) \in HandlerState
         /\ Stopped(s).acc = "none" /\ Stopped(s).pending = NoPermission
         /\ OpenIn(Stopped(s)) = {}
<1> DEFINE c == Closed(s)
<1>1. c \in HandlerState /\ OpenIn(c) = {}
  BY ClosedState
<1>2. Stopped(s) = Settled([c EXCEPT !.pending = NoPermission])
  BY DEF Stopped
<1> HIDE DEF c
<1>3. /\ [c EXCEPT !.pending = NoPermission] \in HandlerState
      /\ [c EXCEPT !.pending = NoPermission].pending = NoPermission
      /\ OpenIn([c EXCEPT !.pending = NoPermission]) = {}
  BY <1>1, ForgetState
<1>. QED BY <1>2, <1>3, SettledState

\* The decision of an open request removes it from the open ones.
LEMMA DecidedState ==
  ASSUME NEW s \in HandlerState, NEW r \in Requests, NEW d \in {"allow", "deny"}
  PROVE  /\ [s EXCEPT !.decision[r] = d] \in HandlerState
         /\ [s EXCEPT !.decision[r] = d].acc = s.acc
         /\ [s EXCEPT !.decision[r] = d].promise = s.promise
         /\ [s EXCEPT !.decision[r] = d].pending = s.pending
         /\ OpenIn([s EXCEPT !.decision[r] = d]) = OpenIn(s) \ {r}
<1> DEFINE decided == [s.decision EXCEPT ![r] = d]
<1> DEFINE t == [s EXCEPT !.decision[r] = d]
<1>1. /\ decided \in [Requests -> Decision]
      /\ \A q \in Requests : decided[q] = "open" <=> s.decision[q] = "open" /\ q # r
  BY DEF HandlerState, Decision
<1>2. /\ t.acc = s.acc /\ t.promise = s.promise /\ t.pending = s.pending
      /\ t.decision = decided
      /\ t = [acc |-> s.acc, pending |-> s.pending, promise |-> s.promise,
              running |-> s.running, decision |-> decided]
  BY DEF HandlerState
<1>3. t \in HandlerState
  <2> HIDE DEF t, decided
  <2>. QED BY <1>1, <1>2 DEF HandlerState
<1>4. OpenIn(t) = OpenIn(s) \ {r}
  <2> HIDE DEF t, decided
  <2>. QED BY <1>1, <1>2 DEF OpenIn
<1>. QED BY <1>2, <1>3, <1>4

LEMMA AllowedState ==
  ASSUME NEW s \in HandlerState, NEW r \in Requests
  PROVE  /\ Allowed(s, r) \in HandlerState
         /\ Allowed(s, r).acc = s.acc /\ Allowed(s, r).promise = s.promise
         /\ Allowed(s, r).pending = s.pending
         /\ OpenIn(Allowed(s, r)) = OpenIn(s) \ {r}
<1>1. CASE s.decision[r] # "open"
  BY <1>1 DEF Allowed, OpenIn
<1>2. CASE s.decision[r] = "open"
  <2>1. Allowed(s, r) = [s EXCEPT !.decision[r] = "allow"]
    BY <1>2 DEF Allowed
  <2>. QED BY <2>1, DecidedState
<1>. QED BY <1>1, <1>2

\* A denial leaves the accumulator, or settles it and closes everything.
LEMMA DeniedState ==
  ASSUME NEW s \in HandlerState, NEW r \in Requests
  PROVE  /\ Denied(s, r) \in HandlerState
         /\ \/ Denied(s, r).acc = s.acc /\ Denied(s, r).promise = s.promise
            \/ Denied(s, r).acc = "none"
         /\ OpenIn(Denied(s, r)) \subseteq OpenIn(s) \ {r}
         /\ Denied(s, r).pending = s.pending \/ OpenIn(Denied(s, r)) = {}
<1>1. CASE s.decision[r] # "open"
  BY <1>1 DEF Denied, OpenIn
<1>2. CASE s.decision[r] = "open"
  <2> DEFINE answered == [s EXCEPT !.decision[r] = "deny"]
  <2>1. /\ answered \in HandlerState
        /\ answered.acc = s.acc /\ answered.promise = s.promise
        /\ answered.pending = s.pending
        /\ OpenIn(answered) = OpenIn(s) \ {r}
    BY DecidedState
  <2>2. Denied(s, r) = IF r \in Questions THEN answered ELSE Stopped(answered)
    BY <1>2 DEF Denied
  <2> HIDE DEF answered
  <2>. QED BY <2>1, <2>2, StoppedState
<1>. QED BY <1>1, <1>2

LEMMA WithPromiseState ==
  ASSUME NEW s \in HandlerState, NEW kind \in {"turn", "delivery"}
  PROVE  /\ WithPromise(s, kind) \in HandlerState
         /\ WithPromise(s, kind).promise = "pending"
         /\ WithPromise(s, kind).pending = s.pending
         /\ OpenIn(WithPromise(s, kind)) = OpenIn(s)
<1> DEFINE t == Settled(s)
<1>1. t \in HandlerState /\ t.pending = s.pending /\ OpenIn(t) = OpenIn(s)
  BY SettledState
<1>2. WithPromise(s, kind) = [t EXCEPT !.acc = kind, !.promise = "pending"]
  BY DEF WithPromise
<1> HIDE DEF t
<1> DEFINE w == [t EXCEPT !.acc = kind, !.promise = "pending"]
<1>3. w \in HandlerState /\ w.promise = "pending"
  BY <1>1 DEF HandlerState, Accumulator
<1>4. w.pending = t.pending /\ w.decision = t.decision
  BY <1>1 DEF HandlerState
<1> HIDE DEF w
<1>5. OpenIn(w) = OpenIn(t)
  BY <1>4 DEF OpenIn
<1>6. WithPromise(s, kind) = w
  BY <1>2 DEF w
<1>. QED BY <1>1, <1>3, <1>4, <1>5, <1>6

----------------------------------------------------------------------------
(* A step of the handler to a state s keeps its part of the invariant *)

HandlerType ==
    /\ acc \in Accumulator
    /\ pending \in Permission
    /\ promise \in {"none", "pending", "settled"}
    /\ running \in BOOLEAN
    /\ decision \in [Requests -> Decision]

\* The part of the invariant about the permissions.
LEMMA BecomeKeeps ==
  ASSUME NEW s \in HandlerState, OpenIn(s) \subseteq {s.pending.request}, Become(s)
  PROVE  /\ HandlerType' /\ OpenIsPending'
         /\ acc' = s.acc /\ promise' = s.promise
<1>1. /\ acc' = s.acc /\ pending' = s.pending /\ promise' = s.promise
      /\ running' = s.running /\ decision' = s.decision
  BY DEF Become
<1>. QED BY <1>1 DEF HandlerState, HandlerType, OpenIn, OpenIsPending, Open

\* An event of the session: a waiting accumulator stays or goes.
LEMMA EventKeeps ==
  ASSUME IInv, NEW s \in HandlerState,
         OpenIn(s) \subseteq {s.pending.request},
         \/ s.acc = acc /\ s.promise = promise
         \/ s.acc \in {"none", "background"},
         Become(s),
         UNCHANGED <<turn, listening, aborted, messages>>,
         starting' \in Nat, foreign' \in Nat
  PROVE  IInv'
<1>1. HandlerType' /\ OpenIsPending' /\ acc' = s.acc /\ promise' = s.promise
  BY BecomeKeeps
<1>2. TypeOK'
  BY <1>1 DEF IInv, TypeOK, HandlerType, Decision
<1>3. WaiterIsCurrent'
  BY <1>1 DEF IInv, WaiterIsCurrent, Waits
<1>. QED BY <1>1, <1>2, <1>3 DEF IInv

\* A waiting turn never leaves an open request behind a forgotten permission.
LEMMA PendingOpen ==
  ASSUME IInv
  PROVE  /\ Open \subseteq {pending.request}
         /\ pending # NoPermission => pending.request \in Requests
         /\ pending = NoPermission => Open = {}
BY RequestAssumption DEF IInv, TypeOK, OpenIsPending, Open, Permission, NoPermission

----------------------------------------------------------------------------
(* Each action keeps the invariant *)

LEMMA NewMessageType ==
  ASSUME IInv, NewMessage
  PROVE  /\ listening' \in BOOLEAN /\ aborted' \in BOOLEAN
         /\ messages' \in Nat /\ starting' \in Nat /\ foreign' \in Nat
<1>1. listening' \in BOOLEAN /\ aborted' \in BOOLEAN
  BY DEF NewMessage
<1>2. messages' = messages + 1 /\ messages \in Nat
  BY DEF NewMessage, IInv, TypeOK
<1>3. starting' \in Nat /\ foreign' \in Nat
  BY DEF NewMessage, IInv, TypeOK
<1>. QED BY <1>1, <1>2, <1>3

LEMMA TaskKeeps ==
  ASSUME IInv, Task
  PROVE  IInv'
<1>1. TypeOK'
  <2>1. NewMessage
    BY DEF Task
  <2>. QED BY <2>1, NewMessageType DEF Task, IInv, TypeOK
<1>2. OpenIsPending' /\ WaiterIsCurrent'
  BY DEF Task, NewMessage, IInv, OpenIsPending, Open, WaiterIsCurrent
<1>. QED BY <1>1, <1>2 DEF IInv

LEMMA RemindKeeps ==
  ASSUME IInv, Remind
  PROVE  IInv'
<1>1. TypeOK'
  <2>1. NewMessage
    BY DEF Remind
  <2>. QED BY <2>1, NewMessageType DEF Remind, IInv, TypeOK
<1>2. OpenIsPending' /\ WaiterIsCurrent'
  BY DEF Remind, NewMessage, IInv, OpenIsPending, Open, WaiterIsCurrent
<1>. QED BY <1>1, <1>2 DEF IInv

LEMMA ReplyDenyKeeps ==
  ASSUME IInv, ReplyDeny
  PROVE  IInv'
<1> DEFINE f == [Now EXCEPT !.pending = NoPermission]
<1>1. /\ f \in HandlerState /\ f.acc = acc /\ f.promise = promise
      /\ f.pending = NoPermission /\ OpenIn(f) = Open
  BY NowState, ForgetState
<1>2. /\ pending.request \in Requests
      /\ Become(Denied(f, pending.request))
      /\ UNCHANGED turn /\ NewMessage
  BY PendingOpen DEF ReplyDeny
<1> DEFINE d == Denied(f, pending.request)
<1> HIDE DEF f
<1>3. /\ d \in HandlerState
      /\ d.acc = acc \/ d.acc = "none"
      /\ OpenIn(d) = {}
  BY <1>1, <1>2, DeniedState, PendingOpen
<1>4. Become(d)
  BY <1>2
<1> HIDE DEF d
<1>5. HandlerType' /\ OpenIsPending' /\ acc' = d.acc
  BY <1>3, <1>4, BecomeKeeps
<1>6. TypeOK'
  BY <1>2, <1>5, NewMessageType DEF IInv, TypeOK, HandlerType, Decision
<1>7. WaiterIsCurrent'
  BY <1>2, <1>3, <1>5 DEF NewMessage, IInv, WaiterIsCurrent, Waits
<1>. QED BY <1>5, <1>6, <1>7 DEF IInv

LEMMA ReplyAllowKeeps ==
  ASSUME IInv, ReplyAllow
  PROVE  IInv'
<1> DEFINE f == [Now EXCEPT !.pending = NoPermission]
<1> DEFINE kind == IF pending.background THEN "delivery" ELSE "turn"
<1>1. f \in HandlerState /\ f.pending = NoPermission /\ OpenIn(f) = Open
  BY NowState, ForgetState
<1>2. /\ pending.request \in Requests
      /\ Become(Allowed(WithPromise(f, kind), pending.request))
      /\ turn' = "awaiting" /\ NewMessage
  BY PendingOpen DEF ReplyAllow
<1> HIDE DEF f
<1> DEFINE w == WithPromise(f, kind)
<1>3. w \in HandlerState /\ w.promise = "pending" /\ OpenIn(w) = Open
  BY <1>1, WithPromiseState
<1>4. Become(Allowed(w, pending.request))
  BY <1>2
<1> HIDE DEF w
<1> DEFINE a == Allowed(w, pending.request)
<1>5. a \in HandlerState /\ a.promise = "pending" /\ OpenIn(a) = {}
  BY <1>2, <1>3, AllowedState, PendingOpen
<1> HIDE DEF a
<1>6. Become(a)
  BY <1>4 DEF a
<1>7. HandlerType' /\ OpenIsPending' /\ promise' = "pending"
  BY <1>5, <1>6, BecomeKeeps
<1>8. TypeOK'
  BY <1>2, <1>7, NewMessageType DEF IInv, TypeOK, HandlerType, Decision
<1>9. WaiterIsCurrent'
  BY <1>2, <1>7 DEF WaiterIsCurrent
<1>. QED BY <1>7, <1>8, <1>9 DEF IInv

LEMMA PrepareKeeps ==
  ASSUME IInv, Prepare
  PROVE  IInv'
<1> DEFINE w == WithPromise(Now, "turn")
<1>1. /\ w \in HandlerState /\ w.promise = "pending" /\ w.pending = pending
      /\ OpenIn(w) = Open
  BY NowState, WithPromiseState
<1>2. listening' \in BOOLEAN /\ UNCHANGED <<aborted, starting, messages, foreign>>
  BY DEF Prepare, IInv, TypeOK
<1>3. CASE Become(w) /\ turn' = "launching"
  <2>1. HandlerType' /\ OpenIsPending' /\ promise' = "pending"
    <3> HIDE DEF w
    <3>. QED BY <1>1, <1>3, BecomeKeeps, PendingOpen
  <2>2. TypeOK'
    BY <1>2, <1>3, <2>1 DEF IInv, TypeOK, HandlerType, Decision
  <2>3. WaiterIsCurrent'
    BY <1>3, <2>1 DEF WaiterIsCurrent
  <2>. QED BY <2>1, <2>2, <2>3 DEF IInv
<1>4. CASE Become(Stopped(Settled(w))) /\ turn' = "awaiting"
  <2> HIDE DEF w
  <2> DEFINE s == Stopped(Settled(w))
  <2>1. s \in HandlerState /\ s.acc = "none" /\ OpenIn(s) = {}
    BY <1>1, SettledState, StoppedState
  <2>2. Become(s)
    BY <1>4
  <2> HIDE DEF s
  <2>3. HandlerType' /\ OpenIsPending' /\ acc' = "none"
    BY <2>1, <2>2, BecomeKeeps
  <2>4. TypeOK'
    BY <1>2, <1>4, <2>3 DEF IInv, TypeOK, HandlerType, Decision
  <2>5. WaiterIsCurrent'
    BY <2>3 DEF WaiterIsCurrent, Waits
  <2>. QED BY <2>3, <2>4, <2>5 DEF IInv
<1>. QED BY <1>3, <1>4 DEF Prepare

LEMMA LaunchKeeps ==
  ASSUME IInv, Launch
  PROVE  IInv'
<1>1. CASE starting' = starting + 1 /\ UNCHANGED handlerVars
  <2>1. TypeOK'
    BY <1>1 DEF Launch, handlerVars, IInv, TypeOK
  <2>2. OpenIsPending' /\ WaiterIsCurrent'
    BY <1>1 DEF Launch, handlerVars, IInv, OpenIsPending, Open, WaiterIsCurrent
  <2>. QED BY <2>1, <2>2 DEF IInv
<1>2. CASE Become(Settled(Now)) /\ UNCHANGED starting
  <2> DEFINE s == Settled(Now)
  <2>1. /\ s \in HandlerState /\ s.acc = "none"
        /\ OpenIn(s) \subseteq {s.pending.request}
    BY NowState, SettledState, PendingOpen
  <2>2. Become(s)
    BY <1>2
  <2> HIDE DEF s
  <2>3. HandlerType' /\ OpenIsPending' /\ acc' = "none"
    BY <2>1, <2>2, BecomeKeeps
  <2>4. TypeOK'
    BY <1>2, <2>3 DEF Launch, IInv, TypeOK, HandlerType, Decision
  <2>5. WaiterIsCurrent'
    BY <2>3 DEF WaiterIsCurrent, Waits
  <2>. QED BY <2>3, <2>4, <2>5 DEF IInv
<1>. QED BY <1>1, <1>2 DEF Launch

LEMMA StartedKeeps ==
  ASSUME IInv, Started
  PROVE  IInv'
<1>1. TypeOK'
  BY DEF Started, IInv, TypeOK
<1>2. OpenIsPending' /\ WaiterIsCurrent'
  BY DEF Started, IInv, OpenIsPending, Open, WaiterIsCurrent
<1>. QED BY <1>1, <1>2 DEF IInv

LEMMA StartRejectedKeeps ==
  ASSUME IInv, StartRejected
  PROVE  IInv'
<1>1. /\ Settled(Now) \in HandlerState /\ Settled(Now).acc = "none"
      /\ OpenIn(Settled(Now)) \subseteq {Settled(Now).pending.request}
  BY NowState, SettledState, PendingOpen
<1>2. starting' \in Nat /\ foreign' \in Nat
  BY DEF StartRejected, IInv, TypeOK
<1>3. /\ Become(Settled(Now))
      /\ UNCHANGED <<turn, listening, aborted, messages>>
  BY DEF StartRejected
<1>. QED BY <1>1, <1>2, <1>3, EventKeeps

LEMMA AbortKeeps ==
  ASSUME IInv, Abort
  PROVE  IInv'
<1>1. CASE Become(Stopped(Settled(Now)))
  <2> DEFINE s == Stopped(Settled(Now))
  <2>1. s \in HandlerState /\ s.acc = "none" /\ OpenIn(s) = {}
    BY NowState, SettledState, StoppedState
  <2>2. Become(s)
    BY <1>1
  <2> HIDE DEF s
  <2>3. HandlerType' /\ OpenIsPending' /\ acc' = "none"
    BY <2>1, <2>2, BecomeKeeps
  <2>4. TypeOK'
    BY <2>3 DEF Abort, IInv, TypeOK, HandlerType, Decision
  <2>5. WaiterIsCurrent'
    BY <2>3 DEF WaiterIsCurrent, Waits
  <2>. QED BY <2>3, <2>4, <2>5 DEF IInv
<1>2. CASE UNCHANGED handlerVars
  <2>1. TypeOK'
    BY <1>2 DEF Abort, handlerVars, IInv, TypeOK
  <2>2. OpenIsPending' /\ WaiterIsCurrent'
    BY <1>2 DEF Abort, handlerVars, IInv, OpenIsPending, Open, WaiterIsCurrent
  <2>. QED BY <2>1, <2>2 DEF IInv
<1>. QED BY <1>1, <1>2 DEF Abort

LEMMA ReturnKeeps ==
  ASSUME IInv, Return
  PROVE  IInv'
<1>1. TypeOK'
  BY DEF Return, IInv, TypeOK
<1>2. OpenIsPending'
  BY DEF Return, IInv, OpenIsPending, Open
<1>3. WaiterIsCurrent'
  BY DEF Return, IInv, WaiterIsCurrent, Waits
<1>. QED BY <1>1, <1>2, <1>3 DEF IInv

----------------------------------------------------------------------------
(* Events of the session *)

\* What HandlerOnly leaves alone.
LEMMA HandlerOnlyKeeps ==
  ASSUME IInv, HandlerOnly
  PROVE  /\ UNCHANGED <<turn, listening, aborted, messages>>
         /\ starting' \in Nat /\ foreign' \in Nat
BY DEF HandlerOnly, IInv, TypeOK

LEMMA AskKeeps ==
  ASSUME IInv, NEW r \in Requests, Ask(r)
  PROVE  IInv'
<1> DEFINE asked == [Now EXCEPT !.decision[r] = "open"]
<1> DEFINE forgot == [asked EXCEPT !.pending = NoPermission]
<1> DEFINE alone == IF pending = NoPermission THEN asked
                    ELSE Denied(forgot, pending.request)
<1> DEFINE background == IF alone.acc # "none" THEN IsBackground(alone.acc)
                         ELSE pending.background
<1> DEFINE placed == [alone EXCEPT !.pending = [request |-> r, background |-> background]]
<1>1. asked \in HandlerState /\ OpenIn(asked) = Open \cup {r}
  <2> DEFINE opened == [decision EXCEPT ![r] = "open"]
  <2>1. /\ opened \in [Requests -> Decision]
        /\ \A q \in Requests : opened[q] = "open" <=> decision[q] = "open" \/ q = r
    BY DEF IInv, TypeOK, Decision
  <2>2. asked = [acc |-> acc, pending |-> pending, promise |-> promise,
                 running |-> running, decision |-> opened]
    BY DEF Now
  <2> HIDE DEF opened
  <2>. QED BY <2>1, <2>2 DEF HandlerState, OpenIn, Open, IInv, TypeOK
<1>2. alone \in HandlerState /\ OpenIn(alone) \subseteq {r}
  <2> HIDE DEF asked
  <2>1. CASE pending = NoPermission
    BY <1>1, <2>1, PendingOpen
  <2>2. CASE pending # NoPermission
    <3>1. forgot \in HandlerState /\ OpenIn(forgot) = Open \cup {r}
      BY <1>1, ForgetState
    <3> HIDE DEF forgot
    <3>2. pending.request \in Requests /\ Open \subseteq {pending.request}
      BY <2>2, PendingOpen
    <3>. QED BY <2>2, <3>1, <3>2, DeniedState
  <2>. QED BY <2>1, <2>2
<1>3. background \in BOOLEAN
  <2>1. IsBackground(alone.acc) \in BOOLEAN
    BY DEF IsBackground
  <2>2. pending.background \in BOOLEAN
    <3>1. CASE pending \in [request : Requests, background : BOOLEAN]
      BY <3>1
    <3>2. CASE pending = [request |-> "none", background |-> FALSE]
      <4>1. pending.background = FALSE
        BY <3>2
      <4>. QED BY <4>1
    <3>. QED BY <3>1, <3>2 DEF IInv, TypeOK, Permission, NoPermission
  <2> HIDE DEF alone
  <2>. QED BY <2>1, <2>2
<1>4. Become(Settled(placed)) /\ HandlerOnly
  BY DEF Ask
<1>5. placed \in HandlerState /\ placed.pending.request = r /\ OpenIn(placed) \subseteq {r}
  <2> HIDE DEF alone, background
  <2>. QED BY <1>2, <1>3 DEF HandlerState, Permission, OpenIn
<1> HIDE DEF placed
<1>6. /\ Settled(placed) \in HandlerState /\ Settled(placed).acc = "none"
      /\ OpenIn(Settled(placed)) \subseteq {Settled(placed).pending.request}
  BY <1>5, SettledState
<1>. QED BY <1>4, <1>6, HandlerOnlyKeeps, EventKeeps

LEMMA PermissionTimeoutKeeps ==
  ASSUME IInv, PermissionTimeout
  PROVE  IInv'
<1> DEFINE f == [Now EXCEPT !.pending = NoPermission]
<1>1. /\ f \in HandlerState /\ f.acc = acc /\ f.promise = promise
      /\ OpenIn(f) = Open
  BY NowState, ForgetState
<1>2. /\ pending.request \in Requests
      /\ Become(Denied(f, pending.request)) /\ HandlerOnly
  BY PendingOpen DEF PermissionTimeout
<1> HIDE DEF f
<1> DEFINE d == Denied(f, pending.request)
<1>3. /\ d \in HandlerState /\ OpenIn(d) = {}
      /\ \/ d.acc = acc /\ d.promise = promise
         \/ d.acc \in {"none", "background"}
  BY <1>1, <1>2, DeniedState, PendingOpen
<1>. QED BY <1>2, <1>3, HandlerOnlyKeeps, EventKeeps

LEMMA DesktopAnswerKeeps ==
  ASSUME IInv, NEW r \in Requests, DesktopAnswer(r)
  PROVE  IInv'
<1>1. /\ Allowed(Now, r) \in HandlerState
      /\ Allowed(Now, r).acc = acc /\ Allowed(Now, r).promise = promise
      /\ OpenIn(Allowed(Now, r)) \subseteq {Allowed(Now, r).pending.request}
  BY NowState, AllowedState, PendingOpen
<1>2. /\ Denied(Now, r) \in HandlerState
      /\ \/ Denied(Now, r).acc = acc /\ Denied(Now, r).promise = promise
         \/ Denied(Now, r).acc \in {"none", "background"}
      /\ OpenIn(Denied(Now, r)) \subseteq {Denied(Now, r).pending.request}
  BY NowState, DeniedState, PendingOpen
<1>3. HandlerOnly /\ (Become(Allowed(Now, r)) \/ Become(Denied(Now, r)))
  BY DEF DesktopAnswer
<1>. QED BY <1>1, <1>2, <1>3, HandlerOnlyKeeps, EventKeeps

LEMMA OutputKeeps ==
  ASSUME IInv, Output
  PROVE  IInv'
<1> DEFINE s == [Now EXCEPT !.acc = "background"]
<1>1. /\ s \in HandlerState /\ s.acc = "background"
      /\ OpenIn(s) \subseteq {s.pending.request}
  BY NowState, PendingOpen DEF HandlerState, Accumulator, OpenIn
<1>2. Become(s) /\ HandlerOnly
  BY DEF Output
<1> HIDE DEF s
<1>. QED BY <1>1, <1>2, HandlerOnlyKeeps, EventKeeps

LEMMA CompleteKeeps ==
  ASSUME IInv, Complete
  PROVE  IInv'
<1> DEFINE s == [Now EXCEPT !.running = FALSE, !.pending = NoPermission]
<1>1. s \in HandlerState /\ OpenIn(s) = {}
  <2>1. Open = {}
    BY DEF Complete
  <2>. QED BY <2>1, NowState DEF HandlerState, Permission, OpenIn
<1>2. Become(Completed(s)) /\ HandlerOnly
  BY DEF Complete
<1> HIDE DEF s
<1>3. /\ Completed(s) \in HandlerState /\ Completed(s).acc = "none"
      /\ OpenIn(Completed(s)) = {}
  <2>1. CASE IsBackground(s.acc)
    BY <1>1, <2>1 DEF Completed, HandlerState, Accumulator, OpenIn
  <2>2. CASE ~ IsBackground(s.acc)
    BY <1>1, <2>2, SettledState DEF Completed
  <2>. QED BY <2>1, <2>2
<1>. QED BY <1>2, <1>3, HandlerOnlyKeeps, EventKeeps

LEMMA FailKeeps ==
  ASSUME IInv, Fail
  PROVE  IInv'
<1> DEFINE c == Closed(Now)
<1>1. c \in HandlerState /\ OpenIn(c) = {}
  BY NowState, ClosedState
<1>2. Become(Settled([c EXCEPT !.pending = NoPermission])) /\ HandlerOnly
  BY DEF Fail
<1> HIDE DEF c
<1> DEFINE f == [c EXCEPT !.pending = NoPermission]
<1>3. f \in HandlerState /\ OpenIn(f) = {}
  BY <1>1, ForgetState
<1> HIDE DEF f
<1>4. /\ Settled(f) \in HandlerState /\ Settled(f).acc = "none"
      /\ OpenIn(Settled(f)) = {}
  BY <1>3, SettledState
<1>5. Become(Settled(f))
  BY <1>2 DEF f
<1>. QED BY <1>2, <1>4, <1>5, HandlerOnlyKeeps, EventKeeps

LEMMA StopKeeps ==
  ASSUME IInv, Stop
  PROVE  IInv'
<1>1. /\ Stopped(Now) \in HandlerState /\ Stopped(Now).acc = "none"
      /\ OpenIn(Stopped(Now)) = {}
  BY NowState, StoppedState
<1>2. Become(Stopped(Now)) /\ HandlerOnly
  BY DEF Stop
<1>. QED BY <1>1, <1>2, HandlerOnlyKeeps, EventKeeps

LEMMA ForeignTurnKeeps ==
  ASSUME IInv, ForeignTurn
  PROVE  IInv'
<1> DEFINE c == Closed(Now)
<1> DEFINE s == [c EXCEPT !.running = TRUE]
<1>1. c \in HandlerState /\ c.acc = acc /\ c.promise = promise /\ OpenIn(c) = {}
  BY NowState, ClosedState
<1>2. Become(s) /\ UNCHANGED <<turn, listening, aborted, starting, messages>>
  BY DEF ForeignTurn
<1> HIDE DEF c
<1>3. s \in HandlerState /\ s.acc = acc /\ s.promise = promise /\ OpenIn(s) = {}
  BY <1>1 DEF HandlerState, OpenIn
<1>4. starting' \in Nat /\ foreign' \in Nat
  BY DEF ForeignTurn, IInv, TypeOK
<1> HIDE DEF s
<1>. QED BY <1>2, <1>3, <1>4, EventKeeps

LEMMA AccumulatorTimeoutKeeps ==
  ASSUME IInv, AccumulatorTimeout
  PROVE  IInv'
<1>1. CASE Become(Stopped(Settled(Now))) /\ HandlerOnly
  <2> DEFINE s == Stopped(Settled(Now))
  <2>1. s \in HandlerState /\ s.acc = "none" /\ OpenIn(s) = {}
    BY NowState, SettledState, StoppedState
  <2>2. Become(s)
    BY <1>1
  <2> HIDE DEF s
  <2>. QED BY <1>1, <2>1, <2>2, HandlerOnlyKeeps, EventKeeps
<1>2. CASE Become([Now EXCEPT !.acc = "none"]) /\ HandlerOnly
  <2> DEFINE s == [Now EXCEPT !.acc = "none"]
  <2>1. s \in HandlerState /\ s.acc = "none" /\ OpenIn(s) \subseteq {s.pending.request}
    BY NowState, PendingOpen DEF HandlerState, Accumulator, OpenIn
  <2>2. Become(s)
    BY <1>2
  <2> HIDE DEF s
  <2>. QED BY <1>2, <2>1, <2>2, HandlerOnlyKeeps, EventKeeps
<1>. QED BY <1>1, <1>2 DEF AccumulatorTimeout

----------------------------------------------------------------------------
(* The invariant holds *)

LEMMA InitKeeps == Init => IInv
<1> SUFFICES ASSUME Init PROVE IInv
  OBVIOUS
<1>1. TypeOK
  BY DEF Init, TypeOK, Accumulator, Permission
<1>2. OpenIsPending /\ WaiterIsCurrent
  BY DEF Init, OpenIsPending, Open, WaiterIsCurrent, Waits
<1>. QED BY <1>1, <1>2 DEF IInv

LEMMA NextKeeps ==
  ASSUME IInv, [Next]_vars
  PROVE  IInv'
<1>1. CASE Message
  BY <1>1, TaskKeeps, RemindKeeps, ReplyDenyKeeps, ReplyAllowKeeps DEF Message
<1>2. CASE Prepare \/ Launch \/ Started \/ StartRejected \/ Abort \/ Return
  BY <1>2, PrepareKeeps, LaunchKeeps, StartedKeeps, StartRejectedKeeps, AbortKeeps,
     ReturnKeeps
<1>3. CASE \E r \in Requests : Ask(r) \/ DesktopAnswer(r)
  <2>1. PICK r \in Requests : Ask(r) \/ DesktopAnswer(r)
    BY <1>3
  <2>. QED BY <2>1, AskKeeps, DesktopAnswerKeeps
<1>4. CASE PermissionTimeout \/ AccumulatorTimeout
  BY <1>4, PermissionTimeoutKeeps, AccumulatorTimeoutKeeps
<1>5. CASE Output \/ Complete \/ Fail \/ Stop \/ ForeignTurn
  BY <1>5, OutputKeeps, CompleteKeeps, FailKeeps, StopKeeps, ForeignTurnKeeps
<1>6. CASE UNCHANGED vars
  <2>1. TypeOK'
    BY <1>6 DEF vars, IInv, TypeOK
  <2>2. OpenIsPending' /\ WaiterIsCurrent'
    BY <1>6 DEF vars, IInv, OpenIsPending, Open, WaiterIsCurrent
  <2>. QED BY <2>1, <2>2 DEF IInv
<1>. QED BY <1>1, <1>2, <1>3, <1>4, <1>5, <1>6 DEF Next

LEMMA Invariance == Spec => []IInv
<1>. QED BY InitKeeps, NextKeeps, PTL DEF Spec

----------------------------------------------------------------------------

\* Every variable of the handler keeps its type: an accumulator is one of four
\* kinds, a permission is decided once, no promise is counted below zero.
THEOREM TypeCorrect == Spec => []TypeOK
<1>1. IInv => TypeOK
  BY DEF IInv
<1>. QED BY <1>1, Invariance, PTL

\* The only permission that blocks the session is the one the conversation can
\* answer, for any number of requests, messages and turns.
THEOREM OnePermissionOpen == Spec => []OpenIsPending
<1>1. IInv => OpenIsPending
  BY DEF IInv
<1>. QED BY <1>1, Invariance, PTL

\* The session never settles the promise of another message: an accumulator
\* somebody waits for belongs to the turn that runs.
THEOREM AnswersReachTheirTurn == Spec => []WaiterIsCurrent
<1>1. IInv => WaiterIsCurrent
  BY DEF IInv
<1>. QED BY <1>1, Invariance, PTL

=============================================================================
