--------------------------- MODULE ChannelTurnsProofs ---------------------------
(***************************************************************************)
(* Proofs about ChannelTurns, for any messages, conversations and limits,  *)
(* and the proof that it implements TurnQueue.                             *)
(*                                                                         *)
(* The invariant ties the parts of the coordinator together: the line of a *)
(* conversation holds its operations in flight, each once (Lined); a turn  *)
(* that has passed its predecessor is the oldest of its line (Fronted);    *)
(* the permit queue holds the waiting turns, each once (Permitted); the    *)
(* rows agree with the turns (ProcessingIsExecuting, AnsweredAtRest); the  *)
(* permits add up (Counted).                                               *)
(***************************************************************************)
EXTENDS ChannelTurns, FiniteSetTheorems, TLAPS

Rest == {"none", "settled"}

Distinct(s) == \A i, j \in 1..Len(s) : s[i] = s[j] => i = j

Lined ==
    \A c \in Conversations :
        /\ Distinct(queue[c])
        /\ ToSet(queue[c]) = {m \in Messages : ConversationOf[m] = c /\ phase[m] \notin Rest}

Fronted == \A m \in Messages : phase[m] \in InTurn => IsOldest(m)

Permitted ==
    /\ Distinct(permits)
    /\ ToSet(permits) = {m \in Messages : phase[m] = "waiting"}

AnsweredAtRest == \A m \in Messages : inbox[m] = "completed" => phase[m] \in Rest

Counted == IsFiniteSet(Holders) /\ IsFiniteSet(Woken) /\ PermitsNotLost

IInv ==
    /\ TypeOK
    /\ Lined
    /\ Fronted
    /\ Permitted
    /\ ProcessingIsExecuting
    /\ AnsweredAtRest
    /\ Counted

----------------------------------------------------------------------------
(* Lines *)

LEMMA EmptyLine ==
  /\ << >> \in Seq(Messages)
  /\ Distinct(<< >>) /\ ToSet(<< >>) = {}
BY DEF Distinct, ToSet

LEMMA AppendLine ==
  ASSUME NEW s \in Seq(Messages), NEW x \in Messages, Distinct(s), x \notin ToSet(s)
  PROVE  /\ Append(s, x) \in Seq(Messages)
         /\ Distinct(Append(s, x))
         /\ ToSet(Append(s, x)) = ToSet(s) \cup {x}
         /\ Append(s, x) # << >>
         /\ s # << >> => Head(Append(s, x)) = Head(s)
<1> DEFINE t == Append(s, x)
<1>1. /\ t \in Seq(Messages) /\ Len(t) = Len(s) + 1 /\ Len(s) \in Nat
      /\ \A i \in 1..Len(s) : t[i] = s[i]
      /\ t[Len(s) + 1] = x
      /\ DOMAIN s = 1..Len(s) /\ DOMAIN t = 1..Len(t)
  OBVIOUS
<1>2. ToSet(s) = {s[i] : i \in 1..Len(s)} /\ ToSet(t) = {t[i] : i \in 1..Len(t)}
  BY <1>1 DEF ToSet
<1> HIDE DEF t
<1>3. \A i \in 1..Len(s) : s[i] # x
  BY <1>2
<1>4. Distinct(t)
  <2> SUFFICES ASSUME NEW i \in 1..Len(t), NEW j \in 1..Len(t), t[i] = t[j] PROVE i = j
    BY DEF Distinct
  <2>1. i \in 1..Len(s) \/ i = Len(s) + 1
    BY <1>1
  <2>2. j \in 1..Len(s) \/ j = Len(s) + 1
    BY <1>1
  <2>. QED BY <1>1, <1>3, <2>1, <2>2 DEF Distinct
<1>5. ToSet(t) = ToSet(s) \cup {x}
  <2>1. 1..Len(t) = 1..Len(s) \cup {Len(s) + 1}
    BY <1>1
  <2>. QED BY <1>1, <1>2, <2>1
<1>6. t # << >>
  BY <1>1
<1>7. s # << >> => Head(t) = Head(s)
  BY DEF t
<1>. QED BY <1>1, <1>4, <1>5, <1>6, <1>7 DEF t

LEMMA TailLine ==
  ASSUME NEW s \in Seq(Messages), s # << >>, Distinct(s)
  PROVE  /\ Tail(s) \in Seq(Messages)
         /\ Head(s) \in ToSet(s) /\ Head(s) \in Messages
         /\ Distinct(Tail(s))
         /\ ToSet(Tail(s)) = ToSet(s) \ {Head(s)}
<1> DEFINE t == Tail(s)
<1>1. /\ t \in Seq(Messages) /\ Len(t) = Len(s) - 1 /\ Len(s) \in Nat \ {0}
      /\ \A i \in 1..Len(t) : t[i] = s[i + 1]
      /\ Head(s) = s[1] /\ Head(s) \in Messages
      /\ DOMAIN s = 1..Len(s) /\ DOMAIN t = 1..Len(t)
  OBVIOUS
<1>2. ToSet(s) = {s[i] : i \in 1..Len(s)} /\ ToSet(t) = {t[i] : i \in 1..Len(t)}
  BY <1>1 DEF ToSet
<1> HIDE DEF t
<1>3. Distinct(t)
  <2> SUFFICES ASSUME NEW i \in 1..Len(t), NEW j \in 1..Len(t), t[i] = t[j] PROVE i = j
    BY DEF Distinct
  <2>1. i + 1 \in 1..Len(s) /\ j + 1 \in 1..Len(s) /\ s[i + 1] = s[j + 1]
    BY <1>1
  <2>2. i + 1 = j + 1
    BY <2>1 DEF Distinct
  <2>. QED BY <2>2
<1>4. 1 \in 1..Len(s)
  BY <1>1
<1>5. ASSUME NEW x \in ToSet(t) PROVE x \in ToSet(s) \ {Head(s)}
  <2>1. PICK i \in 1..Len(t) : x = t[i]
    BY <1>2
  <2>2. i + 1 \in 1..Len(s) /\ x = s[i + 1] /\ i + 1 # 1
    BY <1>1, <2>1
  <2>3. s[i + 1] # s[1]
    BY <1>4, <2>2 DEF Distinct
  <2>. QED BY <1>1, <1>2, <2>2, <2>3
<1>6. ASSUME NEW x \in ToSet(s), x # Head(s) PROVE x \in ToSet(t)
  <2>1. PICK i \in 1..Len(s) : x = s[i]
    BY <1>2
  <2>2. i # 1
    BY <1>1, <1>6, <2>1
  <2>3. i - 1 \in 1..Len(t)
    BY <1>1, <2>2
  <2>4. t[i - 1] = s[(i - 1) + 1] /\ (i - 1) + 1 = i
    BY <1>1, <2>3
  <2>. QED BY <1>2, <2>1, <2>3, <2>4
<1>7. Head(s) \in ToSet(s)
  BY <1>1, <1>2, <1>4
<1>. QED BY <1>1, <1>3, <1>5, <1>6, <1>7 DEF t

LEMMA NonemptyLine ==
  ASSUME NEW s \in Seq(Messages), NEW x \in ToSet(s)
  PROVE  s # << >>
BY DEF ToSet

----------------------------------------------------------------------------
(* What a step may do to a part of the invariant *)

\* A message in flight is in the line of its conversation.
LEMMA InFlightIsLined ==
  ASSUME IInv, NEW m \in Messages, phase[m] \notin Rest
  PROVE  /\ ConversationOf[m] \in Conversations
         /\ m \in ToSet(queue[ConversationOf[m]])
         /\ queue[ConversationOf[m]] \in Seq(Messages)
         /\ queue[ConversationOf[m]] # << >>
<1>1. /\ ConversationOf[m] \in Conversations
      /\ queue[ConversationOf[m]] \in Seq(Messages)
  BY ConversationAssumption DEF IInv, TypeOK
<1>2. m \in ToSet(queue[ConversationOf[m]])
  BY <1>1 DEF IInv, Lined
<1>. QED BY <1>1, <1>2, NonemptyLine

LEMMA LinedSame ==
  ASSUME Lined, queue' = queue,
         \A x \in Messages : phase'[x] \in Rest <=> phase[x] \in Rest
  PROVE  Lined'
BY DEF Lined

LEMMA FrontedSame ==
  ASSUME Fronted, queue' = queue,
         \A x \in Messages : phase'[x] \in InTurn => phase[x] \in InTurn \/ IsOldest(x)
  PROVE  Fronted'
BY DEF Fronted, IsOldest

LEMMA PermittedSame ==
  ASSUME Permitted, permits' = permits,
         \A x \in Messages : phase'[x] = "waiting" <=> phase[x] = "waiting"
  PROVE  Permitted'
BY DEF Permitted

\* The same turns hold a permit or are woken.
LEMMA CountedSame ==
  ASSUME Counted, active' = active, permits' = permits,
         \A x \in Messages : /\ phase'[x] \in Holding <=> phase[x] \in Holding
                             /\ phase'[x] = "woken" <=> phase[x] = "woken"
  PROVE  Counted'
<1>1. Holders' = Holders /\ Woken' = Woken
  BY DEF Holders, Woken
<1>. QED BY <1>1 DEF Counted, PermitsNotLost

SameOrWoken(x) ==
    \/ phase'[x] = phase[x]
    \/ phase[x] = "waiting" /\ phase'[x] = "woken"

\* The oldest operation of a conversation settles: its line goes on.
LEMMA SettleKeeps ==
  ASSUME IInv, NEW m \in Messages, phase[m] \notin Rest, IsOldest(m),
         phase'[m] = "settled",
         \A x \in Messages : x # m => SameOrWoken(x),
         queue' = [queue EXCEPT ![ConversationOf[m]] = Tail(@)]
  PROVE  /\ queue' \in [Conversations -> Seq(Messages)]
         /\ Lined' /\ Fronted'
<1> DEFINE c == ConversationOf[m]
<1>1. /\ c \in Conversations /\ queue[c] \in Seq(Messages)
      /\ queue[c] # << >> /\ Head(queue[c]) = m
      /\ Distinct(queue[c])
  BY InFlightIsLined DEF IsOldest, IInv, Lined
<1>2. /\ Tail(queue[c]) \in Seq(Messages) /\ Distinct(Tail(queue[c]))
      /\ ToSet(Tail(queue[c])) = ToSet(queue[c]) \ {m}
  BY <1>1, TailLine
<1>3. /\ queue'[c] = Tail(queue[c])
      /\ \A d \in Conversations : d # c => queue'[d] = queue[d]
      /\ queue' \in [Conversations -> Seq(Messages)]
  BY <1>1, <1>2 DEF IInv, TypeOK
<1>4. \A x \in Messages : phase'[x] \notin Rest <=> phase[x] \notin Rest /\ x # m
  BY DEF Rest, SameOrWoken
<1>5. Lined'
  <2> SUFFICES ASSUME NEW d \in Conversations
               PROVE  /\ Distinct(queue'[d])
                      /\ ToSet(queue'[d]) = {x \in Messages : ConversationOf[x] = d
                                                              /\ phase'[x] \notin Rest}
    BY DEF Lined
  <2>1. /\ Distinct(queue[d])
        /\ ToSet(queue[d]) = {x \in Messages : ConversationOf[x] = d /\ phase[x] \notin Rest}
    BY DEF IInv, Lined
  <2>2. CASE d = c
    BY <1>2, <1>3, <1>4, <2>1, <2>2
  <2>3. CASE d # c
    BY <1>3, <1>4, <2>1, <2>3
  <2>. QED BY <2>2, <2>3
<1>6. Fronted'
  <2> SUFFICES ASSUME NEW x \in Messages, phase'[x] \in InTurn
               PROVE  IsOldest(x)'
    BY DEF Fronted
  <2>1. x # m /\ phase[x] \in InTurn
    BY DEF InTurn, Holding, SameOrWoken
  <2>2. IsOldest(x)
    BY <2>1 DEF IInv, Fronted
  <2>3. ConversationOf[x] # c /\ ConversationOf[x] \in Conversations
    BY <1>1, <2>1, <2>2, ConversationAssumption DEF IsOldest
  <2>. QED BY <1>3, <2>2, <2>3 DEF IsOldest
<1>. QED BY <1>3, <1>5, <1>6

\* A turn that holds a permit settles and gives the permit back.
LEMMA ReleaseKeeps ==
  ASSUME IInv, NEW m \in Messages, phase[m] \in Holding,
         Release, phase' = [ReleasedPhase EXCEPT ![m] = "settled"]
  PROVE  /\ phase' \in [Messages -> Phase] /\ active' \in Nat
         /\ permits' \in Seq(Messages)
         /\ Permitted' /\ Counted'
         /\ phase'[m] = "settled"
         /\ \A x \in Messages : x # m => SameOrWoken(x)
<1>1. /\ phase \in [Messages -> Phase] /\ permits \in Seq(Messages)
      /\ active \in Nat /\ IsFiniteSet(Holders) /\ IsFiniteSet(Woken)
      /\ active = Cardinality(Holders)
      /\ permits # << >> => active + Cardinality(Woken) >= MaxConcurrency
      /\ Distinct(permits)
      /\ ToSet(permits) = {x \in Messages : phase[x] = "waiting"}
  BY DEF IInv, TypeOK, Counted, PermitsNotLost, Permitted
<1>2. m \in Holders
  BY DEF Holders
<1>3. /\ IsFiniteSet(Holders \ {m})
      /\ Cardinality(Holders \ {m}) = active - 1
  BY <1>1, <1>2, FS_RemoveElement
<1>4. active' = active - 1 /\ active' \in Nat
  <2>1. Cardinality(Holders \ {m}) \in Nat
    BY <1>3, FS_CardinalityType
  <2>. QED BY <1>3, <2>1 DEF Release
<1>5. CASE permits = << >>
  <2>1. /\ phase' = [phase EXCEPT ![m] = "settled"] /\ permits' = permits
        /\ phase' \in [Messages -> Phase]
    BY <1>1, <1>5 DEF Release, ReleasedPhase, Phase
  <2>2. Holders' = Holders \ {m} /\ Woken' = Woken
    BY <1>1, <2>1 DEF Holders, Woken, Holding
  <2>3. Counted'
    BY <1>1, <1>3, <1>4, <1>5, <2>1, <2>2 DEF Counted, PermitsNotLost
  <2>4. Permitted'
    BY <1>1, <2>1, PermittedSame DEF IInv, Holding
  <2>5. phase'[m] = "settled" /\ \A x \in Messages : x # m => SameOrWoken(x)
    BY <1>1, <2>1 DEF SameOrWoken
  <2>. QED BY <1>1, <1>4, <2>1, <2>3, <2>4, <2>5
<1>6. CASE permits # << >>
  <2> DEFINE h == Head(permits)
  <2>1. /\ h \in Messages /\ h \in ToSet(permits)
        /\ Tail(permits) \in Seq(Messages) /\ Distinct(Tail(permits))
        /\ ToSet(Tail(permits)) = ToSet(permits) \ {h}
    BY <1>1, <1>6, TailLine
  <2>2. phase[h] = "waiting" /\ h # m
    BY <1>1, <2>1 DEF Holding
  <2>3. /\ phase' = [[phase EXCEPT ![h] = "woken"] EXCEPT ![m] = "settled"]
        /\ permits' = Tail(permits)
    BY <1>6 DEF Release, ReleasedPhase
  <2> HIDE DEF h
  <2>4. /\ phase' \in [Messages -> Phase]
        /\ phase'[m] = "settled" /\ phase'[h] = "woken"
        /\ \A x \in Messages : x # m /\ x # h => phase'[x] = phase[x]
    BY <1>1, <2>1, <2>2, <2>3 DEF Phase, InTurn
  <2>5. Holders' = Holders \ {m} /\ Woken' = Woken \cup {h} /\ h \notin Woken
    BY <2>1, <2>2, <2>4 DEF Holders, Woken, Holding
  <2>6. IsFiniteSet(Woken') /\ Cardinality(Woken') = Cardinality(Woken) + 1
    BY <1>1, <2>5, FS_AddElement
  <2>7. Cardinality(Woken) \in Nat
    BY <1>1, FS_CardinalityType
  <2>8. active' + Cardinality(Woken') >= MaxConcurrency
    BY <1>1, <1>4, <1>6, <2>6, <2>7, ConcurrencyAssumption
  <2>9. Counted'
    <3>1. IsFiniteSet(Holders') /\ active' = Cardinality(Holders')
      BY <1>3, <1>4, <2>5
    <3>. QED BY <2>6, <2>8, <3>1 DEF Counted, PermitsNotLost
  <2>10. Permitted'
    <3>1. \A x \in Messages : phase'[x] = "waiting" <=> phase[x] = "waiting" /\ x # h
      BY <2>2, <2>4 DEF Holding
    <3>. QED BY <1>1, <2>1, <2>3, <3>1 DEF Permitted
  <2>11. \A x \in Messages : x # m => SameOrWoken(x)
    BY <2>2, <2>4 DEF SameOrWoken
  <2>. QED BY <1>4, <2>1, <2>3, <2>4, <2>9, <2>10, <2>11
<1>. QED BY <1>5, <1>6

----------------------------------------------------------------------------
(* Each action keeps the invariant *)

\* The parts that speak of the turns: a step that leaves the turns alone keeps them.
LEMMA SameTurnsKeep ==
  ASSUME IInv, UNCHANGED <<phase, queue, permits, active, inbox>>
  PROVE  /\ Lined' /\ Fronted' /\ Permitted' /\ Counted'
         /\ ProcessingIsExecuting' /\ AnsweredAtRest'
<1>1. Lined' /\ Fronted'
  BY LinedSame, FrontedSame DEF IInv
<1>2. Permitted' /\ Counted'
  BY PermittedSame, CountedSame DEF IInv
<1>3. ProcessingIsExecuting' /\ AnsweredAtRest'
  BY DEF IInv, ProcessingIsExecuting, AnsweredAtRest
<1>. QED BY <1>1, <1>2, <1>3

LEMMA CountDeliveryType ==
  ASSUME TypeOK, NEW m \in Messages, CountDelivery(m)
  PROVE  deliveries' \in [Messages -> Nat]
BY DEF TypeOK, CountDelivery

LEMMA JoinKeeps ==
  ASSUME IInv, NEW m \in Messages, Join(m)
  PROVE  IInv'
<1>1. TypeOK'
  BY CountDeliveryType DEF Join, IInv, TypeOK
<1>. QED BY <1>1, SameTurnsKeep DEF Join, IInv

LEMMA AnswerAtOnceKeeps ==
  ASSUME IInv, NEW m \in Messages, AnswerAtOnce(m)
  PROVE  IInv'
<1>1. TypeOK'
  BY CountDeliveryType DEF AnswerAtOnce, IInv, TypeOK
<1>. QED BY <1>1, SameTurnsKeep DEF AnswerAtOnce, IInv

LEMMA DisconnectKeeps ==
  ASSUME IInv, NEW m \in Messages, Disconnect(m)
  PROVE  IInv'
<1>1. TypeOK'
  BY DEF Disconnect, IInv, TypeOK
<1>. QED BY <1>1, SameTurnsKeep DEF Disconnect, IInv

LEMMA EnqueueKeeps ==
  ASSUME IInv, NEW m \in Messages, Enqueue(m)
  PROVE  IInv'
<1> DEFINE c == ConversationOf[m]
<1>1. /\ c \in Conversations /\ queue[c] \in Seq(Messages) /\ Distinct(queue[c])
      /\ ToSet(queue[c]) = {x \in Messages : ConversationOf[x] = c /\ phase[x] \notin Rest}
      /\ phase[m] = "none" /\ phase[m] \in Rest
  BY ConversationAssumption DEF IInv, TypeOK, Lined, Enqueue, Rest
<1>2. /\ Append(queue[c], m) \in Seq(Messages) /\ Distinct(Append(queue[c], m))
      /\ ToSet(Append(queue[c], m)) = ToSet(queue[c]) \cup {m}
      /\ Append(queue[c], m) # << >>
      /\ queue[c] # << >> => Head(Append(queue[c], m)) = Head(queue[c])
  BY <1>1, AppendLine
<1>3. /\ queue'[c] = Append(queue[c], m)
      /\ \A d \in Conversations : d # c => queue'[d] = queue[d]
      /\ queue' \in [Conversations -> Seq(Messages)]
  BY <1>1, <1>2 DEF Enqueue, IInv, TypeOK
<1>4. /\ phase' \in [Messages -> Phase] /\ phase'[m] = "chained"
      /\ \A x \in Messages : x # m => phase'[x] = phase[x]
  BY DEF Enqueue, IInv, TypeOK, Phase
<1>5. /\ inbox' \in [Messages -> InboxStatus]
      /\ inbox'[m] = (IF inbox[m] = "none" THEN "pending" ELSE inbox[m])
      /\ \A x \in Messages : x # m => inbox'[x] = inbox[x]
  BY DEF Enqueue, IInv, TypeOK, InboxStatus
<1>6. TypeOK'
  <2>1. aborted' \in [Messages -> BOOLEAN]
    BY DEF Enqueue, IInv, TypeOK
  <2>2. requests' \in [Messages -> Nat] /\ deliveries' \in [Messages -> Nat]
    BY CountDeliveryType DEF Enqueue, IInv, TypeOK
  <2>. QED BY <1>3, <1>4, <1>5, <2>1, <2>2 DEF Enqueue, IInv, TypeOK
<1>7. Lined'
  <2> SUFFICES ASSUME NEW d \in Conversations
               PROVE  /\ Distinct(queue'[d])
                      /\ ToSet(queue'[d]) = {x \in Messages : ConversationOf[x] = d
                                                              /\ phase'[x] \notin Rest}
    BY DEF Lined
  <2>1. \A x \in Messages : phase'[x] \notin Rest <=> phase[x] \notin Rest \/ x = m
    BY <1>4 DEF Rest
  <2>2. CASE d = c
    BY <1>1, <1>2, <1>3, <2>1, <2>2
  <2>3. CASE d # c
    BY <1>3, <2>1, <2>3 DEF IInv, Lined
  <2>. QED BY <2>2, <2>3
<1>8. Fronted'
  <2> SUFFICES ASSUME NEW x \in Messages, phase'[x] \in InTurn
               PROVE  IsOldest(x)'
    BY DEF Fronted
  <2>1. x # m /\ phase[x] \in InTurn
    BY <1>4 DEF InTurn, Holding
  <2>2. IsOldest(x)
    BY <2>1 DEF IInv, Fronted
  <2>3. ConversationOf[x] \in Conversations
    BY ConversationAssumption
  <2>. QED BY <1>2, <1>3, <2>2, <2>3 DEF IsOldest
<1>9. Permitted' /\ Counted'
  <2>1. permits' = permits /\ active' = active
    BY DEF Enqueue
  <2>. QED BY <1>1, <1>4, <2>1, PermittedSame, CountedSame DEF IInv, Holding
<1>10. ProcessingIsExecuting'
  BY <1>1, <1>4, <1>5 DEF IInv, ProcessingIsExecuting
<1>11. AnsweredAtRest'
  BY <1>4, <1>5 DEF Enqueue, IInv, AnsweredAtRest
<1>. QED BY <1>6, <1>7, <1>8, <1>9, <1>10, <1>11 DEF IInv

\* A turn settles: what the steps that settle one have in common.
LEMMA SettledType ==
  ASSUME IInv, NEW m \in Messages, NEW newPhase, Settle(m, newPhase)
  PROVE  requests' \in [Messages -> Nat]
BY DEF Settle, IInv, TypeOK

LEMMA DroppedKeeps ==
  ASSUME IInv, NEW m \in Messages, phase[m] = "chained", IsOldest(m),
         Settle(m, phase),
         UNCHANGED <<inbox, permits, active, aborted, deliveries, crashes>>
  PROVE  IInv'
<1>1. /\ phase' \in [Messages -> Phase] /\ phase'[m] = "settled"
      /\ \A x \in Messages : x # m => phase'[x] = phase[x]
  BY DEF Settle, IInv, TypeOK, Phase
<1>2. phase[m] \notin Rest
  BY DEF Rest
<1>3. queue' \in [Conversations -> Seq(Messages)] /\ Lined' /\ Fronted'
  BY <1>1, <1>2, SettleKeeps DEF Settle, SameOrWoken
<1>4. TypeOK'
  BY <1>1, <1>3, SettledType DEF IInv, TypeOK
<1>5. Permitted' /\ Counted'
  BY <1>1, PermittedSame, CountedSame DEF IInv, Holding
<1>6. ProcessingIsExecuting' /\ AnsweredAtRest'
  BY <1>1 DEF IInv, ProcessingIsExecuting, AnsweredAtRest, Rest
<1>. QED BY <1>3, <1>4, <1>5, <1>6 DEF IInv

\* A turn in flight goes from one phase to another, its line stays.
LEMMA MovedLine ==
  ASSUME IInv, NEW m \in Messages, phase[m] \notin Rest, IsOldest(m), NEW p \in InTurn,
         phase' = [phase EXCEPT ![m] = p], queue' = queue
  PROVE  /\ phase' \in [Messages -> Phase] /\ phase'[m] = p
         /\ \A x \in Messages : x # m => phase'[x] = phase[x]
         /\ Lined' /\ Fronted'
<1>1. /\ phase' \in [Messages -> Phase] /\ phase'[m] = p
      /\ \A x \in Messages : x # m => phase'[x] = phase[x]
  BY DEF IInv, TypeOK, Phase
<1>2. p \notin Rest
  BY DEF InTurn, Holding, Rest
<1>3. Lined'
  BY <1>1, <1>2, LinedSame DEF IInv
<1>4. Fronted'
  BY <1>1, FrontedSame DEF IInv
<1>. QED BY <1>1, <1>3, <1>4

\* A turn that takes a permit is one more holder.
LEMMA HolderCounted ==
  ASSUME IInv, NEW m \in Messages, phase[m] \notin Holding,
         Holders' = Holders \cup {m}, active' = active + 1
  PROVE  IsFiniteSet(Holders') /\ active' = Cardinality(Holders')
<1>1. m \notin Holders
  BY DEF Holders
<1>2. IsFiniteSet(Holders) /\ active = Cardinality(Holders)
  BY DEF IInv, Counted, PermitsNotLost
<1>. QED BY <1>1, <1>2, FS_AddElement

LEMMA AdmittedKeeps ==
  ASSUME IInv, NEW m \in Messages, phase[m] = "chained", IsOldest(m),
         active' = active + 1, phase' = [phase EXCEPT ![m] = "entering"],
         UNCHANGED <<inbox, queue, permits, aborted, requests, deliveries, crashes>>
  PROVE  IInv'
<1>1. /\ phase' \in [Messages -> Phase] /\ phase'[m] = "entering"
      /\ \A x \in Messages : x # m => phase'[x] = phase[x]
      /\ Lined' /\ Fronted'
  BY MovedLine DEF Rest, InTurn, Holding
<1>2. TypeOK'
  BY <1>1 DEF IInv, TypeOK
<1>3. Permitted'
  BY <1>1, PermittedSame DEF IInv
<1>4. Holders' = Holders \cup {m} /\ Woken' = Woken
  BY <1>1 DEF Holders, Woken, Holding
<1>5. IsFiniteSet(Holders') /\ active' = Cardinality(Holders')
  BY <1>4, HolderCounted DEF Holding
<1>6. Counted'
  <2>1. permits' # << >> => active + Cardinality(Woken) >= MaxConcurrency
    BY DEF IInv, Counted, PermitsNotLost
  <2>2. Cardinality(Woken) \in Nat /\ active \in Nat /\ IsFiniteSet(Woken)
    BY FS_CardinalityType DEF IInv, Counted, TypeOK
  <2>3. permits' # << >> => active' + Cardinality(Woken') >= MaxConcurrency
    BY <1>4, <2>1, <2>2, ConcurrencyAssumption
  <2>. QED BY <1>4, <1>5, <2>2, <2>3 DEF Counted, PermitsNotLost
<1>7. ProcessingIsExecuting' /\ AnsweredAtRest'
  BY <1>1 DEF IInv, ProcessingIsExecuting, AnsweredAtRest, Rest
<1>. QED BY <1>1, <1>2, <1>3, <1>6, <1>7 DEF IInv

LEMMA QueuedKeeps ==
  ASSUME IInv, NEW m \in Messages, phase[m] = "chained", IsOldest(m),
         active >= MaxConcurrency,
         permits' = Append(permits, m), phase' = [phase EXCEPT ![m] = "waiting"],
         UNCHANGED <<inbox, queue, active, aborted, requests, deliveries, crashes>>
  PROVE  IInv'
<1>1. /\ phase' \in [Messages -> Phase] /\ phase'[m] = "waiting"
      /\ \A x \in Messages : x # m => phase'[x] = phase[x]
      /\ Lined' /\ Fronted'
  BY MovedLine DEF Rest, InTurn, Holding
<1>2. /\ permits \in Seq(Messages) /\ Distinct(permits) /\ m \notin ToSet(permits)
      /\ ToSet(permits) = {x \in Messages : phase[x] = "waiting"}
  BY DEF IInv, TypeOK, Permitted
<1>3. /\ permits' \in Seq(Messages) /\ Distinct(permits')
      /\ ToSet(permits') = ToSet(permits) \cup {m}
  BY <1>2, AppendLine
<1>4. TypeOK'
  BY <1>1, <1>3 DEF IInv, TypeOK
<1>5. Permitted'
  BY <1>1, <1>2, <1>3 DEF Permitted
<1>6. Counted'
  <2>1. Holders' = Holders /\ Woken' = Woken
    BY <1>1 DEF Holders, Woken, Holding
  <2>2. Cardinality(Woken) \in Nat /\ active \in Nat
    BY FS_CardinalityType DEF IInv, Counted, TypeOK
  <2>3. active' + Cardinality(Woken') >= MaxConcurrency
    BY <2>1, <2>2, ConcurrencyAssumption
  <2>. QED BY <2>1, <2>3 DEF IInv, Counted, PermitsNotLost
<1>7. ProcessingIsExecuting' /\ AnsweredAtRest'
  BY <1>1 DEF IInv, ProcessingIsExecuting, AnsweredAtRest, Rest
<1>. QED BY <1>1, <1>4, <1>5, <1>6, <1>7 DEF IInv

LEMMA StartKeeps ==
  ASSUME IInv, NEW m \in Messages, Start(m)
  PROVE  IInv'
<1>1. CASE aborted[m]
  BY <1>1, DroppedKeeps DEF Start
<1>2. CASE ~ aborted[m] /\ active < MaxConcurrency
  <2>1. ~ (active >= MaxConcurrency)
    BY <1>2, ConcurrencyAssumption DEF IInv, TypeOK
  <2>. QED BY <1>2, <2>1, AdmittedKeeps DEF Start
<1>3. CASE ~ aborted[m] /\ ~ (active < MaxConcurrency)
  BY <1>3, QueuedKeeps DEF Start
<1>. QED BY <1>1, <1>2, <1>3

LEMMA WakeKeeps ==
  ASSUME IInv, NEW m \in Messages, Wake(m)
  PROVE  IInv'
<1>0. /\ phase[m] = "woken" /\ active' = active + 1
      /\ phase' = [phase EXCEPT ![m] = "entering"]
      /\ UNCHANGED <<inbox, queue, permits, aborted, requests, deliveries, crashes>>
  BY DEF Wake
<1>1. /\ phase' \in [Messages -> Phase] /\ phase'[m] = "entering"
      /\ \A x \in Messages : x # m => phase'[x] = phase[x]
      /\ Lined' /\ Fronted'
  <2>1. IsOldest(m)
    BY <1>0 DEF IInv, Fronted, InTurn
  <2>. QED BY <1>0, <2>1, MovedLine DEF Rest, InTurn, Holding
<1>2. TypeOK'
  BY <1>0, <1>1 DEF IInv, TypeOK
<1>3. Permitted'
  BY <1>0, <1>1, PermittedSame DEF IInv
<1>4. /\ Holders' = Holders \cup {m} /\ Woken' = Woken \ {m}
      /\ m \in Woken /\ phase[m] \notin Holding
  BY <1>0, <1>1 DEF Holders, Woken, Holding
<1>5. IsFiniteSet(Holders') /\ active' = Cardinality(Holders')
  BY <1>0, <1>4, HolderCounted
<1>6. Counted'
  <2>1. /\ permits # << >> => active + Cardinality(Woken) >= MaxConcurrency
        /\ IsFiniteSet(Woken) /\ active \in Nat
    BY DEF IInv, Counted, PermitsNotLost, TypeOK
  <2>2. IsFiniteSet(Woken') /\ Cardinality(Woken') = Cardinality(Woken) - 1
    BY <1>4, <2>1, FS_RemoveElement
  <2>3. Cardinality(Woken) \in Nat
    BY <2>1, FS_CardinalityType
  <2>4. permits' # << >> => active' + Cardinality(Woken') >= MaxConcurrency
    BY <1>0, <2>1, <2>2, <2>3, ConcurrencyAssumption
  <2>. QED BY <1>5, <2>2, <2>4 DEF Counted, PermitsNotLost
<1>7. ProcessingIsExecuting' /\ AnsweredAtRest'
  BY <1>0, <1>1 DEF IInv, ProcessingIsExecuting, AnsweredAtRest, Rest
<1>. QED BY <1>1, <1>2, <1>3, <1>6, <1>7 DEF IInv

\* A turn that holds a permit ends, with or without having executed.
LEMMA EndedKeeps ==
  ASSUME IInv, NEW m \in Messages, phase[m] \in Holding,
         Release, Settle(m, ReleasedPhase),
         inbox' \in [Messages -> InboxStatus],
         inbox'[m] # "processing",
         \A x \in Messages : x # m => inbox'[x] = inbox[x],
         UNCHANGED <<aborted, deliveries, crashes>>
  PROVE  IInv'
<1>1. /\ phase' \in [Messages -> Phase] /\ active' \in Nat
      /\ permits' \in Seq(Messages) /\ Permitted' /\ Counted'
      /\ phase'[m] = "settled"
      /\ \A x \in Messages : x # m => SameOrWoken(x)
  BY ReleaseKeeps DEF Settle
<1>2. phase[m] \notin Rest /\ IsOldest(m)
  BY DEF IInv, Fronted, InTurn, Holding, Rest
<1>3. queue' \in [Conversations -> Seq(Messages)] /\ Lined' /\ Fronted'
  BY <1>1, <1>2, SettleKeeps DEF Settle
<1>4. TypeOK'
  BY <1>1, <1>3, SettledType DEF IInv, TypeOK
<1>5. ProcessingIsExecuting'
  BY <1>1 DEF IInv, ProcessingIsExecuting, SameOrWoken
<1>6. AnsweredAtRest'
  BY <1>1 DEF IInv, AnsweredAtRest, Rest, SameOrWoken
<1>. QED BY <1>1, <1>3, <1>4, <1>5, <1>6 DEF IInv

LEMMA EnterKeeps ==
  ASSUME IInv, NEW m \in Messages, Enter(m)
  PROVE  IInv'
<1>1. CASE aborted[m]
  <2>1. inbox[m] # "processing"
    BY DEF Enter, IInv, ProcessingIsExecuting
  <2>. QED BY <1>1, <2>1, EndedKeeps DEF Enter, Holding, IInv, TypeOK
<1>2. CASE ~ aborted[m]
  <2>0. /\ phase[m] = "entering"
        /\ inbox' = [inbox EXCEPT ![m] = "processing"]
        /\ phase' = [phase EXCEPT ![m] = "executing"]
        /\ UNCHANGED <<queue, permits, active, requests, aborted, deliveries, crashes>>
    BY <1>2 DEF Enter
  <2>1. /\ phase' \in [Messages -> Phase] /\ phase'[m] = "executing"
        /\ \A x \in Messages : x # m => phase'[x] = phase[x]
        /\ Lined' /\ Fronted'
    <3>1. IsOldest(m)
      BY <2>0 DEF IInv, Fronted, InTurn, Holding
    <3>. QED BY <2>0, <3>1, MovedLine DEF Rest, InTurn, Holding
  <2>2. /\ inbox' \in [Messages -> InboxStatus] /\ inbox'[m] = "processing"
        /\ \A x \in Messages : x # m => inbox'[x] = inbox[x]
    BY <2>0 DEF IInv, TypeOK, InboxStatus
  <2>3. TypeOK'
    BY <2>0, <2>1, <2>2 DEF IInv, TypeOK
  <2>4. Permitted' /\ Counted'
    BY <2>0, <2>1, PermittedSame, CountedSame DEF IInv, Holding
  <2>5. ProcessingIsExecuting' /\ AnsweredAtRest'
    BY <2>1, <2>2 DEF IInv, ProcessingIsExecuting, AnsweredAtRest
  <2>. QED BY <2>1, <2>3, <2>4, <2>5 DEF IInv
<1>. QED BY <1>1, <1>2

LEMMA FinishKeeps ==
  ASSUME IInv, NEW m \in Messages, Finish(m)
  PROVE  IInv'
<1>1. PICK status \in {"completed", "error"} : inbox' = [inbox EXCEPT ![m] = status]
  BY DEF Finish
<1>2. /\ inbox' \in [Messages -> InboxStatus] /\ inbox'[m] # "processing"
      /\ \A x \in Messages : x # m => inbox'[x] = inbox[x]
  BY <1>1 DEF IInv, TypeOK, InboxStatus
<1>. QED BY <1>2, EndedKeeps DEF Finish, Holding

LEMMA ForgetKeeps ==
  ASSUME IInv, NEW m \in Messages, Forget(m)
  PROVE  IInv'
<1>0. /\ phase[m] = "settled" /\ phase' = [phase EXCEPT ![m] = "none"]
      /\ UNCHANGED <<inbox, queue, permits, active, aborted, requests, deliveries, crashes>>
  BY DEF Forget
<1>1. /\ phase' \in [Messages -> Phase] /\ phase'[m] = "none"
      /\ \A x \in Messages : x # m => phase'[x] = phase[x]
  BY <1>0 DEF IInv, TypeOK, Phase
<1>2. TypeOK'
  BY <1>0, <1>1 DEF IInv, TypeOK
<1>3. Lined' /\ Fronted'
  BY <1>0, <1>1, LinedSame, FrontedSame DEF IInv, Rest, InTurn, Holding
<1>4. Permitted' /\ Counted'
  BY <1>0, <1>1, PermittedSame, CountedSame DEF IInv, Holding
<1>5. ProcessingIsExecuting' /\ AnsweredAtRest'
  BY <1>0, <1>1 DEF IInv, ProcessingIsExecuting, AnsweredAtRest, Rest
<1>. QED BY <1>2, <1>3, <1>4, <1>5 DEF IInv

\* An empty coordinator satisfies the parts of the invariant about the turns.
LEMMA EmptyCoordinator ==
  ASSUME NEW q, NEW p, NEW w, NEW n,
         q = [c \in Conversations |-> << >>], p = [m \in Messages |-> "none"],
         w = << >>, n = 0
  PROVE  /\ q \in [Conversations -> Seq(Messages)] /\ p \in [Messages -> Phase]
         /\ w \in Seq(Messages) /\ n \in Nat
         /\ \A c \in Conversations :
               /\ Distinct(q[c])
               /\ ToSet(q[c]) = {m \in Messages : ConversationOf[m] = c /\ p[m] \notin Rest}
         /\ \A m \in Messages : p[m] = "none" /\ p[m] \notin InTurn /\ p[m] \in Rest
         /\ Distinct(w) /\ ToSet(w) = {m \in Messages : p[m] = "waiting"}
         /\ {m \in Messages : p[m] \in Holding} = {}
         /\ {m \in Messages : p[m] = "woken"} = {}
<1>1. \A m \in Messages : p[m] = "none" /\ p[m] \notin InTurn /\ p[m] \in Rest
  BY DEF InTurn, Holding, Rest
<1>2. /\ {m \in Messages : p[m] \in Holding} = {}
      /\ {m \in Messages : p[m] = "woken"} = {}
      /\ {m \in Messages : p[m] = "waiting"} = {}
  BY <1>1 DEF Holding
<1>3. p \in [Messages -> Phase] /\ q \in [Conversations -> Seq(Messages)]
  BY EmptyLine DEF Phase
<1>. QED BY <1>1, <1>2, <1>3, EmptyLine

LEMMA CrashKeeps ==
  ASSUME IInv, Crash
  PROVE  IInv'
<1>0. /\ queue' = [c \in Conversations |-> << >>] /\ phase' = [m \in Messages |-> "none"]
      /\ permits' = << >> /\ active' = 0
  BY DEF Crash
<1>1. /\ inbox' \in [Messages -> InboxStatus]
      /\ \A m \in Messages : inbox'[m] # "processing"
  BY DEF Crash, IInv, TypeOK, InboxStatus
<1>2. TypeOK'
  <2>1. queue' \in [Conversations -> Seq(Messages)] /\ phase' \in [Messages -> Phase]
    BY <1>0, EmptyCoordinator
  <2>2. aborted' \in [Messages -> BOOLEAN]
    BY DEF Crash
  <2>3. /\ permits' \in Seq(Messages) /\ active' \in Nat /\ crashes' \in Nat
        /\ requests' \in [Messages -> Nat] /\ deliveries' \in [Messages -> Nat]
    BY DEF Crash, IInv, TypeOK
  <2>. QED BY <1>1, <2>1, <2>2, <2>3 DEF TypeOK
<1>3. Lined' /\ Fronted' /\ Permitted'
  BY <1>0, EmptyCoordinator DEF Lined, Fronted, Permitted
<1>4. Holders' = {} /\ Woken' = {}
  BY <1>0 DEF Holders, Woken, Holding
<1>5. Counted'
  BY <1>0, <1>4, FS_EmptySet DEF Counted, PermitsNotLost
<1>6. ProcessingIsExecuting' /\ AnsweredAtRest'
  BY <1>0, <1>1 DEF ProcessingIsExecuting, AnsweredAtRest, Rest
<1>. QED BY <1>2, <1>3, <1>5, <1>6 DEF IInv

----------------------------------------------------------------------------
(* The invariant holds *)

LEMMA InitKeeps == Init => IInv
<1> SUFFICES ASSUME Init PROVE IInv
  OBVIOUS
<1>1. TypeOK
  <2>1. aborted \in [Messages -> BOOLEAN]
    BY DEF Init
  <2>. QED BY <2>1 DEF Init, TypeOK, InboxStatus, Phase
<1>2. Lined /\ Fronted /\ Permitted
  BY EmptyCoordinator DEF Init, Lined, Fronted, Permitted
<1>3. Holders = {} /\ Woken = {}
  BY DEF Init, Holders, Woken, Holding
<1>4. Counted
  BY <1>3, FS_EmptySet DEF Init, Counted, PermitsNotLost
<1>5. ProcessingIsExecuting /\ AnsweredAtRest
  BY DEF Init, ProcessingIsExecuting, AnsweredAtRest, Rest
<1>. QED BY <1>1, <1>2, <1>4, <1>5 DEF IInv

LEMMA NextKeeps ==
  ASSUME IInv, [Next]_vars
  PROVE  IInv'
<1>1. CASE \E m \in Messages : Deliver(m) \/ Disconnect(m) \/ Step(m)
  <2>1. PICK m \in Messages : Deliver(m) \/ Disconnect(m) \/ Step(m)
    BY <1>1
  <2>2. CASE Deliver(m) \/ Disconnect(m)
    BY <2>2, JoinKeeps, AnswerAtOnceKeeps, EnqueueKeeps, DisconnectKeeps DEF Deliver
  <2>3. CASE Step(m)
    BY <2>3, StartKeeps, WakeKeeps, EnterKeeps, FinishKeeps, ForgetKeeps DEF Step
  <2>. QED BY <2>1, <2>2, <2>3
<1>2. CASE Crash
  BY <1>2, CrashKeeps
<1>3. CASE UNCHANGED vars
  <2>1. TypeOK'
    BY <1>3 DEF vars, IInv, TypeOK
  <2>. QED BY <1>3, <2>1, SameTurnsKeep DEF vars, IInv
<1>. QED BY <1>1, <1>2, <1>3 DEF Next

LEMMA Invariance == Spec => []IInv
<1>. QED BY InitKeeps, NextKeeps, PTL DEF Spec

----------------------------------------------------------------------------

\* Every variable of the coordinator keeps its type; the count of the permits is
\* never below zero.
THEOREM TypeCorrect == Spec => []TypeOK
<1>1. IInv => TypeOK
  BY DEF IInv
<1>. QED BY <1>1, Invariance, PTL

\* No row says "processing" without a turn that executes, after any crash,
\* cancellation or redelivery.
THEOREM RowsTellTheTurns == Spec => []ProcessingIsExecuting
<1>1. IInv => ProcessingIsExecuting
  BY DEF IInv
<1>. QED BY <1>1, Invariance, PTL

\* The permits add up for any limit: none is lost when a turn is cancelled between
\* acquire and release, and nobody sleeps while a permit is free.
THEOREM PermitsAddUp == Spec => []PermitsNotLost
<1>1. IInv => PermitsNotLost
  BY DEF IInv, Counted
<1>. QED BY <1>1, Invariance, PTL

\* A message that was answered keeps its answer and is not executed again.
THEOREM AnswersStay == Spec => AnsweredOnce
<1> DEFINE A == \A m \in Messages : inbox[m] = "completed" =>
                   inbox'[m] = "completed" /\ phase'[m] # "executing"
<1>1. ASSUME IInv, IInv', [Next]_vars PROVE A
  <2> SUFFICES ASSUME NEW m \in Messages, inbox[m] = "completed"
               PROVE  inbox'[m] = "completed" /\ phase'[m] # "executing"
    OBVIOUS
  <2>1. phase[m] \in Rest /\ inbox \in [Messages -> InboxStatus]
    BY <1>1 DEF IInv, AnsweredAtRest, TypeOK
  <2>2. inbox'[m] = "completed"
    <3>1. CASE \E x \in Messages : Deliver(x) \/ Disconnect(x) \/ Step(x)
      <4>1. PICK x \in Messages : Deliver(x) \/ Disconnect(x) \/ Step(x)
        BY <3>1
      <4>2. CASE inbox' = inbox
        BY <4>2
      <4>3. CASE Enqueue(x)
        BY <2>1, <4>3 DEF Enqueue
      <4>4. CASE Enter(x)
        BY <2>1, <4>4 DEF Enter, Rest
      <4>5. CASE Finish(x)
        BY <2>1, <4>5 DEF Finish, Rest
      <4>. QED BY <4>1, <4>2, <4>3, <4>4, <4>5
               DEF Deliver, Join, AnswerAtOnce, Disconnect, Step, Start, Wake, Forget
    <3>2. CASE Crash
      BY <3>2 DEF Crash
    <3>3. CASE UNCHANGED vars
      BY <3>3 DEF vars
    <3>. QED BY <1>1, <3>1, <3>2, <3>3 DEF Next
  <2>3. phase'[m] \in Rest
    BY <1>1, <2>2 DEF IInv, AnsweredAtRest
  <2>. QED BY <2>2, <2>3 DEF Rest
<1>2. IInv /\ IInv' /\ [Next]_vars => [A]_vars
  BY <1>1
<1>. QED BY <1>2, Invariance, PTL DEF Spec, AnsweredOnce

----------------------------------------------------------------------------
(* The coordinator implements the abstract queue *)

executing == {m \in Messages : phase[m] = "executing"}

completed == {m \in Messages : inbox[m] = "completed"}

\* A turn that settles leaves the line, answered or not.
LEMMA LeaveStep ==
  ASSUME IInv, NEW m \in Messages, phase[m] \notin Rest, IsOldest(m),
         queue' = [queue EXCEPT ![ConversationOf[m]] = Tail(@)],
         phase'[m] = "settled",
         \A x \in Messages : x # m => SameOrWoken(x),
         \A x \in Messages : x # m => inbox'[x] = inbox[x],
         inbox'[m] = inbox[m] \/ (phase[m] = "executing" /\ inbox'[m] \in {"completed", "error"})
  PROVE  Queue!Leave(m)
<1>1. executing' = executing \ {m}
  BY DEF executing, SameOrWoken
<1>2. \/ completed' = completed
      \/ m \in executing /\ completed' = completed \cup {m}
  <2>1. inbox[m] # "completed"
    BY DEF IInv, AnsweredAtRest
  <2>2. CASE inbox'[m] = "completed"
    BY <2>1, <2>2 DEF completed, executing
  <2>3. CASE inbox'[m] # "completed"
    BY <2>1, <2>3 DEF completed
  <2>. QED BY <2>2, <2>3
<1>. QED BY <1>1, <1>2 DEF Queue!Leave, IsOldest, executing, completed

LEMMA EnqueueStep ==
  ASSUME IInv, NEW m \in Messages, Enqueue(m)
  PROVE  Queue!Accept(m)
<1>1. /\ ConversationOf[m] \in Conversations /\ phase[m] \in Rest
      /\ inbox[m] # "completed"
  BY ConversationAssumption DEF Enqueue, Rest
<1>2. m \notin ToSet(queue[ConversationOf[m]])
  BY <1>1 DEF IInv, Lined
<1>3. executing' = executing
  BY DEF Enqueue, executing, IInv, TypeOK
<1>4. completed' = completed
  BY DEF Enqueue, completed, IInv, TypeOK
<1>. QED BY <1>1, <1>2, <1>3, <1>4
         DEF Enqueue, Queue!Accept, Queue!ToSet, ToSet, executing, completed

LEMMA EnterStep ==
  ASSUME IInv, NEW m \in Messages, Enter(m), ~ aborted[m]
  PROVE  Queue!Begin(m)
<1>1. /\ phase[m] = "entering" /\ UNCHANGED queue
      /\ inbox' = [inbox EXCEPT ![m] = "processing"]
      /\ phase' = [phase EXCEPT ![m] = "executing"]
  BY DEF Enter
<1>2. IsOldest(m) /\ inbox[m] # "completed"
  BY <1>1 DEF IInv, Fronted, AnsweredAtRest, InTurn, Holding, Rest
<1>3. executing' = executing \cup {m} /\ m \notin executing
  BY <1>1 DEF executing, IInv, TypeOK
<1>4. completed' = completed /\ m \notin completed
  BY <1>1, <1>2 DEF completed, IInv, TypeOK
<1>. QED BY <1>1, <1>2, <1>3, <1>4 DEF Queue!Begin, IsOldest, executing, completed

\* A step that changes neither the lines nor the rows nor the executing turns is
\* none of the queue.
LEMMA StutterStep ==
  ASSUME queue' = queue, inbox' = inbox,
         \A x \in Messages : phase'[x] = "executing" <=> phase[x] = "executing"
  PROVE  UNCHANGED Queue!queueVars
<1>1. executing' = executing /\ completed' = completed
  BY DEF executing, completed
<1>. QED BY <1>1 DEF Queue!queueVars, executing, completed

LEMMA StartStep ==
  ASSUME IInv, NEW m \in Messages, Start(m)
  PROVE  Queue!Leave(m) \/ UNCHANGED Queue!queueVars
<1>1. /\ phase[m] = "chained" /\ phase[m] \notin Rest /\ IsOldest(m)
      /\ inbox' = inbox /\ phase \in [Messages -> Phase]
  BY DEF Start, Rest, IInv, TypeOK
<1>2. CASE Settle(m, phase)
  <2>1. Queue!Leave(m)
    BY <1>1, <1>2, LeaveStep DEF Settle, SameOrWoken
  <2>. QED BY <2>1
<1>3. CASE /\ phase' = [phase EXCEPT ![m] = "entering"] \/ phase' = [phase EXCEPT ![m] = "waiting"]
           /\ queue' = queue
  BY <1>1, <1>3, StutterStep
<1>. QED BY <1>2, <1>3 DEF Start

LEMMA EndStep ==
  ASSUME IInv, NEW m \in Messages, phase[m] \in Holding,
         Release, Settle(m, ReleasedPhase),
         \/ inbox' = inbox
         \/ /\ phase[m] = "executing"
            /\ \E status \in {"completed", "error"} : inbox' = [inbox EXCEPT ![m] = status]
  PROVE  Queue!Leave(m)
<1>1. phase'[m] = "settled" /\ \A x \in Messages : x # m => SameOrWoken(x)
  BY ReleaseKeeps DEF Settle
<1>2. phase[m] \notin Rest /\ IsOldest(m)
  BY DEF IInv, Fronted, InTurn, Holding, Rest
<1>3. /\ \A x \in Messages : x # m => inbox'[x] = inbox[x]
      /\ \/ inbox'[m] = inbox[m]
         \/ phase[m] = "executing" /\ inbox'[m] \in {"completed", "error"}
  BY DEF IInv, TypeOK
<1>. QED BY <1>1, <1>2, <1>3, LeaveStep DEF Settle

LEMMA StepImplements ==
  ASSUME IInv, [Next]_vars
  PROVE  [Queue!QueueNext]_(Queue!queueVars)
<1>1. CASE \E m \in Messages : Deliver(m) \/ Disconnect(m) \/ Step(m)
  <2>1. PICK m \in Messages : Deliver(m) \/ Disconnect(m) \/ Step(m)
    BY <1>1
  <2>2. CASE Join(m) \/ AnswerAtOnce(m) \/ Disconnect(m)
    <3>1. queue' = queue /\ inbox' = inbox /\ phase' = phase
      BY <2>2 DEF Join, AnswerAtOnce, Disconnect
    <3>. QED BY <3>1, StutterStep
  <2>3. CASE Enqueue(m)
    BY <2>3, EnqueueStep DEF Queue!QueueNext
  <2>4. CASE Start(m)
    BY <2>4, StartStep DEF Queue!QueueNext
  <2>5. CASE Enter(m) /\ ~ aborted[m]
    BY <2>5, EnterStep DEF Queue!QueueNext
  <2>6. CASE Enter(m) /\ aborted[m]
    <3>1. Queue!Leave(m)
      BY <2>6, EndStep DEF Enter, Holding
    <3>. QED BY <3>1 DEF Queue!QueueNext
  <2>7. CASE Finish(m)
    <3>1. Queue!Leave(m)
      BY <2>7, EndStep DEF Finish, Holding
    <3>. QED BY <3>1 DEF Queue!QueueNext
  <2>8. CASE Wake(m) \/ Forget(m)
    <3>1. /\ queue' = queue /\ inbox' = inbox
          /\ \A x \in Messages : phase'[x] = "executing" <=> phase[x] = "executing"
      BY <2>8 DEF Wake, Forget, IInv, TypeOK
    <3>. QED BY <3>1, StutterStep
  <2>. QED BY <2>1, <2>2, <2>3, <2>4, <2>5, <2>6, <2>7, <2>8 DEF Deliver, Step
<1>2. CASE Crash
  <2>1. executing' = {}
    BY <1>2 DEF Crash, executing
  <2>2. completed' = completed
    BY <1>2 DEF Crash, completed
  <2>3. Queue!Restart
    BY <1>2, <2>1, <2>2 DEF Crash, Queue!Restart, executing, completed
  <2>. QED BY <2>3 DEF Queue!QueueNext
<1>3. CASE UNCHANGED vars
  <2>1. queue' = queue /\ inbox' = inbox /\ phase' = phase
    BY <1>3 DEF vars
  <2>. QED BY <2>1, StutterStep
<1>. QED BY <1>1, <1>2, <1>3 DEF Next

LEMMA InitImplements == Init => Queue!QueueInit
BY DEF Init, Queue!QueueInit

\* The turns of the channels are those of the abstract queue, for any messages
\* and limits: in order within a conversation, one at a time, none after the answer.
THEOREM TurnsImplementQueue == Spec => ImplementsQueue
<1>1. IInv /\ [Next]_vars => [Queue!QueueNext]_(Queue!queueVars)
  BY StepImplements
<1>. QED BY <1>1, InitImplements, Invariance, PTL DEF Spec, ImplementsQueue, Queue!QueueSpec

=============================================================================
