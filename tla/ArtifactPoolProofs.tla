--------------------------- MODULE ArtifactPoolProofs ---------------------------
(***************************************************************************)
(* Proofs about ArtifactPool, for any finite sets of jobs and worker       *)
(* threads and any limits.                                                 *)
(*                                                                         *)
(* The invariant PoolKept is about a record of the fields of the pool, so  *)
(* that it can be asked of the states between two assignments of one run   *)
(* of the code:                                                            *)
(*   - Bounded: the queue and the slots are within their limits;           *)
(*   - Placed: the open jobs are those of the queue and of the slots, each *)
(*     once;                                                               *)
(*   - Posted: a worker thread was posted the job of its slot and nothing  *)
(*     else, and a thread without a slot at most one job, a settled one;   *)
(*     an answer is therefore of the job it is taken for, or of no slot;   *)
(*   - Answered: a promise is resolved with its own result.                *)
(* Between two runs of the code Conserving holds too: a job waits only     *)
(* while every slot the limit allows has one.                              *)
(*                                                                         *)
(* A round of the dispatch keeps PoolKept and shortens the queue unless    *)
(* nothing can be dispatched (ServedHeadKeeps, by the cases of a post that *)
(* fails and one that does not), and so do all its rounds                  *)
(* (DispatchedKeeps), by an induction over their number, which             *)
(* SetInduction states for a set of numbers.                               *)
(***************************************************************************)
EXTENDS ArtifactPool, FiniteSetTheorems, SequenceTheorems, WellFoundedInduction, TLAPS

\* A record with the fields of the pool.
PoolType ==
    [queue : Seq(Jobs), slots : SUBSET WorkerIds, job : [WorkerIds -> Jobs \cup {NoJob}],
     doing : [WorkerIds -> Seq(Jobs)], outcome : [Jobs -> Outcome],
     answer : [Jobs -> Jobs \cup {NoJob}]]

\* The members of a queue, and a queue that has none twice.
Elements(q) == {q[i] : i \in 1..Len(q)}

Once(q) == \A i, k \in 1..Len(q) : q[i] = q[k] => i = k

Queued(s) == Elements(s.queue)

Bounded(s) == Len(s.queue) <= QueueLimit /\ Cardinality(s.slots) <= Workers

\* An open job has one place, and only an open job has one.
QueuedWait(s) == \A j \in Queued(s) : s.outcome[j] = "waiting"

SlotsWait(s) ==
    \A w \in s.slots : s.job[w] # NoJob
        => s.outcome[s.job[w]] = "waiting" /\ s.job[w] \notin Queued(s)

SlotsDiffer(s) == \A v, w \in s.slots : s.job[v] = s.job[w] /\ s.job[v] # NoJob => v = w

WaitingPlaced(s) ==
    \A j \in Jobs : s.outcome[j] = "waiting"
        => j \in Queued(s) \/ \E w \in s.slots : s.job[w] = j

Placed(s) ==
    /\ Once(s.queue) /\ QueuedWait(s) /\ SlotsWait(s) /\ SlotsDiffer(s)
    /\ WaitingPlaced(s)

\* The worker of a slot has what its slot names and nothing else; a worker without a
\* slot has one job at most, which is settled.
SlotPosted(s) ==
    \A w \in s.slots : s.doing[w] = IF s.job[w] = NoJob THEN << >> ELSE <<s.job[w]>>

StrayPosted(s) ==
    \A w \in WorkerIds \ s.slots :
        /\ s.job[w] = NoJob
        /\ \/ s.doing[w] = << >>
           \/ \E j \in Jobs : s.doing[w] = <<j>> /\ s.outcome[j] \in Settled

PostedOnce(s) == \A v, w \in WorkerIds : s.doing[v] = s.doing[w] /\ s.doing[v] # << >> => v = w

Posted(s) == SlotPosted(s) /\ StrayPosted(s) /\ PostedOnce(s)

Answered(s) == \A j \in Jobs : s.outcome[j] = "resolved" => s.answer[j] = j

PoolKept(s) == s \in PoolType /\ Bounded(s) /\ Placed(s) /\ Posted(s) /\ Answered(s)

----------------------------------------------------------------------------
(* What the dispatch loop keeps *)

\* Induction over the numbers, for a set of them.
LEMMA SetInduction ==
  ASSUME NEW S \in SUBSET Nat, 0 \in S, \A n \in S : n + 1 \in S
  PROVE  S = Nat
<1> SUFFICES ASSUME Nat \ S # {} PROVE FALSE
  OBVIOUS
<1> DEFINE T == Nat \ S
<1>1. T \subseteq Nat /\ T # {}
  OBVIOUS
<1> HIDE DEF T
<1>2. IsWellFoundedOn(OpToRel(<, Nat), Nat)
  BY NatLessThanWellFounded
<1>3. \E x \in T : \A y \in T : ~ (<<y, x>> \in OpToRel(<, Nat))
  BY <1>1, <1>2, WFMin
<1>4. PICK x \in T : \A y \in T : ~ (<<y, x>> \in OpToRel(<, Nat))
  BY <1>3
<1>5. \A y \in T : ~ (y < x)
  BY <1>1, <1>4 DEF OpToRel
<1>6. x # 0 /\ x \in Nat /\ x \notin S
  BY DEF T
<1>7. x - 1 \in Nat /\ (x - 1) + 1 = x
  BY <1>6
<1>8. x - 1 \in T
  BY <1>6, <1>7 DEF T
<1>. QED BY <1>5, <1>6, <1>7, <1>8

\* The rounds of the loop, as a function of their number.
Rounds(s, served, n) ==
    served = [i \in 0..n |-> IF i = 0 THEN s ELSE ServedHead(served[i - 1])]

\* The loop can be run for any number of rounds.
LEMMA RoundsExist ==
  ASSUME NEW s, NEW n \in Nat
  PROVE  \E served : Rounds(s, served, n)
<1> DEFINE S == {m \in Nat : \E served : Rounds(s, served, m)}
<1>1. 0 \in S
  <2> DEFINE served == [i \in 0..0 |-> s]
  <2>1. served = [i \in 0..0 |-> IF i = 0 THEN s ELSE ServedHead(served[i - 1])]
    OBVIOUS
  <2>. QED BY <2>1 DEF Rounds
<1>2. ASSUME NEW m \in S PROVE m + 1 \in S
  <2>1. PICK served : Rounds(s, served, m)
    OBVIOUS
  <2> DEFINE next == [i \in 0..(m + 1) |-> IF i = m + 1 THEN ServedHead(served[m])
                                           ELSE served[i]]
  <2>2. m \in Nat
    OBVIOUS
  <2>3. ASSUME NEW i \in 0..(m + 1)
        PROVE  next[i] = IF i = 0 THEN s ELSE ServedHead(next[i - 1])
    <3>1. \A k \in 0..m : served[k] = IF k = 0 THEN s ELSE ServedHead(served[k - 1])
      BY <2>1 DEF Rounds
    <3>2. CASE i = m + 1
      <4>1. i # 0 /\ i - 1 = m /\ m \in 0..(m + 1) /\ m # m + 1
        BY <2>2, <3>2
      <4>2. next[i] = ServedHead(served[m]) /\ next[i - 1] = served[m]
        BY <3>2, <4>1
      <4>. QED BY <4>1, <4>2
    <3>3. CASE i # m + 1
      <4>1. i \in 0..m
        BY <2>2, <3>3
      <4>2. next[i] = served[i]
        BY <3>3
      <4>3. CASE i = 0
        BY <3>1, <4>1, <4>2, <4>3
      <4>4. CASE i # 0
        <5>1. i - 1 \in 0..(m + 1) /\ i - 1 # m + 1
          BY <2>2, <4>1, <4>4
        <5>2. next[i - 1] = served[i - 1]
          BY <5>1
        <5>. QED BY <3>1, <4>1, <4>2, <4>4, <5>2
      <4>. QED BY <4>3, <4>4
    <3>. QED BY <3>2, <3>3
  <2>4. next = [i \in 0..(m + 1) |-> next[i]]
    OBVIOUS
  <2> HIDE DEF next
  <2>5. Rounds(s, next, m + 1)
    BY <2>3, <2>4 DEF Rounds
  <2>6. m + 1 \in Nat
    BY <2>2
  <2>. QED BY <2>5, <2>6
<1> HIDE DEF S
<1>3. S = Nat
  <2>1. S \in SUBSET Nat
    BY DEF S
  <2>. QED BY <1>1, <1>2, <2>1, SetInduction
<1>. QED BY <1>3 DEF S

\* The loop ends after as many rounds as the queue has jobs.
LEMMA DispatchedRounds ==
  ASSUME NEW s, Len(s.queue) \in Nat
  PROVE  \E served : Rounds(s, served, Len(s.queue)) /\ Dispatched(s) = served[Len(s.queue)]
<1> DEFINE n == Len(s.queue)
<1> DEFINE c == CHOOSE served : Rounds(s, served, n)
<1>1. Rounds(s, c, n)
  BY RoundsExist
<1>2. Dispatched(s) = c[n]
  BY DEF Dispatched, Rounds
<1>. QED BY <1>1, <1>2

----------------------------------------------------------------------------
(* The queue as a sequence *)

\* A job that joins the queue.
LEMMA AppendQueue ==
  ASSUME NEW q \in Seq(Jobs), NEW j \in Jobs, Once(q), j \notin Elements(q)
  PROVE  /\ Append(q, j) \in Seq(Jobs)
         /\ Len(Append(q, j)) = Len(q) + 1
         /\ Once(Append(q, j))
         /\ Elements(Append(q, j)) = Elements(q) \cup {j}
<1> DEFINE r == Append(q, j)
<1>1. /\ r \in Seq(Jobs) /\ Len(r) = Len(q) + 1 /\ Len(q) \in Nat
      /\ \A i \in 1..Len(q) : r[i] = q[i]
      /\ r[Len(q) + 1] = j
  OBVIOUS
<1> HIDE DEF r
<1>2. \A i \in 1..Len(q) : q[i] # j
  BY DEF Elements
<1>3. Once(r)
  <2> SUFFICES ASSUME NEW i \in 1..Len(r), NEW k \in 1..Len(r), r[i] = r[k] PROVE i = k
    BY DEF Once
  <2>1. i \in 1..Len(q) \/ i = Len(q) + 1
    BY <1>1
  <2>2. k \in 1..Len(q) \/ k = Len(q) + 1
    BY <1>1
  <2>. QED BY <1>1, <1>2, <2>1, <2>2 DEF Once
<1>4. Elements(r) = Elements(q) \cup {j}
  <2>1. 1..Len(r) = 1..Len(q) \cup {Len(q) + 1}
    BY <1>1
  <2>. QED BY <1>1, <2>1 DEF Elements
<1>. QED BY <1>1, <1>3, <1>4 DEF r

\* A job that is taken from the head of the queue.
LEMMA TailQueue ==
  ASSUME NEW q \in Seq(Jobs), q # << >>, Once(q)
  PROVE  /\ Tail(q) \in Seq(Jobs)
         /\ Len(q) \in Nat /\ Len(Tail(q)) = Len(q) - 1
         /\ Head(q) \in Elements(q) /\ Head(q) \in Jobs
         /\ Once(Tail(q))
         /\ Elements(Tail(q)) = Elements(q) \ {Head(q)}
<1> DEFINE r == Tail(q)
<1>1. /\ r \in Seq(Jobs) /\ Len(r) = Len(q) - 1 /\ Len(q) \in Nat \ {0}
      /\ \A i \in 1..Len(r) : r[i] = q[i + 1]
      /\ Head(q) = q[1] /\ Head(q) \in Jobs
  OBVIOUS
<1> HIDE DEF r
<1>2. 1 \in 1..Len(q)
  BY <1>1
<1>3. \A i \in 1..Len(r) : i + 1 \in 1..Len(q) /\ i + 1 # 1
  BY <1>1
<1>4. Once(r)
  <2> SUFFICES ASSUME NEW i \in 1..Len(r), NEW k \in 1..Len(r), r[i] = r[k] PROVE i = k
    BY DEF Once
  <2>1. q[i + 1] = q[k + 1]
    BY <1>1
  <2>2. i + 1 = k + 1
    BY <1>3, <2>1 DEF Once
  <2>. QED BY <2>2
<1>5. ASSUME NEW x \in Elements(r) PROVE x \in Elements(q) \ {Head(q)}
  <2>1. PICK i \in 1..Len(r) : x = r[i]
    BY DEF Elements
  <2>2. x = q[i + 1] /\ x # q[1]
    BY <1>1, <1>2, <1>3, <2>1 DEF Once
  <2>. QED BY <1>1, <1>3, <2>2 DEF Elements
<1>6. ASSUME NEW x \in Elements(q), x # Head(q) PROVE x \in Elements(r)
  <2>1. PICK i \in 1..Len(q) : x = q[i]
    BY DEF Elements
  <2>2. i # 1
    BY <1>1, <1>6, <2>1
  <2>3. i - 1 \in 1..Len(r) /\ (i - 1) + 1 = i
    BY <1>1, <2>2
  <2>4. r[i - 1] = q[i]
    BY <1>1, <2>3
  <2>. QED BY <2>1, <2>3, <2>4 DEF Elements
<1>7. Head(q) \in Elements(q)
  BY <1>1, <1>2 DEF Elements
<1>. QED BY <1>1, <1>4, <1>5, <1>6, <1>7 DEF r

\* Taking out the place of a job leaves the others in the queue.
LEMMA RemoveQueue ==
  ASSUME NEW q \in Seq(Jobs), Once(q), NEW j \in Elements(q)
  PROVE  /\ RemoveAt(q, Position(q, j)) \in Seq(Jobs)
         /\ Len(q) \in Nat /\ Len(RemoveAt(q, Position(q, j))) = Len(q) - 1
         /\ Once(RemoveAt(q, Position(q, j)))
         /\ Elements(RemoveAt(q, Position(q, j))) = Elements(q) \ {j}
<1>1. DOMAIN q = 1..Len(q) /\ Len(q) \in Nat
  OBVIOUS
<1>2. PICK p \in 1..Len(q) : p = Position(q, j) /\ q[p] = j
  BY <1>1 DEF Position, Elements
<1> DEFINE r == RemoveAt(q, p)
<1>3. /\ r \in Seq(Jobs) /\ Len(r) = Len(q) - 1
      /\ \A i \in 1..Len(r) : r[i] = IF i < p THEN q[i] ELSE q[i + 1]
  <2> DEFINE a == SubSeq(q, 1, p - 1)
  <2> DEFINE b == SubSeq(q, p + 1, Len(q))
  <2>1. /\ a \in Seq(Jobs) /\ Len(a) = p - 1 /\ \A i \in 1..(p - 1) : a[i] = q[i]
    BY <1>1, <1>2
  <2>2. /\ b \in Seq(Jobs) /\ Len(b) = Len(q) - p /\ \A i \in 1..(Len(q) - p) : b[i] = q[p + i]
    <3>1. p + 1 \in Int /\ Len(q) \in Int /\ \A i \in (p + 1)..Len(q) : q[i] \in Jobs
      BY <1>1, <1>2
    <3>2. /\ b \in Seq(Jobs)
          /\ Len(b) = IF p + 1 <= Len(q) THEN Len(q) - (p + 1) + 1 ELSE 0
          /\ \A i \in 1..(Len(q) - (p + 1) + 1) : b[i] = q[(p + 1) + i - 1]
      BY <3>1, SubSeqProperties
    <3> HIDE DEF b
    <3>3. Len(b) = Len(q) - p
      <4>1. CASE p + 1 <= Len(q)
        BY <1>1, <1>2, <3>2, <4>1
      <4>2. CASE p = Len(q)
        BY <1>1, <1>2, <3>2, <4>2
      <4>. QED BY <1>1, <1>2, <4>1, <4>2
    <3>4. ASSUME NEW i \in 1..(Len(q) - p) PROVE b[i] = q[p + i]
      <4>1. i \in 1..(Len(q) - (p + 1) + 1) /\ (p + 1) + i - 1 = p + i
        BY <1>1, <1>2
      <4>. QED BY <3>2, <4>1
    <3>. QED BY <3>2, <3>3, <3>4
  <2>3. r = a \o b
    BY DEF RemoveAt
  <2> HIDE DEF a, b, r
  <2>4. /\ r \in Seq(Jobs) /\ Len(r) = Len(a) + Len(b)
        /\ \A i \in 1..(Len(a) + Len(b)) : r[i] = IF i <= Len(a) THEN a[i] ELSE b[i - Len(a)]
    BY <2>1, <2>2, <2>3, ConcatProperties
  <2>5. Len(r) = Len(q) - 1
    BY <1>1, <1>2, <2>1, <2>2, <2>4
  <2>6. ASSUME NEW i \in 1..Len(r) PROVE r[i] = IF i < p THEN q[i] ELSE q[i + 1]
    <3>1. CASE i < p
      BY <1>1, <1>2, <2>1, <2>4, <2>5, <3>1
    <3>2. CASE ~ (i < p)
      <4>1. i - Len(a) \in 1..(Len(q) - p) /\ p + (i - Len(a)) = i + 1 /\ ~ (i <= Len(a))
        BY <1>1, <1>2, <2>1, <2>5, <3>2
      <4>. QED BY <2>1, <2>2, <2>4, <2>5, <3>2, <4>1
    <3>. QED BY <3>1, <3>2
  <2>. QED BY <2>4, <2>5, <2>6
<1> HIDE DEF r
<1> DEFINE from(i) == IF i < p THEN i ELSE i + 1
<1>4. \A i \in 1..Len(r) : from(i) \in 1..Len(q) /\ from(i) # p /\ r[i] = q[from(i)]
  BY <1>1, <1>2, <1>3
<1>5. Once(r)
  <2> SUFFICES ASSUME NEW i \in 1..Len(r), NEW k \in 1..Len(r), r[i] = r[k] PROVE i = k
    BY DEF Once
  <2>1. from(i) = from(k)
    BY <1>4 DEF Once
  <2>. QED BY <1>2, <2>1
<1>6. ASSUME NEW x \in Elements(r) PROVE x \in Elements(q) \ {j}
  <2>1. PICK i \in 1..Len(r) : x = r[i]
    BY DEF Elements
  <2>2. x = q[from(i)] /\ from(i) \in 1..Len(q) /\ from(i) # p
    BY <1>4, <2>1
  <2> HIDE DEF from
  <2>. QED BY <1>2, <2>2 DEF Once, Elements
<1>7. ASSUME NEW x \in Elements(q), x # j PROVE x \in Elements(r)
  <2>1. PICK i \in 1..Len(q) : x = q[i]
    BY DEF Elements
  <2>2. i # p
    BY <1>2, <1>7, <2>1
  <2>3. CASE i < p
    <3>1. i \in 1..Len(r) /\ r[i] = q[i]
      BY <1>1, <1>2, <1>3, <2>3
    <3>. QED BY <2>1, <3>1 DEF Elements
  <2>4. CASE i > p
    <3>1. i - 1 \in 1..Len(r) /\ ~ (i - 1 < p) /\ (i - 1) + 1 = i
      BY <1>1, <1>2, <1>3, <2>4
    <3>2. r[i - 1] = q[i]
      BY <1>3, <3>1
    <3>. QED BY <2>1, <3>1, <3>2 DEF Elements
  <2>. QED BY <1>2, <2>2, <2>3, <2>4
<1>. QED BY <1>1, <1>2, <1>3, <1>5, <1>6, <1>7 DEF r

----------------------------------------------------------------------------
(* The ways in which the pool changes *)

\* The slots can be counted.
LEMMA SlotsFinite ==
  ASSUME NEW s \in PoolType
  PROVE  IsFiniteSet(s.slots) /\ Cardinality(s.slots) \in Nat
<1>1. s.slots \in SUBSET WorkerIds
  BY DEF PoolType
<1>. QED BY <1>1, WorkerIdAssumption, FS_Subset, FS_CardinalityType

\* The fields of a pool have their types.
LEMMA Fields ==
  ASSUME NEW s \in PoolType
  PROVE  /\ s.queue \in Seq(Jobs)
         /\ s.slots \in SUBSET WorkerIds
         /\ s.job \in [WorkerIds -> Jobs \cup {NoJob}]
         /\ s.doing \in [WorkerIds -> Seq(Jobs)]
         /\ s.outcome \in [Jobs -> Outcome]
         /\ s.answer \in [Jobs -> Jobs \cup {NoJob}]
BY DEF PoolType

\* What waits in the queue is a job.
LEMMA QueuedAreJobs ==
  ASSUME NEW s \in PoolType
  PROVE  Queued(s) \subseteq Jobs
<1>1. s.queue \in Seq(Jobs)
  BY Fields
<1>. QED BY <1>1 DEF Queued, Elements

\* Posts of one job are equal when their jobs are.
LEMMA OneElement ==
  ASSUME NEW a, NEW b
  PROVE  <<a>> # << >> /\ (<<a>> = <<b>> => a = b)
<1>1. Len(<<a>>) = 1 /\ Len(<< >>) = 0
  OBVIOUS
<1>2. <<a>>[1] = a /\ <<b>>[1] = b
  OBVIOUS
<1>. QED BY <1>1, <1>2

\* A free worker that may take a slot: of an idle slot, or without a slot while there
\* is room for one.
FreeWorker(s, w) ==
    /\ w \in WorkerIds
    /\ \/ w \in s.slots /\ s.job[w] = NoJob
       \/ w \notin s.slots /\ s.doing[w] = << >> /\ Cardinality(s.slots) < Workers

\* The head of the queue is posted to a free worker.
LEMMA PostKeeps ==
  ASSUME NEW s, PoolKept(s), s.queue # << >>, NEW w, FreeWorker(s, w),
         NEW t \in PoolType,
         t.queue = Tail(s.queue), t.slots = s.slots \cup {w},
         t.job = [s.job EXCEPT ![w] = Head(s.queue)],
         t.doing = [s.doing EXCEPT ![w] = <<Head(s.queue)>>],
         t.outcome = s.outcome, t.answer = s.answer
  PROVE  PoolKept(t)
<1> DEFINE j == Head(s.queue)
<1>1. /\ s \in PoolType /\ s.queue \in Seq(Jobs) /\ s.slots \in SUBSET WorkerIds
      /\ s.job \in [WorkerIds -> Jobs \cup {NoJob}]
      /\ s.doing \in [WorkerIds -> Seq(Jobs)]
      /\ s.outcome \in [Jobs -> Outcome]
      /\ w \in WorkerIds
  BY Fields DEF PoolKept, FreeWorker
<1>2. /\ Len(t.queue) = Len(s.queue) - 1 /\ Len(s.queue) \in Nat
      /\ j \in Queued(s) /\ j \in Jobs
      /\ Once(t.queue) /\ Queued(t) = Queued(s) \ {j}
  BY <1>1, TailQueue DEF PoolKept, Placed, Queued
<1>3. j # NoJob /\ s.outcome[j] = "waiting"
  BY <1>2, JobAssumption DEF PoolKept, Placed, QueuedWait
<1> HIDE DEF j
<1>4. /\ t.job[w] = j /\ t.doing[w] = <<j>>
      /\ \A v \in WorkerIds : v # w => t.job[v] = s.job[v] /\ t.doing[v] = s.doing[v]
  BY <1>1 DEF j
<1>5. \A v \in s.slots : v # w /\ s.job[v] # NoJob => s.job[v] # j
  BY <1>2 DEF PoolKept, Placed, SlotsWait
<1>6. Bounded(t)
  <2>1. Len(t.queue) <= QueueLimit
    BY <1>2, LimitAssumption DEF PoolKept, Bounded
  <2>2. IsFiniteSet(s.slots) /\ Cardinality(s.slots) \in Nat
    BY <1>1, SlotsFinite
  <2>3. CASE w \in s.slots
    <3>1. t.slots = s.slots
      BY <2>3
    <3>. QED BY <2>1, <3>1 DEF PoolKept, Bounded
  <2>4. CASE w \notin s.slots
    <3>1. Cardinality(t.slots) = Cardinality(s.slots) + 1
      BY <2>2, <2>4, FS_AddElement
    <3>2. Cardinality(s.slots) < Workers
      BY <2>4 DEF FreeWorker
    <3>. QED BY <2>1, <2>2, <3>1, <3>2, LimitAssumption DEF Bounded
  <2>. QED BY <2>3, <2>4
<1>7. Placed(t)
  <2>1. QueuedWait(t)
    BY <1>2 DEF PoolKept, Placed, QueuedWait
  <2>2. SlotsWait(t)
    <3> SUFFICES ASSUME NEW v \in t.slots, t.job[v] # NoJob
                 PROVE  t.outcome[t.job[v]] = "waiting" /\ t.job[v] \notin Queued(t)
      BY DEF SlotsWait
    <3>1. CASE v = w
      BY <1>2, <1>3, <1>4, <3>1
    <3>2. CASE v # w
      <4>1. v \in s.slots /\ t.job[v] = s.job[v]
        BY <1>1, <1>4, <3>2
      <4>. QED BY <1>2, <4>1 DEF PoolKept, Placed, SlotsWait
    <3>. QED BY <3>1, <3>2
  <2>3. SlotsDiffer(t)
    <3> SUFFICES ASSUME NEW u \in t.slots, NEW v \in t.slots, t.job[u] = t.job[v], t.job[u] # NoJob
                 PROVE  u = v
      BY DEF SlotsDiffer
    <3>1. \A x \in t.slots : x # w => x \in s.slots /\ t.job[x] = s.job[x]
      BY <1>1, <1>4
    <3>. QED BY <1>4, <1>5, <3>1 DEF PoolKept, Placed, SlotsDiffer
  <2>4. WaitingPlaced(t)
    <3> SUFFICES ASSUME NEW i \in Jobs, t.outcome[i] = "waiting"
                 PROVE  i \in Queued(t) \/ \E v \in t.slots : t.job[v] = i
      BY DEF WaitingPlaced
    <3>1. i \in Queued(s) \/ \E v \in s.slots : s.job[v] = i
      BY DEF PoolKept, Placed, WaitingPlaced
    <3>2. CASE i = j
      BY <1>4, <3>2
    <3>3. CASE i # j /\ i \in Queued(s)
      BY <1>2, <3>3
    <3>4. CASE \E v \in s.slots : s.job[v] = i
      <4>1. PICK v \in s.slots : s.job[v] = i
        BY <3>4
      <4>2. v # w
        BY <4>1, JobAssumption DEF FreeWorker
      <4>. QED BY <1>1, <1>4, <4>1, <4>2
    <3>. QED BY <3>1, <3>2, <3>3, <3>4
  <2>. QED BY <1>2, <2>1, <2>2, <2>3, <2>4 DEF Placed
<1>8. Posted(t)
  <2>1. SlotPosted(t)
    <3> SUFFICES ASSUME NEW v \in t.slots
                 PROVE  t.doing[v] = IF t.job[v] = NoJob THEN << >> ELSE <<t.job[v]>>
      BY DEF SlotPosted
    <3>1. CASE v = w
      BY <1>3, <1>4, <3>1
    <3>2. CASE v # w
      <4>1. v \in s.slots /\ t.job[v] = s.job[v] /\ t.doing[v] = s.doing[v]
        BY <1>1, <1>4, <3>2
      <4>. QED BY <4>1 DEF PoolKept, Posted, SlotPosted
    <3>. QED BY <3>1, <3>2
  <2>2. StrayPosted(t)
    <3> SUFFICES ASSUME NEW v \in WorkerIds \ t.slots
                 PROVE  /\ t.job[v] = NoJob
                        /\ \/ t.doing[v] = << >>
                           \/ \E i \in Jobs : t.doing[v] = <<i>> /\ t.outcome[i] \in Settled
      BY DEF StrayPosted
    <3>1. v \in WorkerIds \ s.slots /\ t.job[v] = s.job[v] /\ t.doing[v] = s.doing[v]
      BY <1>4
    <3>. QED BY <3>1 DEF PoolKept, Posted, StrayPosted
  <2>3. \A v \in WorkerIds : v # w => s.doing[v] # <<j>>
    <3> SUFFICES ASSUME NEW v \in WorkerIds, v # w, s.doing[v] = <<j>> PROVE FALSE
      OBVIOUS
    <3>1. CASE v \in s.slots
      <4>0. s.doing[v] = IF s.job[v] = NoJob THEN << >> ELSE <<s.job[v]>>
        BY <3>1 DEF PoolKept, Posted, SlotPosted
      <4>1. s.job[v] # NoJob /\ s.job[v] = j
        BY <4>0, OneElement
      <4>. QED BY <1>5, <3>1, <4>1
    <3>2. CASE v \notin s.slots
      <4>1. PICK i \in Jobs : <<j>> = <<i>> /\ s.outcome[i] \in Settled
        BY <3>2 DEF PoolKept, Posted, StrayPosted
      <4>2. i = j
        BY <4>1
      <4>. QED BY <1>3, <4>1, <4>2 DEF Settled
    <3>. QED BY <3>1, <3>2
  <2>4. PostedOnce(t)
    <3> SUFFICES ASSUME NEW u \in WorkerIds, NEW v \in WorkerIds,
                        t.doing[u] = t.doing[v], t.doing[u] # << >>
                 PROVE  u = v
      BY DEF PostedOnce
    <3>. QED BY <1>4, <2>3 DEF PoolKept, Posted, PostedOnce
  <2>. QED BY <2>1, <2>2, <2>4 DEF Posted
<1>9. Answered(t)
  BY DEF PoolKept, Answered
<1>. QED BY <1>6, <1>7, <1>8, <1>9 DEF PoolKept

\* A job leaves its slot: answered, with the slot kept, or with the worker and its slot
\* taken away.  An idle slot may be taken away as well.
Leaves(s, w, t) ==
    /\ t.queue = s.queue
    /\ t.job = [s.job EXCEPT ![w] = NoJob]
    /\ \/ t.slots = s.slots /\ t.doing = [s.doing EXCEPT ![w] = << >>]
       \/ /\ t.slots = s.slots \ {w}
          /\ t.doing = s.doing \/ t.doing = [s.doing EXCEPT ![w] = << >>]
    /\ \A i \in Jobs : i # s.job[w] => t.outcome[i] = s.outcome[i] /\ t.answer[i] = s.answer[i]
    /\ s.job[w] # NoJob
         => /\ t.outcome[s.job[w]] \in Settled
            /\ t.outcome[s.job[w]] = "resolved" => t.answer[s.job[w]] = s.job[w]

LEMMA LeaveKeeps ==
  ASSUME NEW s, PoolKept(s), NEW w \in s.slots, NEW t \in PoolType, Leaves(s, w, t)
  PROVE  PoolKept(t)
<1> USE DEF Leaves
<1> DEFINE j == s.job[w]
<1>1. /\ s \in PoolType /\ s.queue \in Seq(Jobs) /\ s.slots \in SUBSET WorkerIds
      /\ s.job \in [WorkerIds -> Jobs \cup {NoJob}]
      /\ s.doing \in [WorkerIds -> Seq(Jobs)]
      /\ s.outcome \in [Jobs -> Outcome]
      /\ w \in WorkerIds
      /\ j \in Jobs \cup {NoJob}
  BY Fields DEF PoolKept
<1>2. Queued(t) = Queued(s)
  BY DEF Queued
<1>3. j # NoJob => j \in Jobs /\ j \notin Queued(s)
  BY <1>1 DEF PoolKept, Placed, SlotsWait
<1>4. \A v \in s.slots : v # w /\ s.job[v] # NoJob => s.job[v] # j
  BY DEF PoolKept, Placed, SlotsDiffer
<1>5. /\ t.job[w] = NoJob
      /\ \A v \in WorkerIds : v # w => t.job[v] = s.job[v]
  BY <1>1
<1>6. /\ t.doing[w] = s.doing[w] \/ t.doing[w] = << >>
      /\ \A v \in WorkerIds : v # w => t.doing[v] = s.doing[v]
      /\ w \in t.slots => t.doing[w] = << >>
      /\ t.slots \subseteq s.slots /\ s.slots \ {w} \subseteq t.slots
  BY <1>1
<1>7. s.doing[w] = IF j = NoJob THEN << >> ELSE <<j>>
  BY DEF PoolKept, Posted, SlotPosted
<1>8. \A i \in Jobs : i # j => t.outcome[i] = s.outcome[i] /\ t.answer[i] = s.answer[i]
  OBVIOUS
<1>9. j # NoJob => /\ t.outcome[j] \in Settled
                   /\ t.outcome[j] = "resolved" => t.answer[j] = j
  OBVIOUS
<1> HIDE DEF j
<1>10. Bounded(t)
  <2>1. IsFiniteSet(s.slots) /\ Cardinality(s.slots) \in Nat
    BY <1>1, SlotsFinite
  <2>2. Cardinality(t.slots) <= Cardinality(s.slots) /\ Cardinality(t.slots) \in Nat
    BY <1>6, <2>1, FS_Subset, FS_CardinalityType
  <2>. QED BY <2>1, <2>2, LimitAssumption DEF PoolKept, Bounded
<1>11. Placed(t)
  <2>1. QueuedWait(t)
    <3> SUFFICES ASSUME NEW i \in Queued(s) PROVE t.outcome[i] = "waiting"
      BY <1>2 DEF QueuedWait
    <3>1. i \in Jobs /\ s.outcome[i] = "waiting"
      BY <1>1, QueuedAreJobs DEF PoolKept, Placed, QueuedWait
    <3>2. i # j
      BY <1>3, <3>1, JobAssumption
    <3>. QED BY <1>8, <3>1, <3>2
  <2>2. SlotsWait(t)
    <3> SUFFICES ASSUME NEW v \in t.slots, t.job[v] # NoJob
                 PROVE  t.outcome[t.job[v]] = "waiting" /\ t.job[v] \notin Queued(t)
      BY DEF SlotsWait
    <3>1. v # w /\ v \in s.slots /\ t.job[v] = s.job[v]
      BY <1>1, <1>5, <1>6
    <3>2. s.job[v] \in Jobs /\ s.job[v] # j
      BY <1>1, <1>4, <3>1
    <3>3. s.outcome[s.job[v]] = "waiting" /\ s.job[v] \notin Queued(s)
      BY <3>1 DEF PoolKept, Placed, SlotsWait
    <3>. QED BY <1>2, <1>8, <3>1, <3>2, <3>3
  <2>3. SlotsDiffer(t)
    <3> SUFFICES ASSUME NEW u \in t.slots, NEW v \in t.slots, t.job[u] = t.job[v], t.job[u] # NoJob
                 PROVE  u = v
      BY DEF SlotsDiffer
    <3>1. \A x \in t.slots : t.job[x] # NoJob => x \in s.slots /\ t.job[x] = s.job[x]
      BY <1>1, <1>5, <1>6
    <3>. QED BY <3>1 DEF PoolKept, Placed, SlotsDiffer
  <2>4. WaitingPlaced(t)
    <3> SUFFICES ASSUME NEW i \in Jobs, t.outcome[i] = "waiting"
                 PROVE  i \in Queued(t) \/ \E v \in t.slots : t.job[v] = i
      BY DEF WaitingPlaced
    <3>1. i # j
      BY <1>9, JobAssumption DEF Settled
    <3>2. i \in Queued(s) \/ \E v \in s.slots : s.job[v] = i
      BY <1>8, <3>1 DEF PoolKept, Placed, WaitingPlaced
    <3>3. CASE \E v \in s.slots : s.job[v] = i
      <4>1. PICK v \in s.slots : s.job[v] = i
        BY <3>3
      <4>2. v # w
        BY <3>1, <4>1 DEF j
      <4>3. v \in WorkerIds /\ v \in t.slots
        BY <1>1, <1>6, <4>2
      <4>. QED BY <1>5, <4>1, <4>2, <4>3
    <3>. QED BY <1>2, <3>2, <3>3
  <2>5. Once(t.queue)
    BY DEF PoolKept, Placed
  <2>. QED BY <2>1, <2>2, <2>3, <2>4, <2>5 DEF Placed
<1>12. Posted(t)
  <2>1. SlotPosted(t)
    <3> SUFFICES ASSUME NEW v \in t.slots
                 PROVE  t.doing[v] = IF t.job[v] = NoJob THEN << >> ELSE <<t.job[v]>>
      BY DEF SlotPosted
    <3>1. CASE v = w
      BY <1>5, <1>6, <3>1
    <3>2. CASE v # w
      <4>1. v \in s.slots /\ t.job[v] = s.job[v] /\ t.doing[v] = s.doing[v]
        BY <1>1, <1>5, <1>6, <3>2
      <4>. QED BY <4>1 DEF PoolKept, Posted, SlotPosted
    <3>. QED BY <3>1, <3>2
  <2>2. StrayPosted(t)
    <3> SUFFICES ASSUME NEW v \in WorkerIds \ t.slots
                 PROVE  /\ t.job[v] = NoJob
                        /\ \/ t.doing[v] = << >>
                           \/ \E i \in Jobs : t.doing[v] = <<i>> /\ t.outcome[i] \in Settled
      BY DEF StrayPosted
    <3>1. CASE v = w
      BY <1>3, <1>5, <1>6, <1>7, <1>9, <3>1
    <3>2. CASE v # w
      <4>1. v \in WorkerIds \ s.slots /\ t.job[v] = s.job[v] /\ t.doing[v] = s.doing[v]
        BY <1>5, <1>6, <3>2
      <4>2. s.job[v] = NoJob
        BY <4>1 DEF PoolKept, Posted, StrayPosted
      <4>3. CASE s.doing[v] # << >>
        <5>1. PICK i \in Jobs : s.doing[v] = <<i>> /\ s.outcome[i] \in Settled
          BY <4>1, <4>3 DEF PoolKept, Posted, StrayPosted
        <5>2. t.outcome[i] \in Settled
          <6>1. CASE i = j
            BY <1>9, <6>1, JobAssumption
          <6>2. CASE i # j
            BY <1>8, <5>1, <6>2
          <6>. QED BY <6>1, <6>2
        <5>. QED BY <4>1, <4>2, <5>1, <5>2
      <4>. QED BY <4>1, <4>2, <4>3
    <3>. QED BY <3>1, <3>2
  <2>3. PostedOnce(t)
    <3> SUFFICES ASSUME NEW u \in WorkerIds, NEW v \in WorkerIds,
                        t.doing[u] = t.doing[v], t.doing[u] # << >>
                 PROVE  u = v
      BY DEF PostedOnce
    <3>1. s.doing[u] = t.doing[u] /\ s.doing[v] = t.doing[v]
      BY <1>6
    <3>. QED BY <3>1 DEF PoolKept, Posted, PostedOnce
  <2>. QED BY <2>1, <2>2, <2>3 DEF Posted
<1>13. Answered(t)
  <2> SUFFICES ASSUME NEW i \in Jobs, t.outcome[i] = "resolved" PROVE t.answer[i] = i
    BY DEF Answered
  <2>1. CASE i = j
    BY <1>9, <2>1, JobAssumption
  <2>2. CASE i # j
    BY <1>8, <2>2 DEF PoolKept, Answered
  <2>. QED BY <2>1, <2>2
<1>. QED BY <1>10, <1>11, <1>12, <1>13 DEF PoolKept

\* The answer of a worker without a slot is read, or never comes.
LEMMA DropKeeps ==
  ASSUME NEW s, PoolKept(s), NEW w \in WorkerIds, w \notin s.slots, NEW t \in PoolType,
         t.queue = s.queue, t.slots = s.slots, t.job = s.job,
         t.doing = [s.doing EXCEPT ![w] = << >>],
         t.outcome = s.outcome, t.answer = s.answer
  PROVE  PoolKept(t)
<1>1. s \in PoolType /\ s.doing \in [WorkerIds -> Seq(Jobs)] /\ s.slots \in SUBSET WorkerIds
  BY Fields DEF PoolKept
<1>2. t.doing[w] = << >> /\ \A v \in WorkerIds : v # w => t.doing[v] = s.doing[v]
  BY <1>1
<1>3. Bounded(t) /\ Answered(t)
  BY DEF PoolKept, Bounded, Answered
<1>4. Queued(t) = Queued(s)
  BY DEF Queued
<1>5. Placed(t)
  BY <1>4 DEF PoolKept, Placed, QueuedWait, SlotsWait, SlotsDiffer, WaitingPlaced
<1>6. SlotPosted(t)
  <2> SUFFICES ASSUME NEW v \in t.slots
               PROVE  t.doing[v] = IF t.job[v] = NoJob THEN << >> ELSE <<t.job[v]>>
    BY DEF SlotPosted
  <2>1. t.doing[v] = s.doing[v]
    BY <1>1, <1>2
  <2>. QED BY <2>1 DEF PoolKept, Posted, SlotPosted
<1>7. StrayPosted(t)
  BY <1>2 DEF PoolKept, Posted, StrayPosted
<1>8. PostedOnce(t)
  BY <1>2 DEF PoolKept, Posted, PostedOnce
<1>. QED BY <1>3, <1>5, <1>6, <1>7, <1>8 DEF PoolKept, Posted

\* A job that is in no slot is rejected: one that is refused, or one that leaves the
\* queue.
LEMMA RejectKeeps ==
  ASSUME NEW s, PoolKept(s), NEW j \in Jobs, \A w \in s.slots : s.job[w] # j,
         NEW t \in PoolType,
         Once(t.queue), Queued(t) = Queued(s) \ {j}, Len(t.queue) <= QueueLimit,
         t.slots = s.slots, t.job = s.job, t.doing = s.doing,
         t.outcome = [s.outcome EXCEPT ![j] = "rejected"], t.answer = s.answer
  PROVE  PoolKept(t)
<1>1. /\ s \in PoolType /\ s.outcome \in [Jobs -> Outcome] /\ s.slots \in SUBSET WorkerIds
      /\ s.job \in [WorkerIds -> Jobs \cup {NoJob}]
  BY Fields DEF PoolKept
<1>2. /\ t.outcome[j] = "rejected"
      /\ \A i \in Jobs : i # j => t.outcome[i] = s.outcome[i]
  BY <1>1
<1>3. Bounded(t) /\ Answered(t)
  BY <1>2 DEF PoolKept, Bounded, Answered
<1>4. QueuedWait(t)
  <2> SUFFICES ASSUME NEW i \in Queued(t) PROVE t.outcome[i] = "waiting"
    BY DEF QueuedWait
  <2>1. i \in Jobs /\ i # j /\ s.outcome[i] = "waiting"
    BY <1>1, QueuedAreJobs DEF PoolKept, Placed, QueuedWait
  <2>. QED BY <1>2, <2>1
<1>5. SlotsWait(t)
  <2> SUFFICES ASSUME NEW v \in t.slots, t.job[v] # NoJob
               PROVE  t.outcome[t.job[v]] = "waiting" /\ t.job[v] \notin Queued(t)
    BY DEF SlotsWait
  <2>1. s.job[v] \in Jobs /\ s.job[v] # j
    BY <1>1
  <2>2. s.outcome[s.job[v]] = "waiting" /\ s.job[v] \notin Queued(s)
    BY DEF PoolKept, Placed, SlotsWait
  <2>. QED BY <1>2, <2>1, <2>2
<1>6. SlotsDiffer(t)
  BY DEF PoolKept, Placed, SlotsDiffer
<1>7. WaitingPlaced(t)
  <2> SUFFICES ASSUME NEW i \in Jobs, t.outcome[i] = "waiting"
               PROVE  i \in Queued(t) \/ \E v \in t.slots : t.job[v] = i
    BY DEF WaitingPlaced
  <2>1. i # j /\ s.outcome[i] = "waiting"
    BY <1>2
  <2>. QED BY <2>1 DEF PoolKept, Placed, WaitingPlaced
<1>8. Placed(t)
  BY <1>4, <1>5, <1>6, <1>7 DEF Placed
<1>9. StrayPosted(t)
  <2> SUFFICES ASSUME NEW v \in WorkerIds \ t.slots
               PROVE  /\ t.job[v] = NoJob
                      /\ \/ t.doing[v] = << >>
                         \/ \E i \in Jobs : t.doing[v] = <<i>> /\ t.outcome[i] \in Settled
    BY DEF StrayPosted
  <2>1. t.job[v] = NoJob
    BY DEF PoolKept, Posted, StrayPosted
  <2>2. CASE t.doing[v] # << >>
    <3>1. PICK i \in Jobs : s.doing[v] = <<i>> /\ s.outcome[i] \in Settled
      BY <2>2 DEF PoolKept, Posted, StrayPosted
    <3>2. t.outcome[i] \in Settled
      BY <1>2, <3>1 DEF Settled
    <3>. QED BY <2>1, <3>1, <3>2
  <2>. QED BY <2>1, <2>2
<1>10. Posted(t)
  BY <1>9 DEF PoolKept, Posted, SlotPosted, PostedOnce
<1>. QED BY <1>3, <1>8, <1>10 DEF PoolKept

\* A new job joins the queue.
LEMMA EnqueueKeeps ==
  ASSUME NEW s, PoolKept(s), NEW j \in Jobs, s.outcome[j] = "new", Len(s.queue) < QueueLimit,
         NEW t \in PoolType,
         t.queue = Append(s.queue, j),
         t.slots = s.slots, t.job = s.job, t.doing = s.doing,
         t.outcome = [s.outcome EXCEPT ![j] = "waiting"], t.answer = s.answer
  PROVE  PoolKept(t)
<1>1. /\ s \in PoolType /\ s.queue \in Seq(Jobs) /\ s.outcome \in [Jobs -> Outcome]
      /\ s.slots \in SUBSET WorkerIds
      /\ s.job \in [WorkerIds -> Jobs \cup {NoJob}]
  BY Fields DEF PoolKept
<1>2. /\ t.outcome[j] = "waiting"
      /\ \A i \in Jobs : i # j => t.outcome[i] = s.outcome[i]
  BY <1>1
<1>3. j \notin Queued(s) /\ \A w \in s.slots : s.job[w] # j
  BY JobAssumption DEF PoolKept, Placed, QueuedWait, SlotsWait
<1>4. /\ Once(t.queue) /\ Len(t.queue) = Len(s.queue) + 1 /\ Len(s.queue) \in Nat
      /\ Queued(t) = Queued(s) \cup {j}
  BY <1>1, <1>3, AppendQueue DEF PoolKept, Placed, Queued
<1>5. Bounded(t)
  BY <1>4, LimitAssumption DEF PoolKept, Bounded
<1>6. Answered(t)
  BY <1>2 DEF PoolKept, Answered
<1>7. QueuedWait(t)
  <2> SUFFICES ASSUME NEW i \in Queued(t), i # j PROVE t.outcome[i] = "waiting"
    BY <1>2 DEF QueuedWait
  <2>1. i \in Jobs /\ s.outcome[i] = "waiting"
    BY <1>1, <1>4, QueuedAreJobs DEF PoolKept, Placed, QueuedWait
  <2>. QED BY <1>2, <2>1
<1>8. SlotsWait(t)
  <2> SUFFICES ASSUME NEW v \in t.slots, t.job[v] # NoJob
               PROVE  t.outcome[t.job[v]] = "waiting" /\ t.job[v] \notin Queued(t)
    BY DEF SlotsWait
  <2>1. s.job[v] \in Jobs /\ s.job[v] # j
    BY <1>1, <1>3
  <2>2. s.outcome[s.job[v]] = "waiting" /\ s.job[v] \notin Queued(s)
    BY DEF PoolKept, Placed, SlotsWait
  <2>. QED BY <1>2, <1>4, <2>1, <2>2
<1>9. SlotsDiffer(t)
  BY DEF PoolKept, Placed, SlotsDiffer
<1>10. WaitingPlaced(t)
  <2> SUFFICES ASSUME NEW i \in Jobs, t.outcome[i] = "waiting", i # j
               PROVE  i \in Queued(t) \/ \E v \in t.slots : t.job[v] = i
    BY <1>4 DEF WaitingPlaced
  <2>1. s.outcome[i] = "waiting"
    BY <1>2
  <2>. QED BY <1>4, <2>1 DEF PoolKept, Placed, WaitingPlaced
<1>11. Placed(t)
  BY <1>4, <1>7, <1>8, <1>9, <1>10 DEF Placed
<1>12. StrayPosted(t)
  <2> SUFFICES ASSUME NEW v \in WorkerIds \ t.slots
               PROVE  /\ t.job[v] = NoJob
                      /\ \/ t.doing[v] = << >>
                         \/ \E i \in Jobs : t.doing[v] = <<i>> /\ t.outcome[i] \in Settled
    BY DEF StrayPosted
  <2>1. t.job[v] = NoJob
    BY DEF PoolKept, Posted, StrayPosted
  <2>2. CASE t.doing[v] # << >>
    <3>1. PICK i \in Jobs : s.doing[v] = <<i>> /\ s.outcome[i] \in Settled
      BY <2>2 DEF PoolKept, Posted, StrayPosted
    <3>2. i # j
      BY <3>1 DEF Settled
    <3>. QED BY <1>2, <2>1, <3>1, <3>2
  <2>. QED BY <2>1, <2>2
<1>13. Posted(t)
  BY <1>12 DEF PoolKept, Posted, SlotPosted, PostedOnce
<1>. QED BY <1>5, <1>6, <1>11, <1>13 DEF PoolKept

\* The pool is disposed of: every open job is rejected.
LEMMA EmptyKeeps ==
  ASSUME NEW s, PoolKept(s), NEW t \in PoolType,
         t.queue = << >>, t.slots = {}, t.job = [w \in WorkerIds |-> NoJob],
         t.doing = s.doing, t.answer = s.answer,
         \A j \in Jobs : t.outcome[j] = IF s.outcome[j] = "waiting" THEN "rejected"
                                        ELSE s.outcome[j]
  PROVE  PoolKept(t)
<1>1. /\ s \in PoolType /\ s.slots \in SUBSET WorkerIds
      /\ s.job \in [WorkerIds -> Jobs \cup {NoJob}]
  BY Fields DEF PoolKept
<1>2. Queued(t) = {} /\ Len(t.queue) = 0 /\ Cardinality(t.slots) = 0
  BY FS_EmptySet DEF Queued, Elements
<1>3. Bounded(t)
  BY <1>2, LimitAssumption DEF Bounded
<1>4. Answered(t)
  BY DEF PoolKept, Answered
<1>5. Placed(t)
  BY <1>2 DEF Placed, Once, QueuedWait, SlotsWait, SlotsDiffer, WaitingPlaced
<1>6. StrayPosted(t)
  <2> SUFFICES ASSUME NEW v \in WorkerIds, t.doing[v] # << >>
               PROVE  \E i \in Jobs : t.doing[v] = <<i>> /\ t.outcome[i] \in Settled
    BY DEF StrayPosted
  <2>1. CASE v \in s.slots
    <3>1. s.doing[v] = IF s.job[v] = NoJob THEN << >> ELSE <<s.job[v]>>
      BY <2>1 DEF PoolKept, Posted, SlotPosted
    <3>2. s.job[v] \in Jobs /\ s.outcome[s.job[v]] = "waiting"
      BY <1>1, <2>1, <3>1 DEF PoolKept, Placed, SlotsWait
    <3>3. t.outcome[s.job[v]] \in Settled
      BY <3>2 DEF Settled
    <3>. QED BY <3>1, <3>2, <3>3
  <2>2. CASE v \notin s.slots
    <3>1. PICK i \in Jobs : s.doing[v] = <<i>> /\ s.outcome[i] \in Settled
      BY <2>2 DEF PoolKept, Posted, StrayPosted
    <3>2. t.outcome[i] \in Settled
      BY <3>1 DEF Settled
    <3>. QED BY <3>1, <3>2
  <2>. QED BY <2>1, <2>2
<1>7. Posted(t)
  BY <1>6 DEF PoolKept, Posted, SlotPosted, PostedOnce
<1>. QED BY <1>3, <1>4, <1>5, <1>7 DEF PoolKept

----------------------------------------------------------------------------
(* The dispatch loop *)

\* While there is room for a slot there is a worker for it.
LEMMA UnusedExists ==
  ASSUME NEW s, PoolKept(s), Cardinality(s.slots) < Workers
  PROVE  Unused(s) # {}
<1> DEFINE stray == {w \in WorkerIds \ s.slots : s.doing[w] # << >>}
<1>1. s \in PoolType /\ s.slots \in SUBSET WorkerIds /\ s.doing \in [WorkerIds -> Seq(Jobs)]
  BY Fields DEF PoolKept
<1>2. IsFiniteSet(s.slots) /\ Cardinality(s.slots) \in Nat
  BY <1>1, SlotsFinite
<1>3. IsFiniteSet(Jobs) /\ Cardinality(Jobs) \in Nat
  BY JobAssumption, FS_CardinalityType
<1>4. Cardinality(stray) <= Cardinality(Jobs) /\ IsFiniteSet(stray) /\ Cardinality(stray) \in Nat
  <2> DEFINE f == [w \in stray |-> s.doing[w][1]]
  <2>1. \A w \in stray : \E j \in Jobs : s.doing[w] = <<j>> /\ f[w] = j
    BY DEF PoolKept, Posted, StrayPosted
  <2>2. f \in [stray -> Jobs]
    BY <2>1
  <2>3. ASSUME NEW v \in stray, NEW w \in stray, f[v] = f[w] PROVE v = w
    <3>1. s.doing[v] = s.doing[w] /\ s.doing[v] # << >>
      BY <2>1, <2>3
    <3>. QED BY <3>1 DEF PoolKept, Posted, PostedOnce
  <2>4. f \in Injection(stray, Jobs)
    BY <2>2, <2>3 DEF Injection, IsInjective
  <2>5. stray \in SUBSET WorkerIds
    OBVIOUS
  <2>6. IsFiniteSet(stray)
    BY <2>5, WorkerIdAssumption, FS_Subset
  <2> HIDE DEF f, stray
  <2>7. Cardinality(stray) <= Cardinality(Jobs)
    BY <1>3, <2>4, FS_Injection DEF ExistsInjection
  <2>. QED BY <2>6, <2>7, FS_CardinalityType
<1>5. ASSUME Unused(s) = {} PROVE FALSE
  <2>1. WorkerIds = s.slots \cup stray
    BY <1>1, <1>5 DEF Unused
  <2>2. Cardinality(s.slots \cap stray) \in Nat
    BY <1>2, FS_Intersection, FS_CardinalityType
  <2> HIDE DEF stray
  <2>3. Cardinality(s.slots \cup stray)
          = Cardinality(s.slots) + Cardinality(stray) - Cardinality(s.slots \cap stray)
    BY <1>2, <1>4, FS_Union
  <2>. QED BY <1>2, <1>3, <1>4, <2>1, <2>2, <2>3, WorkerIdAssumption, LimitAssumption
<1>. QED BY <1>5

\* The slot that dispatch takes can be given a job.
LEMMA TakenSlotIsFree ==
  ASSUME NEW s, PoolKept(s), MayTakeSlot(s)
  PROVE  FreeWorker(s, TakenSlot(s)) /\ s.doing[TakenSlot(s)] = << >>
<1> DEFINE w == TakenSlot(s)
<1>1. s.slots \in SUBSET WorkerIds
  BY Fields DEF PoolKept
<1>2. CASE Idle(s) # {}
  <2>1. w \in Idle(s)
    BY <1>2 DEF TakenSlot
  <2> HIDE DEF w
  <2>2. w \in s.slots /\ s.job[w] = NoJob
    BY <2>1 DEF Idle
  <2>3. s.doing[w] = << >>
    BY <2>2 DEF PoolKept, Posted, SlotPosted
  <2>. QED BY <1>1, <2>2, <2>3 DEF FreeWorker, w
<1>3. CASE Idle(s) = {}
  <2>1. Cardinality(s.slots) < Workers
    BY <1>3 DEF MayTakeSlot
  <2>2. w \in Unused(s)
    BY <1>3, <2>1, UnusedExists DEF TakenSlot
  <2> HIDE DEF w
  <2>. QED BY <2>1, <2>2 DEF FreeWorker, Unused, w
<1>. QED BY <1>2, <1>3

\* The record t is the pool s after a post, or after a worker is taken away with its
\* slot and a job rejected.
PostedFields(s, w, j, t) ==
    /\ t \in PoolType
    /\ t.queue = Tail(s.queue) /\ t.slots = s.slots \cup {w}
    /\ t.job = [s.job EXCEPT ![w] = j]
    /\ t.doing = [s.doing EXCEPT ![w] = <<j>>]
    /\ t.outcome = s.outcome /\ t.answer = s.answer

FailedFields(s, w, j, t) ==
    /\ t \in PoolType
    /\ t.queue = s.queue /\ t.slots = s.slots \ {w}
    /\ t.job = [s.job EXCEPT ![w] = NoJob]
    /\ t.doing = s.doing /\ t.answer = s.answer
    /\ t.outcome = IF j = NoJob THEN s.outcome ELSE [s.outcome EXCEPT ![j] = "rejected"]

\* The record after a post.
LEMMA PostedRecord ==
  ASSUME NEW s \in PoolType, NEW w \in WorkerIds, NEW j \in Jobs, s.queue # << >>,
         s.doing[w] = << >>,
         NEW u, u = [s EXCEPT !.queue = Tail(@)],
         NEW t, t = [u EXCEPT !.slots = @ \cup {w}, !.job[w] = j, !.doing[w] = Append(@, j)]
  PROVE  PostedFields(s, w, j, t)
<1>1. /\ s.queue \in Seq(Jobs) /\ s.slots \in SUBSET WorkerIds
      /\ s.job \in [WorkerIds -> Jobs \cup {NoJob}]
      /\ s.doing \in [WorkerIds -> Seq(Jobs)]
      /\ s.outcome \in [Jobs -> Outcome] /\ s.answer \in [Jobs -> Jobs \cup {NoJob}]
  BY Fields
<1>2. Tail(s.queue) \in Seq(Jobs) /\ Append(s.doing[w], j) = <<j>> /\ <<j>> \in Seq(Jobs)
  BY <1>1
<1>3. u.queue = Tail(s.queue) /\ u \in PoolType
  BY <1>2 DEF PoolType
<1>4. /\ u.slots = s.slots /\ u.job = s.job /\ u.doing = s.doing
      /\ u.outcome = s.outcome /\ u.answer = s.answer
  BY DEF PoolType
<1>5. t = [u EXCEPT !.slots = s.slots \cup {w}, !.job = [s.job EXCEPT ![w] = j],
                    !.doing = [s.doing EXCEPT ![w] = <<j>>]]
  BY <1>2, <1>3, <1>4 DEF PoolType
<1>6. /\ s.slots \cup {w} \in SUBSET WorkerIds
      /\ [s.job EXCEPT ![w] = j] \in [WorkerIds -> Jobs \cup {NoJob}]
      /\ [s.doing EXCEPT ![w] = <<j>>] \in [WorkerIds -> Seq(Jobs)]
  BY <1>1, <1>2
<1>7. t.queue = Tail(s.queue) /\ t.slots = s.slots \cup {w}
      /\ t.job = [s.job EXCEPT ![w] = j]
      /\ t.doing = [s.doing EXCEPT ![w] = <<j>>]
      /\ t.outcome = s.outcome /\ t.answer = s.answer
  BY <1>3, <1>4, <1>5 DEF PoolType
<1>8. t \in PoolType
  BY <1>3, <1>5, <1>6 DEF PoolType
<1>. QED BY <1>7, <1>8 DEF PostedFields

\* The record after a slot was finished with an error.
LEMMA FailedRecord ==
  ASSUME NEW s \in PoolType, NEW w \in WorkerIds, NEW j \in Jobs \cup {NoJob},
         NEW t, t = Rejected(Removed(s, w), j)
  PROVE  FailedFields(s, w, j, t)
<1> DEFINE u == Removed(s, w)
<1>1. /\ s.queue \in Seq(Jobs) /\ s.slots \in SUBSET WorkerIds
      /\ s.job \in [WorkerIds -> Jobs \cup {NoJob}]
      /\ s.doing \in [WorkerIds -> Seq(Jobs)]
      /\ s.outcome \in [Jobs -> Outcome] /\ s.answer \in [Jobs -> Jobs \cup {NoJob}]
  BY Fields
<1>2. u = [s EXCEPT !.slots = s.slots \ {w}, !.job = [s.job EXCEPT ![w] = NoJob]]
  BY DEF Removed, PoolType
<1>3. /\ s.slots \ {w} \in SUBSET WorkerIds
      /\ [s.job EXCEPT ![w] = NoJob] \in [WorkerIds -> Jobs \cup {NoJob}]
  BY <1>1
<1> HIDE DEF u
<1>4. /\ u.queue = s.queue /\ u.slots = s.slots \ {w} /\ u.job = [s.job EXCEPT ![w] = NoJob]
      /\ u.doing = s.doing /\ u.outcome = s.outcome /\ u.answer = s.answer
  BY <1>2 DEF PoolType
<1>5. u \in PoolType
  BY <1>2, <1>3 DEF PoolType
<1>6. CASE j = NoJob
  <2>1. t = u
    BY <1>6 DEF Rejected, u
  <2>. QED BY <1>4, <1>5, <1>6, <2>1 DEF FailedFields
<1>7. CASE j # NoJob
  <2>0. t = Rejected(u, j)
    BY DEF u
  <2>1. t = [u EXCEPT !.outcome = [s.outcome EXCEPT ![j] = "rejected"]]
    BY <1>4, <1>5, <1>7, <2>0 DEF Rejected, PoolType
  <2>2. [s.outcome EXCEPT ![j] = "rejected"] \in [Jobs -> Outcome]
    BY <1>1 DEF Outcome, Settled
  <2>3. /\ t.queue = u.queue /\ t.slots = u.slots /\ t.job = u.job
        /\ t.doing = u.doing /\ t.answer = u.answer
        /\ t.outcome = [s.outcome EXCEPT ![j] = "rejected"]
    BY <1>5, <2>1 DEF PoolType
  <2>4. t \in PoolType
    BY <1>5, <2>1, <2>2 DEF PoolType
  <2>. QED BY <1>4, <1>7, <2>3, <2>4 DEF FailedFields
<1>. QED BY <1>6, <1>7

Stuck(s) == s.queue = << >> \/ ~ MayTakeSlot(s)

\* A round of the loop keeps the pool, and takes a job from the queue.
LEMMA ServedHeadKeeps ==
  ASSUME NEW s, PoolKept(s), ~ Stuck(s)
  PROVE  /\ PoolKept(ServedHead(s))
         /\ Len(s.queue) \in Nat /\ Len(ServedHead(s).queue) = Len(s.queue) - 1
<1>1. PICK j : j = Head(s.queue)
  OBVIOUS
<1>2. PICK w : w = TakenSlot(s)
  OBVIOUS
<1>3. PICK taken : taken = [s EXCEPT !.queue = Tail(@)]
  OBVIOUS
<1>4. PICK u : u = [taken EXCEPT !.slots = @ \cup {w}, !.job[w] = j, !.doing[w] = Append(@, j)]
  OBVIOUS
<1>5. PICK t : t = ServedHead(s)
  OBVIOUS
<1>6. s.queue # << >> /\ MayTakeSlot(s) /\ s \in PoolType
  BY DEF Stuck, PoolKept
<1>7. FreeWorker(s, w) /\ s.doing[w] = << >> /\ w \in WorkerIds
  BY <1>2, <1>6, TakenSlotIsFree DEF FreeWorker
<1>8. /\ s.queue \in Seq(Jobs) /\ s.slots \in SUBSET WorkerIds
      /\ s.job \in [WorkerIds -> Jobs \cup {NoJob}]
      /\ s.doing \in [WorkerIds -> Seq(Jobs)]
      /\ s.outcome \in [Jobs -> Outcome]
  BY <1>6, Fields
<1>9. /\ j \in Jobs /\ j # NoJob /\ Len(s.queue) \in Nat
      /\ Len(Tail(s.queue)) = Len(s.queue) - 1 /\ Tail(s.queue) \in Seq(Jobs)
  BY <1>1, <1>6, <1>8, JobAssumption
<1>10. t = IF j \in Uncloneable THEN Rejected(Removed(taken, w), j) ELSE u
  BY <1>1, <1>2, <1>3, <1>4, <1>5, <1>6 DEF ServedHead
<1>11. /\ u \in PoolType
       /\ u.queue = Tail(s.queue) /\ u.slots = s.slots \cup {w}
       /\ u.job = [s.job EXCEPT ![w] = j]
       /\ u.doing = [s.doing EXCEPT ![w] = <<j>>]
       /\ u.outcome = s.outcome /\ u.answer = s.answer
  <2>1. PostedFields(s, w, j, u)
    BY <1>3, <1>4, <1>6, <1>7, <1>9, PostedRecord
  <2>. QED BY <2>1 DEF PostedFields
<1>12. /\ taken \in PoolType
       /\ taken.queue = Tail(s.queue) /\ taken.slots = s.slots
       /\ taken.job = s.job /\ taken.doing = s.doing
       /\ taken.outcome = s.outcome /\ taken.answer = s.answer
  <2>1. taken.queue = Tail(s.queue) /\ taken \in PoolType
    BY <1>3, <1>6, <1>9 DEF PoolType
  <2>2. /\ taken.slots = s.slots /\ taken.job = s.job /\ taken.doing = s.doing
        /\ taken.outcome = s.outcome /\ taken.answer = s.answer
    BY <1>3, <1>6 DEF PoolType
  <2>. QED BY <2>1, <2>2
<1>13. PoolKept(u)
  BY <1>1, <1>6, <1>7, <1>11, PostKeeps
<1>14. CASE j \notin Uncloneable
  BY <1>5, <1>9, <1>10, <1>11, <1>13, <1>14
<1>15. CASE j \in Uncloneable
  <2>1. t = Rejected(Removed(taken, w), j)
    BY <1>10, <1>15
  <2>2. /\ t \in PoolType
        /\ t.queue = Tail(s.queue) /\ t.slots = s.slots \ {w}
        /\ t.job = [s.job EXCEPT ![w] = NoJob]
        /\ t.doing = s.doing /\ t.answer = s.answer
        /\ t.outcome = [s.outcome EXCEPT ![j] = "rejected"]
    <3>1. FailedFields(taken, w, j, t)
      BY <1>7, <1>9, <1>12, <2>1, FailedRecord
    <3>. QED BY <1>9, <1>12, <3>1 DEF FailedFields
  <2>3. w \in u.slots /\ u.job[w] = j /\ t.queue = u.queue /\ t.slots = u.slots \ {w}
    BY <1>7, <1>8, <1>11, <2>2
  <2>4. t.job = [u.job EXCEPT ![w] = NoJob]
    BY <1>7, <1>8, <1>11, <2>2
  <2>5. t.doing = [u.doing EXCEPT ![w] = << >>]
    BY <1>7, <1>8, <1>11, <2>2
  <2>6. /\ \A i \in Jobs : i # j => t.outcome[i] = u.outcome[i] /\ t.answer[i] = u.answer[i]
        /\ t.outcome[j] = "rejected"
    BY <1>8, <1>9, <1>11, <2>2
  <2>7. t.outcome[j] \in Settled /\ t.outcome[j] # "resolved"
    BY <2>6 DEF Settled
  <2>8. PoolKept(t)
    <3>1. Leaves(u, w, t)
      BY <2>3, <2>4, <2>5, <2>6, <2>7 DEF Leaves
    <3>. QED BY <1>13, <2>2, <2>3, <3>1, LeaveKeeps
  <2>. QED BY <1>5, <1>9, <2>2, <2>8
<1>. QED BY <1>14, <1>15

\* The loop keeps the pool, and ends because the queue is empty or every slot is busy.
LEMMA DispatchedKeeps ==
  ASSUME NEW s, PoolKept(s)
  PROVE  PoolKept(Dispatched(s)) /\ Stuck(Dispatched(s))
<1> DEFINE n == Len(s.queue)
<1>1. n \in Nat
  BY Fields DEF PoolKept
<1>2. PICK served : Rounds(s, served, n) /\ Dispatched(s) = served[n]
  BY <1>1, DispatchedRounds
<1> DEFINE Right(i) == /\ PoolKept(served[i])
                       /\ Stuck(served[i]) \/ Len(served[i].queue) = n - i
<1> DEFINE S == {i \in Nat : i \in 0..n => Right(i)}
<1>3. \A i \in 0..n : served[i] = IF i = 0 THEN s ELSE ServedHead(served[i - 1])
  BY <1>2 DEF Rounds
<1>4. 0 \in S
  <2>1. served[0] = s
    BY <1>1, <1>3
  <2>2. Right(0)
    BY <1>1, <2>1
  <2>. QED BY <2>2
<1>5. ASSUME NEW i \in S PROVE i + 1 \in S
  <2>1. i \in Nat /\ i + 1 \in Nat
    OBVIOUS
  <2>2. ASSUME i + 1 \in 0..n PROVE Right(i + 1)
    <3>1. i \in 0..n /\ i + 1 # 0 /\ (i + 1) - 1 = i
      BY <1>1, <2>1, <2>2
    <3>2. served[i + 1] = ServedHead(served[i])
      BY <1>3, <2>2, <3>1
    <3>3. Right(i)
      BY <3>1
    <3>4. CASE Stuck(served[i])
      <4>1. ServedHead(served[i]) = served[i]
        BY <3>4 DEF Stuck, ServedHead
      <4>. QED BY <3>2, <3>3, <3>4, <4>1
    <3>5. CASE ~ Stuck(served[i])
      <4>1. /\ PoolKept(served[i + 1])
            /\ Len(served[i + 1].queue) = Len(served[i].queue) - 1
        BY <3>2, <3>3, <3>5, ServedHeadKeeps
      <4>2. Len(served[i].queue) = n - i
        BY <3>3, <3>5
      <4>3. Len(served[i + 1].queue) = n - (i + 1)
        BY <1>1, <2>1, <4>1, <4>2
      <4>. QED BY <4>1, <4>3
    <3>. QED BY <3>4, <3>5
  <2> HIDE DEF Right
  <2>. QED BY <2>1, <2>2
<1>6. S = Nat
  <2>1. S \in SUBSET Nat
    OBVIOUS
  <2> HIDE DEF S
  <2>. QED BY <1>4, <1>5, <2>1, SetInduction
<1>7. Right(n)
  <2> HIDE DEF Right
  <2>1. n \in S /\ n \in 0..n
    BY <1>1, <1>6
  <2>. QED BY <2>1
<1>8. Stuck(served[n])
  <2>1. CASE Len(served[n].queue) = n - n
    <3>1. served[n].queue \in Seq(Jobs) /\ Len(served[n].queue) = 0
      BY <1>1, <1>7, <2>1, Fields DEF PoolKept
    <3>2. served[n].queue = << >>
      BY <3>1, EmptySeq
    <3>. QED BY <3>2 DEF Stuck
  <2>. QED BY <1>7, <2>1
<1>. QED BY <1>2, <1>7, <1>8

\* A pool that dispatched has jobs in its queue only when it has all its slots and each
\* of them has a job.
Conserving(s) ==
    s.queue # << >> => Cardinality(s.slots) = Workers /\ \A w \in s.slots : s.job[w] # NoJob

\* A dispatch stops early only while every slot is busy.
LEMMA StuckConserves ==
  ASSUME NEW s, PoolKept(s), Stuck(s)
  PROVE  Conserving(s)
<1>1. Cardinality(s.slots) \in Nat /\ Cardinality(s.slots) <= Workers
  BY SlotsFinite DEF PoolKept, Bounded
<1>. QED BY <1>1, LimitAssumption DEF Stuck, MayTakeSlot, Idle, Conserving

----------------------------------------------------------------------------
(* Each action keeps the invariant *)

PoolInv == PoolKept(Pool) /\ Conserving(Pool)

\* The record and the variables.
LEMMA PoolFields ==
  /\ Pool.queue = queue /\ Pool.slots = slots /\ Pool.job = job
  /\ Pool.doing = doing /\ Pool.outcome = outcome /\ Pool.answer = answer
BY DEF Pool

\* A step of the code makes the pool the record it computed.
LEMMA BecomePool ==
  ASSUME NEW t \in PoolType, Become(t)
  PROVE  Pool' = t
<1>1. /\ queue' = t.queue /\ slots' = t.slots /\ job' = t.job
      /\ doing' = t.doing /\ outcome' = t.outcome /\ answer' = t.answer
  BY DEF Become
<1>2. Pool' = [queue |-> t.queue, slots |-> t.slots, job |-> t.job, doing |-> t.doing,
               outcome |-> t.outcome, answer |-> t.answer]
  BY <1>1 DEF Pool
<1>3. t = [queue |-> t.queue, slots |-> t.slots, job |-> t.job, doing |-> t.doing,
           outcome |-> t.outcome, answer |-> t.answer]
  BY DEF PoolType
<1>. QED BY <1>2, <1>3

\* A step that dispatches nothing.
LEMMA BecomeKept ==
  ASSUME NEW t, PoolKept(t), Conserving(t), Become(t)
  PROVE  PoolInv'
<1>1. Pool' = t
  BY BecomePool DEF PoolKept
<1>. QED BY <1>1 DEF PoolInv

\* A step that ends with the dispatch.
LEMMA BecomeDispatched ==
  ASSUME NEW t, PoolKept(t), Become(Dispatched(t))
  PROVE  PoolInv'
<1>1. PoolKept(Dispatched(t)) /\ Conserving(Dispatched(t))
  BY DispatchedKeeps, StuckConserves
<1>. QED BY <1>1, BecomeKept

\* The record after a job was rejected.
LEMMA RejectedRecord ==
  ASSUME NEW s \in PoolType, NEW j \in Jobs, NEW t, t = Rejected(s, j)
  PROVE  /\ t \in PoolType
         /\ t.queue = s.queue /\ t.slots = s.slots /\ t.job = s.job /\ t.doing = s.doing
         /\ t.outcome = [s.outcome EXCEPT ![j] = "rejected"] /\ t.answer = s.answer
<1>1. s.outcome \in [Jobs -> Outcome]
  BY Fields
<1>2. [s.outcome EXCEPT ![j] = "rejected"] \in [Jobs -> Outcome]
  BY <1>1 DEF Outcome, Settled
<1>3. t = [s EXCEPT !.outcome = [s.outcome EXCEPT ![j] = "rejected"]]
  BY JobAssumption DEF Rejected, PoolType
<1>4. t \in PoolType
  BY <1>2, <1>3 DEF PoolType
<1>5. /\ t.queue = s.queue /\ t.slots = s.slots /\ t.job = s.job /\ t.doing = s.doing
      /\ t.outcome = [s.outcome EXCEPT ![j] = "rejected"] /\ t.answer = s.answer
  BY <1>3 DEF PoolType
<1>. QED BY <1>4, <1>5

\* A new job that is not taken.
LEMMA RefusalKeeps ==
  ASSUME PoolInv, NEW j \in Jobs, outcome[j] = "new", Become(Rejected(Pool, j))
  PROVE  PoolInv'
<1>1. PICK t : t = Rejected(Pool, j)
  OBVIOUS
<1>2. PoolKept(Pool) /\ Pool \in PoolType /\ Pool.outcome[j] = "new"
  BY PoolFields DEF PoolInv, PoolKept
<1>3. /\ t \in PoolType
      /\ t.queue = Pool.queue /\ t.slots = Pool.slots /\ t.job = Pool.job
      /\ t.doing = Pool.doing
      /\ t.outcome = [Pool.outcome EXCEPT ![j] = "rejected"] /\ t.answer = Pool.answer
  BY <1>1, <1>2, RejectedRecord
<1>4. j \notin Queued(Pool) /\ \A w \in Pool.slots : Pool.job[w] # j
  BY <1>2, JobAssumption DEF PoolKept, Placed, QueuedWait, SlotsWait
<1>5. Once(t.queue) /\ Queued(t) = Queued(Pool) \ {j} /\ Len(t.queue) <= QueueLimit
  BY <1>2, <1>3, <1>4 DEF PoolKept, Placed, Bounded, Queued
<1>6. PoolKept(t)
  BY <1>2, <1>3, <1>4, <1>5, RejectKeeps
<1>7. Conserving(t)
  BY <1>3 DEF PoolInv, Conserving
<1>. QED BY <1>1, <1>6, <1>7, BecomeKept

\* submit refuses the job.
LEMMA RefuseKeeps ==
  ASSUME PoolInv, NEW j \in Jobs, Refuse(j)
  PROVE  PoolInv'
BY RefusalKeeps DEF Refuse

\* submit queues the job, or finds the queue full.
LEMMA SubmitKeeps ==
  ASSUME PoolInv, NEW j \in Jobs, Submit(j)
  PROVE  PoolInv'
<1>1. PoolKept(Pool) /\ Pool \in PoolType /\ outcome[j] = "new" /\ Pool.outcome[j] = "new"
  BY PoolFields DEF PoolInv, PoolKept, Submit
<1>2. CASE Len(queue) >= QueueLimit
  <2>1. Become(Rejected(Pool, j))
    BY <1>2 DEF Submit
  <2>. QED BY <1>1, <2>1, RefusalKeeps
<1>3. CASE ~ (Len(queue) >= QueueLimit)
  <2>1. PICK t : t = [Pool EXCEPT !.queue = Append(@, j), !.outcome[j] = "waiting"]
    OBVIOUS
  <2>2. Become(Dispatched(t))
    BY <1>3, <2>1 DEF Submit
  <2>3. /\ Pool.queue \in Seq(Jobs) /\ Pool.outcome \in [Jobs -> Outcome]
        /\ Len(Pool.queue) < QueueLimit
    <3>1. Pool.queue \in Seq(Jobs) /\ Pool.outcome \in [Jobs -> Outcome]
      BY <1>1, Fields
    <3>2. Len(Pool.queue) \in Nat /\ ~ (Len(Pool.queue) >= QueueLimit)
      BY <1>3, <3>1, PoolFields
    <3>. QED BY <3>1, <3>2, LimitAssumption
  <2>4. t = [Pool EXCEPT !.queue = Append(Pool.queue, j),
                         !.outcome = [Pool.outcome EXCEPT ![j] = "waiting"]]
    BY <1>1, <2>1 DEF PoolType
  <2>5. /\ Append(Pool.queue, j) \in Seq(Jobs)
        /\ [Pool.outcome EXCEPT ![j] = "waiting"] \in [Jobs -> Outcome]
    BY <2>3 DEF Outcome
  <2>6. t \in PoolType
    BY <1>1, <2>4, <2>5 DEF PoolType
  <2>7. /\ t.queue = Append(Pool.queue, j)
        /\ t.slots = Pool.slots /\ t.job = Pool.job /\ t.doing = Pool.doing
        /\ t.outcome = [Pool.outcome EXCEPT ![j] = "waiting"] /\ t.answer = Pool.answer
    BY <1>1, <2>4 DEF PoolType
  <2>8. Len(Pool.queue) < QueueLimit
    BY <2>3
  <2>9. PoolKept(t)
    BY <1>1, <2>6, <2>7, <2>8, EnqueueKeeps
  <2>. QED BY <2>2, <2>9, BecomeDispatched
<1>. QED BY <1>2, <1>3

\* The worker of a slot is taken away, with its post in it or lost.
LEMMA FailedSlotKeeps ==
  ASSUME NEW s, PoolKept(s), NEW w \in s.slots,
         NEW u, u = s \/ u = [s EXCEPT !.doing[w] = << >>],
         Become(FailedSlot(u, w))
  PROVE  PoolInv'
<1>1. /\ s \in PoolType /\ s.slots \in SUBSET WorkerIds /\ w \in WorkerIds
      /\ s.job \in [WorkerIds -> Jobs \cup {NoJob}]
      /\ s.doing \in [WorkerIds -> Seq(Jobs)]
      /\ s.outcome \in [Jobs -> Outcome]
  BY Fields DEF PoolKept
<1>2. /\ u \in PoolType
      /\ u.queue = s.queue /\ u.slots = s.slots /\ u.job = s.job
      /\ u.outcome = s.outcome /\ u.answer = s.answer
      /\ u.doing = s.doing \/ u.doing = [s.doing EXCEPT ![w] = << >>]
  <2>1. CASE u = s
    BY <1>1, <2>1
  <2>2. CASE u = [s EXCEPT !.doing[w] = << >>]
    <3>1. u = [s EXCEPT !.doing = [s.doing EXCEPT ![w] = << >>]]
      BY <1>1, <2>2 DEF PoolType
    <3>2. [s.doing EXCEPT ![w] = << >>] \in [WorkerIds -> Seq(Jobs)]
      BY <1>1
    <3>3. u \in PoolType
      BY <1>1, <3>1, <3>2 DEF PoolType
    <3>4. /\ u.queue = s.queue /\ u.slots = s.slots /\ u.job = s.job
          /\ u.outcome = s.outcome /\ u.answer = s.answer
          /\ u.doing = [s.doing EXCEPT ![w] = << >>]
      BY <1>1, <3>1 DEF PoolType
    <3>. QED BY <3>3, <3>4
  <2>. QED BY <2>1, <2>2
<1>3. PICK j : j = s.job[w]
  OBVIOUS
<1>4. PICK t : t = Rejected(Removed(u, w), j)
  OBVIOUS
<1>5. j \in Jobs \cup {NoJob}
  BY <1>1, <1>3
<1>6. FailedFields(u, w, j, t)
  BY <1>1, <1>2, <1>4, <1>5, FailedRecord
<1>7. /\ t \in PoolType
      /\ t.queue = s.queue /\ t.slots = s.slots \ {w}
      /\ t.job = [s.job EXCEPT ![w] = NoJob]
      /\ t.doing = u.doing /\ t.answer = s.answer
      /\ t.outcome = IF j = NoJob THEN s.outcome ELSE [s.outcome EXCEPT ![j] = "rejected"]
  BY <1>2, <1>6 DEF FailedFields
<1>8. \A i \in Jobs : i # j => t.outcome[i] = s.outcome[i] /\ t.answer[i] = s.answer[i]
  BY <1>1, <1>7
<1>9. j # NoJob => t.outcome[j] \in Settled /\ t.outcome[j] # "resolved"
  BY <1>1, <1>5, <1>7 DEF Settled
<1>10. Leaves(s, w, t)
  BY <1>2, <1>3, <1>7, <1>8, <1>9 DEF Leaves
<1>11. PoolKept(t)
  BY <1>7, <1>10, LeaveKeeps
<1>12. Become(Dispatched(t))
  BY <1>2, <1>3, <1>4 DEF FailedSlot
<1>. QED BY <1>11, <1>12, BecomeDispatched

\* The time of a job is over.
LEMMA TimeoutKeeps ==
  ASSUME PoolInv, NEW w \in WorkerIds, Timeout(w)
  PROVE  PoolInv'
<1>1. PoolKept(Pool) /\ Pool.job[w] # NoJob /\ Become(FailedSlot(Pool, w))
  BY PoolFields DEF PoolInv, Timeout
<1>2. w \in Pool.slots
  BY <1>1 DEF PoolKept, Posted, StrayPosted
<1>. QED BY <1>1, <1>2, FailedSlotKeeps

\* The worker of a slot fails or exits.
LEMMA WorkerEndsKeeps ==
  ASSUME PoolInv, NEW w \in WorkerIds, WorkerEnds(w)
  PROVE  PoolInv'
<1>1. PICK u : u = [Pool EXCEPT !.doing[w] = << >>]
  OBVIOUS
<1>2. PoolKept(Pool) /\ w \in Pool.slots /\ Become(FailedSlot(u, w))
  BY <1>1, PoolFields DEF PoolInv, WorkerEnds
<1>. QED BY <1>1, <1>2, FailedSlotKeeps

\* The signal of a job is aborted.
LEMMA AbortKeeps ==
  ASSUME PoolInv, NEW j \in Jobs, Abort(j)
  PROVE  PoolInv'
<1>1. PoolKept(Pool) /\ Pool \in PoolType /\ Pool.outcome[j] = "waiting"
  BY PoolFields DEF PoolInv, PoolKept, Abort
<1>2. CASE \E w \in slots : job[w] = j
  <2>1. PICK w : w = CHOOSE v \in slots : job[v] = j
    OBVIOUS
  <2>2. w \in Pool.slots
    BY <1>2, <2>1, PoolFields
  <2>3. Become(FailedSlot(Pool, w))
    BY <1>2, <2>1 DEF Abort
  <2>. QED BY <1>1, <2>2, <2>3, FailedSlotKeeps
<1>3. CASE ~ \E w \in slots : job[w] = j
  <2>1. PICK q : q = RemoveAt(Pool.queue, Position(Pool.queue, j))
    OBVIOUS
  <2>2. PICK u : u = [Pool EXCEPT !.queue = q]
    OBVIOUS
  <2>3. PICK t : t = Rejected(u, j)
    OBVIOUS
  <2>4. Become(t)
    <3>1. Become(Rejected([Pool EXCEPT !.queue = RemoveAt(@, Position(@, j))], j))
      BY <1>3 DEF Abort
    <3>2. [Pool EXCEPT !.queue = RemoveAt(@, Position(@, j))] = u
      BY <1>1, <2>1, <2>2 DEF PoolType
    <3>. QED BY <2>3, <3>1, <3>2
  <2>5. \A w \in Pool.slots : Pool.job[w] # j
    BY <1>3, PoolFields
  <2>6. j \in Queued(Pool)
    BY <1>1, <2>5 DEF PoolKept, Placed, WaitingPlaced
  <2>7. Pool.queue \in Seq(Jobs) /\ Once(Pool.queue) /\ Len(Pool.queue) <= QueueLimit
    BY <1>1, Fields DEF PoolKept, Placed, Bounded
  <2>8. /\ q \in Seq(Jobs) /\ Once(q)
        /\ Elements(q) = Queued(Pool) \ {j}
        /\ Len(Pool.queue) \in Nat /\ Len(q) = Len(Pool.queue) - 1
    BY <2>1, <2>6, <2>7, RemoveQueue DEF Queued
  <2>9. u \in PoolType
    BY <1>1, <2>2, <2>8 DEF PoolType
  <2>10. /\ u.queue = q
         /\ u.slots = Pool.slots /\ u.job = Pool.job /\ u.doing = Pool.doing
         /\ u.outcome = Pool.outcome /\ u.answer = Pool.answer
    BY <1>1, <2>2 DEF PoolType
  <2>11. /\ t \in PoolType
         /\ t.queue = u.queue /\ t.slots = u.slots /\ t.job = u.job /\ t.doing = u.doing
         /\ t.outcome = [u.outcome EXCEPT ![j] = "rejected"] /\ t.answer = u.answer
    BY <2>3, <2>9, RejectedRecord
  <2>12. /\ t.queue = q /\ t.slots = Pool.slots /\ t.job = Pool.job /\ t.doing = Pool.doing
         /\ t.outcome = [Pool.outcome EXCEPT ![j] = "rejected"] /\ t.answer = Pool.answer
    BY <2>10, <2>11
  <2>13. Once(t.queue) /\ Queued(t) = Queued(Pool) \ {j} /\ Len(t.queue) <= QueueLimit
    <3>1. Len(q) <= QueueLimit
      BY <2>7, <2>8, LimitAssumption
    <3>. QED BY <2>8, <2>12, <3>1 DEF Queued
  <2>14. PoolKept(t)
    BY <1>1, <2>5, <2>11, <2>12, <2>13, RejectKeeps
  <2>15. Conserving(t)
    <3>1. Pool.queue # << >>
      BY <2>6, <2>7 DEF Queued, Elements
    <3>. QED BY <2>12, <3>1 DEF PoolInv, Conserving
  <2>. QED BY <2>4, <2>14, <2>15, BecomeKept
<1>. QED BY <1>2, <1>3

\* The record after the post of a worker was read or lost.
ReadFields(s, w, t) ==
    /\ t \in PoolType
    /\ t.queue = s.queue /\ t.slots = s.slots /\ t.job = s.job
    /\ t.doing = [s.doing EXCEPT ![w] = << >>]
    /\ t.outcome = s.outcome /\ t.answer = s.answer

LEMMA ReadRecord ==
  ASSUME NEW s \in PoolType, NEW w \in WorkerIds,
         NEW t, t = [s EXCEPT !.doing[w] = << >>]
  PROVE  ReadFields(s, w, t)
<1>1. s.doing \in [WorkerIds -> Seq(Jobs)]
  BY Fields
<1>2. t = [s EXCEPT !.doing = [s.doing EXCEPT ![w] = << >>]]
  BY DEF PoolType
<1>3. [s.doing EXCEPT ![w] = << >>] \in [WorkerIds -> Seq(Jobs)]
  BY <1>1
<1>4. t \in PoolType
  BY <1>2, <1>3 DEF PoolType
<1>5. /\ t.queue = s.queue /\ t.slots = s.slots /\ t.job = s.job
      /\ t.doing = [s.doing EXCEPT ![w] = << >>]
      /\ t.outcome = s.outcome /\ t.answer = s.answer
  BY <1>2 DEF PoolType
<1>. QED BY <1>4, <1>5 DEF ReadFields

\* The post of a worker without a slot is read, or lost.
LEMMA StrayReadKeeps ==
  ASSUME PoolInv, NEW w \in WorkerIds, w \notin Pool.slots,
         Become([Pool EXCEPT !.doing[w] = << >>])
  PROVE  PoolInv'
<1>1. PICK t : t = [Pool EXCEPT !.doing[w] = << >>]
  OBVIOUS
<1>2. PoolKept(Pool) /\ Pool \in PoolType
  BY DEF PoolInv, PoolKept
<1>4. /\ t \in PoolType
      /\ t.queue = Pool.queue /\ t.slots = Pool.slots /\ t.job = Pool.job
      /\ t.doing = [Pool.doing EXCEPT ![w] = << >>]
      /\ t.outcome = Pool.outcome /\ t.answer = Pool.answer
  <2>1. ReadFields(Pool, w, t)
    BY <1>1, <1>2, ReadRecord
  <2>. QED BY <2>1 DEF ReadFields
<1>5. PoolKept(t)
  BY <1>2, <1>4, DropKeeps
<1>6. Conserving(t)
  BY <1>4 DEF PoolInv, Conserving
<1>. QED BY <1>1, <1>5, <1>6, BecomeKept

\* The answer of a terminated worker never comes.
LEMMA AnswerLostKeeps ==
  ASSUME PoolInv, NEW w \in WorkerIds, AnswerLost(w)
  PROVE  PoolInv'
BY StrayReadKeeps, PoolFields DEF AnswerLost

\* A worker answers.
LEMMA MessageKeeps ==
  ASSUME PoolInv, NEW w \in WorkerIds, Message(w)
  PROVE  PoolInv'
<1>1. PICK read : read = [Pool EXCEPT !.doing[w] = Tail(@)]
  OBVIOUS
<1>2. PICK freed : freed = [read EXCEPT !.job[w] = NoJob]
  OBVIOUS
<1>3. PICK j : j = job[w]
  OBVIOUS
<1>4. \/ j = NoJob /\ Become(read)
      \/ j # NoJob /\ Become(Dispatched(Rejected(freed, j)))
      \/ j # NoJob /\ Become(Dispatched([freed EXCEPT !.outcome[j] = "resolved",
                                                      !.answer[j] = Head(doing[w])]))
  BY <1>1, <1>2, <1>3 DEF Message
<1>5. /\ PoolKept(Pool) /\ Pool \in PoolType /\ Pool.job[w] = j
      /\ Pool.doing[w] # << >>
  BY <1>3, PoolFields DEF PoolInv, PoolKept, Message
<1>6. /\ Pool.slots \in SUBSET WorkerIds
      /\ Pool.job \in [WorkerIds -> Jobs \cup {NoJob}]
      /\ Pool.doing \in [WorkerIds -> Seq(Jobs)]
      /\ Pool.outcome \in [Jobs -> Outcome]
      /\ Pool.answer \in [Jobs -> Jobs \cup {NoJob}]
  BY <1>5, Fields
<1>7. \E i : Pool.doing[w] = <<i>>
  BY <1>5 DEF PoolKept, Posted, SlotPosted, StrayPosted
<1>8. Tail(Pool.doing[w]) = << >>
  BY <1>7
<1>9. read = [Pool EXCEPT !.doing[w] = << >>]
  BY <1>1, <1>5, <1>8 DEF PoolType
<1>10. CASE j = NoJob
  <2>1. Become(read)
    BY <1>4, <1>10
  <2>2. w \notin Pool.slots
    BY <1>5, <1>10 DEF PoolKept, Posted, SlotPosted
  <2>. QED BY <1>9, <2>1, <2>2, StrayReadKeeps
<1>11. CASE j # NoJob
  <2>1. w \in Pool.slots /\ j \in Jobs
    BY <1>5, <1>6, <1>11 DEF PoolKept, Posted, StrayPosted
  <2>2. Pool.doing[w] = <<j>>
    BY <1>5, <1>11, <2>1 DEF PoolKept, Posted, SlotPosted
  <2>3. /\ read \in PoolType
        /\ read.queue = Pool.queue /\ read.slots = Pool.slots /\ read.job = Pool.job
        /\ read.doing = [Pool.doing EXCEPT ![w] = << >>]
        /\ read.outcome = Pool.outcome /\ read.answer = Pool.answer
    <3>1. ReadFields(Pool, w, read)
      BY <1>5, <1>9, ReadRecord
    <3>. QED BY <3>1 DEF ReadFields
  <2>4. freed = [read EXCEPT !.job = [Pool.job EXCEPT ![w] = NoJob]]
    BY <1>2, <2>3 DEF PoolType
  <2>5. [Pool.job EXCEPT ![w] = NoJob] \in [WorkerIds -> Jobs \cup {NoJob}]
    BY <1>6
  <2>6. freed \in PoolType
    BY <2>3, <2>4, <2>5 DEF PoolType
  <2>7. /\ freed.queue = Pool.queue /\ freed.slots = Pool.slots
        /\ freed.job = [Pool.job EXCEPT ![w] = NoJob]
        /\ freed.doing = [Pool.doing EXCEPT ![w] = << >>]
        /\ freed.outcome = Pool.outcome /\ freed.answer = Pool.answer
    BY <2>3, <2>4 DEF PoolType
  <2>8. CASE Become(Dispatched(Rejected(freed, j)))
    <3>1. PICK t : t = Rejected(freed, j)
      OBVIOUS
    <3>2. /\ t \in PoolType
          /\ t.queue = freed.queue /\ t.slots = freed.slots /\ t.job = freed.job
          /\ t.doing = freed.doing
          /\ t.outcome = [freed.outcome EXCEPT ![j] = "rejected"] /\ t.answer = freed.answer
      BY <2>1, <2>6, <3>1, RejectedRecord
    <3>3. /\ \A i \in Jobs : i # j => t.outcome[i] = Pool.outcome[i] /\ t.answer[i] = Pool.answer[i]
          /\ t.outcome[j] = "rejected"
      BY <1>6, <2>1, <2>7, <3>2
    <3>4. Leaves(Pool, w, t)
      BY <1>5, <2>7, <3>2, <3>3 DEF Leaves, Settled
    <3>5. PoolKept(t)
      BY <1>5, <2>1, <3>2, <3>4, LeaveKeeps
    <3>. QED BY <2>8, <3>1, <3>5, BecomeDispatched
  <2>9. CASE Become(Dispatched([freed EXCEPT !.outcome[j] = "resolved",
                                             !.answer[j] = Head(doing[w])]))
    <3>1. PICK t : t = [freed EXCEPT !.outcome[j] = "resolved", !.answer[j] = Head(doing[w])]
      OBVIOUS
    <3>2. Head(doing[w]) = j
      <4>1. doing[w] = <<j>>
        BY <2>2, PoolFields
      <4>. QED BY <4>1
    <3>3. t = [freed EXCEPT !.outcome = [Pool.outcome EXCEPT ![j] = "resolved"],
                            !.answer = [Pool.answer EXCEPT ![j] = j]]
      BY <2>6, <2>7, <3>1, <3>2 DEF PoolType
    <3>4. /\ [Pool.outcome EXCEPT ![j] = "resolved"] \in [Jobs -> Outcome]
          /\ [Pool.answer EXCEPT ![j] = j] \in [Jobs -> Jobs \cup {NoJob}]
      BY <1>6, <2>1 DEF Outcome, Settled
    <3>5. t \in PoolType
      BY <2>6, <3>3, <3>4 DEF PoolType
    <3>6. /\ t.queue = Pool.queue /\ t.slots = Pool.slots
          /\ t.job = [Pool.job EXCEPT ![w] = NoJob]
          /\ t.doing = [Pool.doing EXCEPT ![w] = << >>]
          /\ t.outcome = [Pool.outcome EXCEPT ![j] = "resolved"]
          /\ t.answer = [Pool.answer EXCEPT ![j] = j]
      BY <2>6, <2>7, <3>3 DEF PoolType
    <3>7. /\ \A i \in Jobs : i # j => t.outcome[i] = Pool.outcome[i] /\ t.answer[i] = Pool.answer[i]
          /\ t.outcome[j] = "resolved" /\ t.answer[j] = j
      BY <1>6, <2>1, <3>6
    <3>8. Leaves(Pool, w, t)
      BY <1>5, <3>6, <3>7 DEF Leaves, Settled
    <3>9. PoolKept(t)
      BY <1>5, <2>1, <3>5, <3>8, LeaveKeeps
    <3>. QED BY <2>9, <3>1, <3>9, BecomeDispatched
  <2>. QED BY <1>4, <1>11, <2>8, <2>9
<1>. QED BY <1>10, <1>11

\* The pool is disposed of.
LEMMA DisposeKeeps ==
  ASSUME PoolInv, Dispose
  PROVE  PoolInv'
<1> DEFINE settled == [j \in Jobs |-> IF outcome[j] = "waiting" THEN "rejected" ELSE outcome[j]]
<1>1. PICK t : t = [Pool EXCEPT !.queue = << >>, !.slots = {},
                                !.job = [w \in WorkerIds |-> NoJob], !.outcome = settled]
  OBVIOUS
<1>2. Become(t)
  BY <1>1 DEF Dispose
<1>3. PoolKept(Pool) /\ Pool \in PoolType /\ Pool.outcome \in [Jobs -> Outcome]
      /\ Pool.outcome = outcome
  BY Fields, PoolFields DEF PoolInv, PoolKept
<1>4. settled \in [Jobs -> Outcome]
  BY <1>3 DEF Outcome, Settled
<1>5. \A j \in Jobs : settled[j] = IF Pool.outcome[j] = "waiting" THEN "rejected"
                                   ELSE Pool.outcome[j]
  BY <1>3
<1> HIDE DEF settled
<1>6. << >> \in Seq(Jobs) /\ [w \in WorkerIds |-> NoJob] \in [WorkerIds -> Jobs \cup {NoJob}]
  OBVIOUS
<1>7. t \in PoolType
  BY <1>1, <1>3, <1>4, <1>6 DEF PoolType
<1>8. /\ t.queue = << >> /\ t.slots = {} /\ t.job = [w \in WorkerIds |-> NoJob]
      /\ t.doing = Pool.doing /\ t.answer = Pool.answer /\ t.outcome = settled
  BY <1>1, <1>3 DEF PoolType
<1>9. PoolKept(t)
  BY <1>3, <1>5, <1>7, <1>8, EmptyKeeps
<1>10. Conserving(t)
  BY <1>8 DEF Conserving
<1>. QED BY <1>2, <1>9, <1>10, BecomeKept

----------------------------------------------------------------------------
(* The invariant holds *)

\* An empty pool.
LEMMA InitKeeps == Init => PoolInv
<1> SUFFICES ASSUME Init PROVE PoolInv
  OBVIOUS
<1>1. /\ queue = << >> /\ slots = {} /\ job = [w \in WorkerIds |-> NoJob]
      /\ doing = [w \in WorkerIds |-> << >>] /\ outcome = [j \in Jobs |-> "new"]
      /\ answer = [j \in Jobs |-> NoJob]
  BY DEF Init
<1>2. Pool \in PoolType
  <2>1. queue \in Seq(Jobs) /\ slots \in SUBSET WorkerIds
        /\ job \in [WorkerIds -> Jobs \cup {NoJob}] /\ doing \in [WorkerIds -> Seq(Jobs)]
        /\ outcome \in [Jobs -> Outcome] /\ answer \in [Jobs -> Jobs \cup {NoJob}]
    BY <1>1 DEF Outcome
  <2>. QED BY <2>1 DEF PoolType, Pool
<1>3. Queued(Pool) = {} /\ Len(Pool.queue) = 0 /\ Cardinality(Pool.slots) = 0
  BY <1>1, PoolFields, FS_EmptySet DEF Queued, Elements
<1>4. Bounded(Pool)
  BY <1>3, LimitAssumption DEF Bounded
<1>5. Placed(Pool)
  BY <1>1, <1>3, PoolFields DEF Placed, Once, QueuedWait, SlotsWait, SlotsDiffer, WaitingPlaced
<1>6. Posted(Pool)
  BY <1>1, PoolFields DEF Posted, SlotPosted, StrayPosted, PostedOnce
<1>7. Answered(Pool) /\ Conserving(Pool)
  BY <1>1, PoolFields DEF Answered, Conserving
<1>. QED BY <1>2, <1>4, <1>5, <1>6, <1>7 DEF PoolInv, PoolKept

\* Every step keeps the invariant, one lemma per action.
LEMMA NextKeeps ==
  ASSUME PoolInv, [Next]_poolVars
  PROVE  PoolInv'
<1>1. CASE \E j \in Jobs : Refuse(j) \/ Submit(j) \/ Abort(j)
  BY <1>1, RefuseKeeps, SubmitKeeps, AbortKeeps
<1>2. CASE \E w \in WorkerIds : Message(w) \/ WorkerEnds(w) \/ AnswerLost(w) \/ Timeout(w)
  BY <1>2, MessageKeeps, WorkerEndsKeeps, AnswerLostKeeps, TimeoutKeeps
<1>3. CASE Dispose
  BY <1>3, DisposeKeeps
<1>4. CASE UNCHANGED poolVars
  <2>1. Pool' = Pool
    BY <1>4 DEF poolVars, Pool
  <2>. QED BY <2>1 DEF PoolInv
<1>. QED BY <1>1, <1>2, <1>3, <1>4 DEF Next

\* The invariant holds in every state.
LEMMA Invariance == Spec => []PoolInv
<1>. QED BY InitKeeps, NextKeeps, PTL DEF Spec

----------------------------------------------------------------------------

\* Every field of the pool keeps its type, the queue its limit and the slots theirs.
THEOREM TypeCorrect == Spec => []TypeOK
<1>1. PoolInv => TypeOK
  BY Fields, PoolFields DEF PoolInv, PoolKept, Bounded, TypeOK
<1>. QED BY <1>1, Invariance, PTL

\* No cancellation, timeout, dead worker or closed pool loses a job or leaves a settled
\* one behind: an open job has one place, in the queue or in a slot.
THEOREM NoJobIsLost == Spec => []NoJobLost
<1>1. ASSUME PoolInv PROVE NoJobLost
  <2> SUFFICES ASSUME NEW j \in Jobs
               PROVE  Places(j) = IF outcome[j] = "waiting" THEN 1 ELSE 0
    BY DEF NoJobLost
  <2> DEFINE Q == {i \in DOMAIN queue : queue[i] = j}
  <2> DEFINE W == {w \in slots : job[w] = j}
  <2>1. PoolKept(Pool) /\ queue \in Seq(Jobs)
    BY <1>1, Fields, PoolFields DEF PoolInv, PoolKept
  <2>2. /\ Q = {} \/ \E i : Q = {i}
        /\ Q # {} <=> j \in Queued(Pool)
    <3>1. DOMAIN queue = 1..Len(queue)
      BY <2>1
    <3>2. Once(queue)
      BY <2>1, PoolFields DEF PoolKept, Placed
    <3>3. \A i, k \in Q : i = k
      BY <3>1, <3>2 DEF Once
    <3>4. Q # {} <=> j \in Queued(Pool)
      BY <3>1, PoolFields DEF Queued, Elements
    <3>. QED BY <3>3, <3>4
  <2>3. W = {} \/ \E w : W = {w}
    <3>1. \A v, w \in W : v = w
      BY <2>1, PoolFields, JobAssumption DEF PoolKept, Placed, SlotsDiffer
    <3>. QED BY <3>1
  <2>4. W # {} => j \notin Queued(Pool) /\ outcome[j] = "waiting"
    BY <2>1, PoolFields, JobAssumption DEF PoolKept, Placed, SlotsWait
  <2>5. Q # {} => outcome[j] = "waiting"
    BY <2>1, <2>2, PoolFields DEF PoolKept, Placed, QueuedWait
  <2>6. outcome[j] = "waiting" => Q # {} \/ W # {}
    BY <2>1, <2>2, PoolFields DEF PoolKept, Placed, WaitingPlaced
  <2>7. Cardinality(Q) = IF Q = {} THEN 0 ELSE 1
    BY <2>2, FS_EmptySet, FS_Singleton
  <2>8. Cardinality(W) = IF W = {} THEN 0 ELSE 1
    BY <2>3, FS_EmptySet, FS_Singleton
  <2>9. Places(j) = Cardinality(Q) + Cardinality(W)
    BY DEF Places
  <2> HIDE DEF Q, W
  <2>. QED BY <2>2, <2>4, <2>5, <2>6, <2>7, <2>8, <2>9
<1>. QED BY <1>1, Invariance, PTL

\* A job waits only when every slot the limit allows has a job, whatever freed a slot.
THEOREM WorkIsConserved == Spec => []WorkConserving
<1>1. PoolInv => WorkConserving
  BY PoolFields DEF PoolInv, Conserving, WorkConserving
<1>. QED BY <1>1, Invariance, PTL

\* No late answer, of a worker whose job was cancelled or timed out, resolves the job
\* that came after it.
THEOREM ResultsAreOwn == Spec => []OwnResult
<1>1. PoolInv => OwnResult
  BY PoolFields DEF PoolInv, PoolKept, Answered, OwnResult
<1>. QED BY <1>1, Invariance, PTL

=============================================================================
