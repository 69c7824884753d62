----------------------------- MODULE ArtifactPool -----------------------------
(***************************************************************************)
(* The pool of worker threads that collects artifacts and transforms texts *)
(* (src/main/workbenchTask/artifactWorkerPool.ts).                         *)
(*                                                                         *)
(* A job waits in the queue or runs on the worker of a slot.  It leaves    *)
(* when the worker answers, dies or exits, when its time is over, when its *)
(* signal is aborted or when the pool is disposed of.  Every way out but   *)
(* the answer terminates the worker and takes its slot away, since the     *)
(* worker cannot be stopped otherwise; its answer may be on the way        *)
(* already.  Whatever frees a slot dispatches the queue at once.           *)
(*                                                                         *)
(* The worker threads are external: they answer once, late or never, and   *)
(* may end at any time.  Left out: a Worker constructor that throws.       *)
(*                                                                         *)
(* A definition marked Mutant is the one after it with a fault, which      *)
(* nothing uses.                                                           *)
(***************************************************************************)
EXTENDS Integers, Sequences, SequencesExt, FiniteSets

CONSTANTS
    Jobs,          \* submitted inputs
    TextJobs,      \* text transformations; the other jobs collect artifacts
    Uncloneable,   \* inputs that postMessage rejects
    WorkerIds,     \* worker threads
    Workers,       \* ArtifactWorkerLimit.Workers
    QueueLimit,    \* ArtifactWorkerLimit.Queue
    NoJob

ASSUME JobAssumption ==
    /\ IsFiniteSet(Jobs)
    /\ TextJobs \subseteq Jobs
    /\ Uncloneable \subseteq Jobs
    /\ NoJob \notin Jobs

ASSUME LimitAssumption == Workers \in Nat \ {0} /\ QueueLimit \in Nat

\* A terminated worker whose answer is on the way keeps its id until then.
ASSUME WorkerIdAssumption ==
    /\ IsFiniteSet(WorkerIds)
    /\ Cardinality(WorkerIds) >= Workers + Cardinality(Jobs)

VARIABLES
    queue,     \* jobs that wait for a slot
    slots,     \* workers of the slots
    job,       \* job of each worker's slot
    doing,     \* jobs posted to each worker thread, their answers not yet read
    outcome,   \* promise of each job
    answer     \* the job whose computation resolved the promise

poolVars == <<queue, slots, job, doing, outcome, answer>>

----------------------------------------------------------------------------

Settled == {"resolved", "rejected"}

Outcome == {"new", "waiting"} \cup Settled

\* The part of the state that one run of the code changes, dispatch included.
Pool == [queue |-> queue, slots |-> slots, job |-> job, doing |-> doing,
         outcome |-> outcome, answer |-> answer]

Become(next) ==
    \E s \in {next} :
        /\ queue' = s.queue
        /\ slots' = s.slots
        /\ job' = s.job
        /\ doing' = s.doing
        /\ outcome' = s.outcome
        /\ answer' = s.answer

Idle(s) == {w \in s.slots : s.job[w] = NoJob}

Unused(s) == {w \in WorkerIds \ s.slots : s.doing[w] = << >>}

\* The first idle slot, or a new one while there is room.
MayTakeSlot(s) == Idle(s) # {} \/ Cardinality(s.slots) < Workers

TakenSlot(s) == CHOOSE w \in (IF Idle(s) # {} THEN Idle(s) ELSE Unused(s)) : TRUE

Rejected(s, j) == IF j = NoJob THEN s ELSE [s EXCEPT !.outcome[j] = "rejected"]

\* The slot is removed and its worker terminated.
Removed(s, w) == [s EXCEPT !.slots = @ \ {w}, !.job[w] = NoJob]

\* One round of the loop of dispatch: the head of the queue takes a slot.  An input
\* that cannot be posted costs the worker its slot.
ServedHead(s) ==
    IF s.queue = << >> \/ ~ MayTakeSlot(s) THEN s
    ELSE LET j == Head(s.queue)
             w == TakenSlot(s)
             taken == [s EXCEPT !.queue = Tail(@)]
         IN IF j \in Uncloneable THEN Rejected(Removed(taken, w), j)
            ELSE [taken EXCEPT !.slots = @ \cup {w}, !.job[w] = j,
                               !.doing[w] = Append(@, j)]

\* dispatch: every round takes a job from the queue, so that as many rounds are
\* enough.
Dispatched(s) ==
    LET served[n \in 0..Len(s.queue)] ==
            IF n = 0 THEN s ELSE ServedHead(served[n - 1])
    IN served[Len(s.queue)]

\* Mutant: the end of a job does not serve the queue.
FailedSlotAlone(s, w) == Rejected(Removed(s, w), s.job[w])

\* Mutant: the worker is kept for the next job.
FailedSlotKept(s, w) == Dispatched(Rejected([s EXCEPT !.job[w] = NoJob], s.job[w]))

\* finish with an error and terminate.
FailedSlot(s, w) == Dispatched(Rejected(Removed(s, w), s.job[w]))

----------------------------------------------------------------------------

Init ==
    /\ queue = << >>
    /\ slots = {}
    /\ job = [w \in WorkerIds |-> NoJob]
    /\ doing = [w \in WorkerIds |-> << >>]
    /\ outcome = [j \in Jobs |-> "new"]
    /\ answer = [j \in Jobs |-> NoJob]

\* submit: the signal is aborted already, or the input is beyond its limits.
Refuse(j) ==
    /\ outcome[j] = "new"
    /\ Become(Rejected(Pool, j))

\* Mutant: the limit is looked at after the job is in the queue.
SubmitUnbounded(j) ==
    /\ outcome[j] = "new"
    /\ Become(Dispatched([Pool EXCEPT !.queue = Append(@, j), !.outcome[j] = "waiting"]))

\* submit: the job is queued and dispatched, unless the queue is full.
Submit(j) ==
    /\ outcome[j] = "new"
    /\ Become(IF Len(queue) >= QueueLimit THEN Rejected(Pool, j)
              ELSE Dispatched([Pool EXCEPT !.queue = Append(@, j),
                                           !.outcome[j] = "waiting"]))

\* Mutant: the aborted job stays in the queue.
AbortInPlace(j) ==
    /\ outcome[j] = "waiting"
    /\ Become(IF \E w \in slots : job[w] = j
              THEN FailedSlot(Pool, CHOOSE w \in slots : job[w] = j)
              ELSE Rejected(Pool, j))

Position(s, j) == CHOOSE i \in DOMAIN s : s[i] = j

\* onAbort: a running job loses its slot, a queued one leaves the queue.
Abort(j) ==
    /\ outcome[j] = "waiting"
    /\ Become(IF \E w \in slots : job[w] = j
              THEN FailedSlot(Pool, CHOOSE w \in slots : job[w] = j)
              ELSE Rejected([Pool EXCEPT !.queue = RemoveAt(@, Position(@, j))], j))

\* The result of an artifact job names its run, the result of a text job nothing.
Fits(j, result) == j \in TextJobs \/ j = result

\* The worker answers: the job of its slot is resolved, or rejected when the
\* answer is an error or not valid.  The answer of a slot without a job is dropped.
Message(w) ==
    /\ doing[w] # << >>
    /\ LET read == [Pool EXCEPT !.doing[w] = Tail(@)]
           freed == [read EXCEPT !.job[w] = NoJob]
       IN \/ /\ job[w] = NoJob
             /\ Become(read)
          \/ /\ job[w] # NoJob
             /\ Become(Dispatched(Rejected(freed, job[w])))
          \/ /\ job[w] # NoJob
             /\ Fits(job[w], Head(doing[w]))
             /\ Become(Dispatched([freed EXCEPT !.outcome[job[w]] = "resolved",
                                                !.answer[job[w]] = Head(doing[w])]))

\* The worker of a slot, idle or not, fails or exits.
WorkerEnds(w) ==
    /\ w \in slots
    /\ Become(FailedSlot([Pool EXCEPT !.doing[w] = << >>], w))

\* The answer of a terminated worker never comes.
AnswerLost(w) ==
    /\ w \notin slots
    /\ doing[w] # << >>
    /\ Become([Pool EXCEPT !.doing[w] = << >>])

\* The timer of the slot's job.
Timeout(w) ==
    /\ job[w] # NoJob
    /\ Become(FailedSlot(Pool, w))

\* dispose: the queue is rejected, then every slot is finished.
Dispose ==
    /\ slots # {} \/ queue # << >>
    /\ Become([Pool EXCEPT
                 !.queue = << >>,
                 !.slots = {},
                 !.job = [w \in WorkerIds |-> NoJob],
                 !.outcome = [j \in Jobs |-> IF outcome[j] = "waiting" THEN "rejected"
                                             ELSE outcome[j]]])

----------------------------------------------------------------------------

Next ==
    \/ \E j \in Jobs : Refuse(j) \/ Submit(j) \/ Abort(j)
    \/ \E w \in WorkerIds : Message(w) \/ WorkerEnds(w) \/ AnswerLost(w) \/ Timeout(w)
    \/ Dispose

\* The timer of a slot fires.  Nothing is assumed of the workers.
Fairness == \A w \in WorkerIds : WF_poolVars(Timeout(w))

Spec == Init /\ [][Next]_poolVars

FairSpec == Spec /\ Fairness

----------------------------------------------------------------------------
(* Properties *)

TypeOK ==
    /\ queue \in Seq(Jobs)
    /\ Len(queue) <= QueueLimit
    /\ slots \subseteq WorkerIds
    /\ Cardinality(slots) <= Workers
    /\ job \in [WorkerIds -> Jobs \cup {NoJob}]
    /\ doing \in [WorkerIds -> Seq(Jobs)]
    /\ outcome \in [Jobs -> Outcome]
    /\ answer \in [Jobs -> Jobs \cup {NoJob}]

\* A job whose promise is open is in the queue or on one slot, once, and a job
\* that was settled is nowhere: no cancellation, timeout or closed pool loses a
\* job or leaves one to be run for nobody (onAbort, finish, dispose).
Places(j) ==
    Cardinality({i \in DOMAIN queue : queue[i] = j}) + Cardinality({w \in slots : job[w] = j})

NoJobLost == \A j \in Jobs : Places(j) = IF outcome[j] = "waiting" THEN 1 ELSE 0

\* A job waits only when every slot the limit allows is busy, also after a failed
\* post or a finished job dispatched the queue again (dispatch within finish).
WorkConserving ==
    queue # << >> => Cardinality(slots) = Workers /\ \A w \in slots : job[w] # NoJob

\* A promise is resolved with the result of its own job: the answer of a worker
\* whose job was cancelled or timed out never reaches the next job, although the
\* result of a text job does not name it.
OwnResult == \A j \in Jobs : outcome[j] = "resolved" => answer[j] = j

\* Every submitted job is settled, although no worker ever answers.
JobsSettle == \A j \in Jobs : (outcome[j] = "waiting") ~> (outcome[j] \in Settled)

=============================================================================
