---------------------- MODULE WorkbenchTaskFreshProofs ----------------------
(***************************************************************************)
(* Proofs of what WorkbenchTask keeps when the task card is never outdated *)
(* (StaleClicks = FALSE): a session has one open task, a run that executes *)
(* is the one of its task and of its turn, and nobody waits in vain.       *)
(***************************************************************************)
EXTENDS WorkbenchTaskSafetyProofs, FiniteSetTheorems

Executing == {"running", "waiting_approval"}

IsOpen(x) == x.status \notin NoRow \cup TerminalTask

(***************************************************************************)
(* The inductive invariant.  The rows: an open task is the newest of its   *)
(* session, ids are given out in order, a run that executes is the active  *)
(* run of its task, and so is a queued run whose dispatch is under way.    *)
(***************************************************************************)
OpenIsLatest == \A t \in Tasks : IsOpen(task[t]) => IsLatest(t)
NewerAbsent ==
  \A t, u \in Tasks : task[t].status = "absent" /\ t < u => task[u].status = "absent"
ExecutingIsActive ==
  \A r \in Runs : run[r].status \in Executing => task[run[r].task].active = r
StartingIsActive ==
  \A r \in starting :
    /\ run[r].status \notin NoRow \cup Executing
    /\ run[r].status = "queued" => task[run[r].task].active = r
QueuedIsOurs ==
  \A r \in Runs : run[r].status = "queued" => SessionOf(r) \notin ExternalSessions
RowInv == /\ OpenIsLatest /\ NewerAbsent
          /\ ExecutingIsActive /\ StartingIsActive /\ QueuedIsOurs

(* The turn: its run is one of its session, and no other run of it executes. *)
TurnIsOwn ==
  \A s \in Sessions : live[s] # NoRun => RunExists(live[s]) /\ SessionOf(live[s]) = s
TurnIsCurrent ==
  \A s \in Sessions, r \in Runs :
    run[r].status \in Executing /\ SessionOf(r) = s => live[s] \in {r, NoRun}

(* The promises: one for each run that waits, of a Pi session. *)
PromiseIsPending ==
  /\ \A a \in waiters : /\ appr[a].decision = "pending"
                        /\ run[a[1]].status = "waiting_approval"
                        /\ SessionOf(a[1]) \notin ExternalSessions
  /\ \A a, b \in waiters : a[1] = b[1] => a = b
WaitingIsBlocked == \A r \in Runs : run[r].status = "waiting_approval" => Blocked(r)
PromiseInv == PromiseIsPending /\ WaitingIsBlocked

FreshInv == RowInv /\ TurnIsOwn /\ TurnIsCurrent /\ PromiseInv

Ledger == TypeOK /\ Owned /\ TaskRunAgreement

-----------------------------------------------------------------------------
(***************************************************************************)
(* Steps that open no task and let no run begin.                           *)
(***************************************************************************)
CalmRows ==
  /\ RowsKept
  /\ \A t \in Tasks : IsOpen(task'[t]) => IsOpen(task[t])
  /\ \A t \in Tasks : task'[t].status = "absent" <=> task[t].status = "absent"
  /\ \A r \in Runs :
       /\ run'[r].status \in Executing => run[r].status \in Executing
       /\ run'[r].status = "queued" => run[r].status = "queued"
       /\ run'[r].status \in Executing \/ (run'[r].status = "queued" /\ r \in starting')
            => task'[run[r].task].active = task[run[r].task].active
Calm ==
  /\ CalmRows
  /\ starting' \subseteq starting
  /\ \A s \in Sessions : live'[s] \in {live[s], NoRun}

LEMMA KeptSession ==
  ASSUME Owned, RowsKept, NEW r \in Runs, RunExists(r) \/ RunExists(r)'
  PROVE  RunExists(r) /\ RunExists(r)' /\ SessionOf(r)' = SessionOf(r)
BY DEF Owned, RowsKept, RunExists, SessionOf, TaskExists

LEMMA CalmKeepsRows ==
  ASSUME Ledger, RowInv, Calm
  PROVE  RowInv'
<1>. USE DEF Ledger
<1>1. OpenIsLatest'
  BY DEF RowInv, OpenIsLatest, Calm, CalmRows, RowsKept, IsLatest, TaskExists
<1>2. NewerAbsent'
  BY DEF RowInv, NewerAbsent, Calm, CalmRows
<1>3. ExecutingIsActive'
  BY DEF RowInv, ExecutingIsActive, Calm, CalmRows, RowsKept
<1>4. ASSUME NEW r \in starting'
      PROVE  /\ run'[r].status \notin NoRow \cup Executing
             /\ run'[r].status = "queued" => task'[run'[r].task].active = r
  <2>1. r \in Runs /\ r \in starting
    BY <1>4 DEF Calm, TypeOK
  <2>. QED BY <1>4, <2>1 DEF RowInv, StartingIsActive, Calm, CalmRows, RowsKept
<1>5. QueuedIsOurs'
  <2>. SUFFICES ASSUME NEW r \in Runs, run'[r].status = "queued"
                PROVE  SessionOf(r)' \notin ExternalSessions
    BY DEF QueuedIsOurs
  <2>1. run[r].status = "queued" /\ RunExists(r)
    BY DEF Calm, CalmRows, RunExists, NoRow
  <2>. QED BY <2>1, KeptSession DEF RowInv, QueuedIsOurs, Calm, CalmRows
<1>. QED BY <1>1, <1>2, <1>3, <1>4, <1>5 DEF RowInv, StartingIsActive

LEMMA CalmKeepsTurn ==
  ASSUME Ledger, TurnIsOwn, TurnIsCurrent, Calm
  PROVE  TurnIsOwn' /\ TurnIsCurrent'
<1>1. ASSUME NEW s \in Sessions, NEW r \in Runs, run'[r].status \in Executing,
             SessionOf(r)' = s
      PROVE  live'[s] \in {r, NoRun}
  <2>1. run[r].status \in Executing /\ RunExists(r)
    BY <1>1 DEF Calm, CalmRows, Executing, RunExists, NoRow
  <2>2. SessionOf(r) = s
    BY <1>1, <2>1, KeptSession DEF Calm, CalmRows, Ledger
  <2>. QED BY <2>1, <2>2 DEF TurnIsCurrent, Calm
<1>2. ASSUME NEW s \in Sessions, live'[s] # NoRun
      PROVE  RunExists(live[s])' /\ SessionOf(live[s])' = s
  <2>1. live'[s] = live[s] /\ live[s] \in Runs /\ RunExists(live[s]) /\ SessionOf(live[s]) = s
    BY <1>2 DEF Calm, TurnIsOwn, Ledger, TypeOK
  <2>. DEFINE r == live[s]
  <2>2. RunExists(r) /\ run'[r].task = run[r].task /\ run[r].task \in Tasks
    BY <2>1 DEF Calm, CalmRows, RowsKept, Ledger, Owned
  <2>3. /\ run'[r].status \notin NoRow
        /\ task'[run'[r].task].session = task[run[r].task].session
    BY <2>1, <2>2 DEF Calm, CalmRows, RowsKept, RunExists
  <2>. QED BY <2>1, <2>3 DEF RunExists, SessionOf
<1>. QED BY <1>1, <1>2 DEF TurnIsOwn, TurnIsCurrent

(* Steps that make no promise. *)
CalmPromises ==
  /\ waiters' \subseteq waiters
  /\ \A a \in waiters' : /\ appr'[a].decision = appr[a].decision
                         /\ run'[a[1]].status = "waiting_approval"
                         /\ SessionOf(a[1])' = SessionOf(a[1])
  /\ \A r \in Runs : run'[r].status = "waiting_approval" =>
       /\ run[r].status = "waiting_approval"
       /\ \A c \in Calls : <<r, c>> \in waiters => <<r, c>> \in waiters'

LEMMA CalmKeepsPromises ==
  ASSUME PromiseInv, CalmPromises
  PROVE  PromiseInv'
<1>1. PromiseIsPending'
  BY DEF PromiseInv, PromiseIsPending, CalmPromises
<1>2. WaitingIsBlocked'
  BY DEF PromiseInv, WaitingIsBlocked, CalmPromises, Blocked
<1>. QED BY <1>1, <1>2 DEF PromiseInv

-----------------------------------------------------------------------------
(***************************************************************************)
(* What the invariant says of a run that executes: pause and failure of    *)
(* its session find it.                                                    *)
(***************************************************************************)
LEMMA SessionOfTarget ==
  ASSUME Ledger, NEW s, NEW r \in TargetRuns(s, task, run)
  PROVE  /\ r \in Runs /\ run[r].status \in ActiveRun /\ RunExists(r)
         /\ run[r].task \in Tasks /\ SessionOf(r) = s
         /\ task[run[r].task].active = r /\ Target(s, run[r].task, task, run)
<1>1. PICK t \in Tasks : Target(s, t, task, run) /\ task[t].active = r
  BY DEF TargetRuns
<1>2. /\ r \in Runs /\ r # NoRun /\ run[r].status \in ActiveRun
      /\ task[t].status \notin NoRow /\ task[t].session = s
  BY <1>1 DEF TargetRuns, Target, IsActiveTask, OpenTasks
<1>3. run[r].task = t /\ run[r].status \notin NoRow
  BY <1>1, <1>2 DEF Ledger, TaskRunAgreement, Agreement
<1>. QED BY <1>1, <1>2, <1>3 DEF SessionOf, RunExists

LEMMA ExecutingTask ==
  ASSUME Ledger, ExecutingIsActive, NEW r \in Runs, run[r].status \in Executing
  PROVE  /\ RunExists(r) /\ run[r].task \in Tasks /\ r # NoRun
         /\ task[run[r].task].active = r /\ task[run[r].task].status = "running"
<1>1. RunExists(r) /\ run[r].task \in Tasks /\ TaskExists(run[r].task)
  BY DEF Ledger, Owned, Executing, RunExists, NoRow
<1>2. r # NoRun
  BY DEF Runs, NoRun
<1>. QED BY <1>1, <1>2 DEF ExecutingIsActive, Ledger, TaskRunAgreement, Agreement, TaskExists,
            Executing, ActiveRun

LEMMA OpenTaskUnique ==
  ASSUME OpenIsLatest, NEW t \in Tasks, NEW u \in Tasks, IsOpen(task[t]), IsOpen(task[u]),
         task[t].session = task[u].session
  PROVE  t = u
<1>1. t \in Nat /\ u \in Nat
  BY DEF Tasks
<1>2. TaskExists(t) /\ TaskExists(u)
  BY DEF IsOpen, TaskExists
<1>3. t <= u /\ u <= t
  BY <1>2 DEF OpenIsLatest, IsLatest
<1>. QED BY <1>1, <1>3

LEMMA OneExecuting ==
  ASSUME Ledger, RowInv, NEW r \in Runs, NEW q \in Runs,
         run[r].status \in Executing, run[q].status \in Executing, SessionOf(r) = SessionOf(q)
  PROVE  r = q
<1>1. IsOpen(task[run[r].task]) /\ IsOpen(task[run[q].task])
  BY ExecutingTask DEF RowInv, IsOpen, NoRow, TerminalTask
<1>2. run[r].task = run[q].task
  BY <1>1, ExecutingTask, OpenTaskUnique DEF RowInv, SessionOf
<1>. QED BY <1>2, ExecutingTask DEF RowInv

LEMMA ExecutingIsTarget ==
  ASSUME Ledger, RowInv, NEW r \in Runs, run[r].status \in Executing
  PROVE  r \in TargetRuns(SessionOf(r), task, run)
<1>. DEFINE t == run[r].task
<1>1. /\ t \in Tasks /\ r # NoRun /\ task[t].active = r /\ task[t].status = "running"
  BY ExecutingTask DEF RowInv
<1>2. IsLatest(t) /\ t \in OpenTasks(SessionOf(r), task)
  BY <1>1 DEF RowInv, OpenIsLatest, IsOpen, OpenTasks, SessionOf, NoRow, TerminalTask
<1>3. \A u \in OpenTasks(SessionOf(r), task) : u <= t
  BY <1>2 DEF IsLatest, OpenTasks, SessionOf, TaskExists
<1>4. Target(SessionOf(r), t, task, run)
  BY <1>1, <1>2, <1>3 DEF Target, IsActiveTask, Executing, ActiveRun
<1>. QED BY <1>1, <1>4 DEF TargetRuns

-----------------------------------------------------------------------------
(* The pause of a session. *)
LEMMA PauseIsCalm ==
  ASSUME Ledger, RowInv, NEW s, PauseRun(s)
  PROVE  CalmRows
<1>1. RowsKept
  BY PauseKeepsRows DEF Ledger
<1>2. CASE task' = task /\ run' = run
  BY <1>1, <1>2 DEF CalmRows
<1>3. CASE /\ task' = [t \in Tasks |-> IF Target(s, t, task, run)
                                         THEN [task[t] EXCEPT !.status = "paused"] ELSE task[t]]
           /\ run' = [r \in Runs |-> IF r \in TargetRuns(s, task, run)
                                       THEN [run[r] EXCEPT !.status = "paused"] ELSE run[r]]
  <2>1. ASSUME NEW t \in Tasks
        PROVE  /\ IsOpen(task'[t]) => IsOpen(task[t])
               /\ task'[t].status = "absent" <=> task[t].status = "absent"
               /\ task'[t].active = task[t].active
    <3>1. Target(s, t, task, run) => IsOpen(task[t])
      BY DEF Target, IsActiveTask, OpenTasks, IsOpen
    <3>2. /\ Target(s, t, task, run) =>
               task'[t].status = "paused" /\ task'[t].active = task[t].active
          /\ ~ Target(s, t, task, run) => task'[t] = task[t]
      BY <1>3, RowTypes DEF Ledger, TaskRow
    <3>. QED BY <3>1, <3>2 DEF IsOpen, NoRow
  <2>2. \A r \in Runs : run'[r].status = run[r].status \/ run'[r].status = "paused"
    BY <1>3, RowTypes DEF Ledger, RunRow
  <2>3. \A r \in Runs : run'[r].status \in Executing \cup {"queued"}
                          => run'[r].status = run[r].status
    BY <2>2 DEF Executing
  <2>4. \A r \in Runs : run[r].status \in Executing \cup {"queued"} => run[r].task \in Tasks
    BY DEF Ledger, Owned, Executing, RunExists, NoRow
  <2>. QED BY <1>1, <2>1, <2>3, <2>4 DEF CalmRows
<1>. QED BY <1>2, <1>3 DEF PauseRun, Pause

LEMMA PauseIsCalmForPromises ==
  ASSUME Ledger, RowInv, PromiseInv, NEW s, PauseRun(s)
  PROVE  CalmPromises
<1>1. RowsKept
  BY PauseKeepsRows DEF Ledger
<1>2. \A a \in waiters : /\ a \in Keys /\ a[1] \in Runs /\ appr[a].decision = "pending"
                         /\ run[a[1]].status = "waiting_approval" /\ RunExists(a[1])
  BY DEF Ledger, TypeOK, Keys, PromiseInv, PromiseIsPending, RunExists, NoRow
<1>3. \A a \in waiters : SessionOf(a[1])' = SessionOf(a[1])
  BY <1>1, <1>2, KeptSession DEF Ledger
<1>4. CASE run' = run /\ appr' = appr /\ waiters' = waiters
  BY <1>2, <1>3, <1>4 DEF CalmPromises
<1>5. CASE /\ run' = [r \in Runs |-> IF r \in TargetRuns(s, task, run)
                                       THEN [run[r] EXCEPT !.status = "paused"] ELSE run[r]]
           /\ appr' = Expired(appr, PendingOf(s, appr))
           /\ waiters' = waiters \ PendingOf(s, appr)
  <2>1. ASSUME NEW a \in waiters
        PROVE  /\ a \in waiters' <=> SessionOf(a[1]) # s
               /\ a \in waiters' => /\ appr'[a] = appr[a]
                                    /\ run'[a[1]].status = "waiting_approval"
    <3>1. a \in PendingOf(s, appr) <=> SessionOf(a[1]) = s
      BY <1>2 DEF PendingOf
    <3>2. SessionOf(a[1]) # s => run'[a[1]] = run[a[1]]
      BY <1>2, <1>5, SessionOfTarget
    <3>. QED BY <1>2, <1>5, <3>1, <3>2 DEF Expired
  <2>2. ASSUME NEW r \in Runs, run'[r].status = "waiting_approval"
        PROVE  /\ run[r].status = "waiting_approval"
               /\ \A c \in Calls : <<r, c>> \in waiters => <<r, c>> \in waiters'
    <3>1. r \notin TargetRuns(s, task, run) /\ run[r].status = "waiting_approval"
      BY <1>5, <2>2, RowTypes DEF Ledger, RunRow
    <3>2. SessionOf(r) # s
      BY <3>1, ExecutingIsTarget DEF Executing
    <3>. QED BY <2>1, <3>1, <3>2
  <2>. QED BY <1>3, <1>5, <2>1, <2>2 DEF CalmPromises
<1>. QED BY <1>4, <1>5 DEF PauseRun, Pause

(* The failure of a session whose run does not wait. *)
LEMMA FailIsCalm ==
  ASSUME Ledger, RowInv, NEW s, FailRun(s), starting' \subseteq starting
  PROVE  CalmRows
<1>1. RowsKept
  BY PauseKeepsRows DEF Ledger
<1>2. ASSUME NEW t \in Tasks
      PROVE  /\ IsOpen(task'[t]) => IsOpen(task[t])
             /\ task'[t].status = "absent" <=> task[t].status = "absent"
             /\ ~ Target(s, t, task, run) => task'[t].active = task[t].active
  <2>1. Target(s, t, task, run) => IsOpen(task[t])
    BY DEF Target, IsActiveTask, OpenTasks, IsOpen
  <2>2. /\ Target(s, t, task, run) => task'[t].status = "failed"
        /\ ~ Target(s, t, task, run) => task'[t] = task[t]
    BY RowTypes DEF Ledger, TaskRow, FailRun
  <2>. QED BY <2>1, <2>2 DEF IsOpen, NoRow
<1>3. ASSUME NEW r \in Runs
      PROVE  /\ run'[r].status = run[r].status \/ run'[r].status = "failed"
             /\ r \in TargetRuns(s, task, run) => run'[r].status = "failed"
  BY RowTypes DEF Ledger, RunRow, FailRun
<1>4. ASSUME NEW r \in Runs,
             run'[r].status \in Executing \/ (run'[r].status = "queued" /\ r \in starting')
      PROVE  /\ run[r].status = run'[r].status
             /\ task'[run[r].task].active = task[run[r].task].active
  <2>1. run[r].status = run'[r].status /\ r \notin TargetRuns(s, task, run)
    BY <1>3, <1>4 DEF Executing
  <2>2. task[run[r].task].active = r
    BY <1>4, <2>1 DEF RowInv, ExecutingIsActive, StartingIsActive
  <2>3. ~ Target(s, run[r].task, task, run)
    BY <2>1, <2>2 DEF TargetRuns, Target, IsActiveTask, OpenTasks
  <2>4. run[r].task \in Tasks
    BY <1>4, <2>1 DEF Ledger, Owned, RunExists, Executing, NoRow
  <2>. QED BY <1>2, <2>1, <2>3, <2>4
<1>5. \A r \in Runs : run'[r].status = "queued" => run[r].status = "queued"
  BY <1>3
<1>. QED BY <1>1, <1>2, <1>4, <1>5 DEF CalmRows

LEMMA FailIsCalmForPromises ==
  ASSUME Ledger, PromiseInv, NEW s, FailRun(s),
         \A r \in TargetRuns(s, task, run) : run[r].status # "waiting_approval"
  PROVE  CalmPromises
<1>1. RowsKept
  BY PauseKeepsRows DEF Ledger
<1>2. \A a \in waiters : /\ a[1] \in Runs /\ run[a[1]].status = "waiting_approval"
                         /\ RunExists(a[1])
  BY DEF Ledger, TypeOK, Keys, PromiseInv, PromiseIsPending, RunExists, NoRow
<1>3. \A a \in waiters : SessionOf(a[1])' = SessionOf(a[1])
  BY <1>1, <1>2, KeptSession DEF Ledger
<1>4. \A r \in Runs : run'[r].status = "waiting_approval" <=> run[r].status = "waiting_approval"
  BY RowTypes DEF Ledger, RunRow, FailRun
<1>. QED BY <1>2, <1>3, <1>4 DEF CalmPromises, FailRun

-----------------------------------------------------------------------------
(***************************************************************************)
(* The actions.                                                            *)
(***************************************************************************)
LEMMA CalmKeepsFresh ==
  ASSUME Ledger, FreshInv, Calm, CalmPromises
  PROVE  FreshInv'
BY CalmKeepsRows, CalmKeepsTurn, CalmKeepsPromises DEF FreshInv

LEMMA SameIsCalm ==
  ASSUME task' = task, run' = run
  PROVE  CalmRows
BY DEF CalmRows, RowsKept

LEMMA SameIsCalmForPromises ==
  ASSUME PromiseInv, UNCHANGED <<task, run, appr, waiters>>
  PROVE  CalmPromises
BY DEF CalmPromises, PromiseInv, PromiseIsPending, SessionOf

TurnKeptOrEnded ==
  starting' \subseteq starting /\ \A s \in Sessions : live'[s] \in {live[s], NoRun}

LEMMA AbortEndsTurn ==
  ASSUME TypeOK, NEW s, AbortTurn(s)
  PROVE  TurnKeptOrEnded
BY DEF TurnKeptOrEnded, AbortTurn, TypeOK

LEMMA PauseKeepsFresh ==
  ASSUME Ledger, FreshInv, NEW s, PauseRun(s), TurnKeptOrEnded
  PROVE  FreshInv'
BY PauseIsCalm, PauseIsCalmForPromises, CalmKeepsFresh DEF FreshInv, Calm, TurnKeptOrEnded

LEMMA FailKeepsFresh ==
  ASSUME Ledger, FreshInv, NEW s, FailRun(s), TurnKeptOrEnded,
         \A r \in TargetRuns(s, task, run) : run[r].status # "waiting_approval"
  PROVE  FreshInv'
BY FailIsCalm, FailIsCalmForPromises, CalmKeepsFresh DEF FreshInv, Calm, TurnKeptOrEnded

(* A turn whose tool call does not wait leaves no waiting run in its session. *)
LEMMA TurnDoesNotWait ==
  ASSUME Ledger, FreshInv, NEW s \in Sessions, live[s] # NoRun, ~Blocked(live[s]),
         NEW r \in TargetRuns(s, task, run)
  PROVE  run[r].status # "waiting_approval"
<1>. SUFFICES ASSUME run[r].status = "waiting_approval" PROVE FALSE
  OBVIOUS
<1>1. r \in Runs /\ SessionOf(r) = s
  BY SessionOfTarget
<1>2. live[s] = r
  BY <1>1 DEF FreshInv, TurnIsCurrent, Executing
<1>3. Blocked(r)
  BY <1>1 DEF FreshInv, PromiseInv, WaitingIsBlocked
<1>. QED BY <1>2, <1>3

LEMMA TurnFailureKeepsFresh ==
  ASSUME Ledger, FreshInv, NEW s \in Sessions, TurnError(s) \/ AuthorizeStale(s)
  PROVE  FreshInv'
<1>1. FailRun(s) /\ live[s] # NoRun /\ ~Blocked(live[s])
  BY DEF TurnError, AuthorizeStale, InTurn
<1>2. TurnKeptOrEnded
  BY DEF TurnError, AuthorizeStale, TurnKeptOrEnded, Ledger, TypeOK
<1>. QED BY <1>1, <1>2, TurnDoesNotWait, FailKeepsFresh

LEMMA GateKeepsFresh ==
  ASSUME Ledger, FreshInv, NEW s \in Sessions, GateDenied(s)
  PROVE  FreshInv'
<1>1. live[s] # NoRun /\ ~Blocked(live[s])
  BY DEF GateDenied, InTurn
<1>2. TurnKeptOrEnded
  BY DEF GateDenied, TurnKeptOrEnded, Ledger, TypeOK
<1>3. CASE FailRun(s)
  BY <1>1, <1>2, <1>3, TurnDoesNotWait, FailKeepsFresh
<1>4. CASE UNCHANGED <<task, run, appr, waiters>>
  BY <1>2, <1>4, SameIsCalm, SameIsCalmForPromises, CalmKeepsFresh
     DEF FreshInv, Calm, TurnKeptOrEnded
<1>. QED BY <1>3, <1>4 DEF GateDenied

LEMMA SameRowsKeepFresh ==
  ASSUME Ledger, FreshInv, UNCHANGED <<task, run, appr, waiters>>, TurnKeptOrEnded
  PROVE  FreshInv'
BY SameIsCalm, SameIsCalmForPromises, CalmKeepsFresh DEF FreshInv, Calm, TurnKeptOrEnded

LEMMA StopKeepsFresh ==
  ASSUME Ledger, FreshInv, NEW s \in Sessions
  PROVE  /\ StopSession(s) => FreshInv'
         /\ PromptRejected(s) \/ StartCompletion(s) => FreshInv'
<1>1. ASSUME StopSession(s) PROVE FreshInv'
  BY <1>1, AbortEndsTurn, PauseKeepsFresh DEF StopSession, Ledger
<1>2. ASSUME PromptRejected(s) \/ StartCompletion(s) PROVE FreshInv'
  <2>1. UNCHANGED <<task, run, appr, waiters>>
    BY <1>2 DEF PromptRejected, StartCompletion, db, memory
  <2>2. TurnKeptOrEnded
    BY <1>2 DEF PromptRejected, StartCompletion, TurnKeptOrEnded, Ledger, TypeOK
  <2>. QED BY <2>1, <2>2, SameRowsKeepFresh
<1>. QED BY <1>1, <1>2

LEMMA RejectionKeepsFresh ==
  ASSUME Ledger, FreshInv, NEW r \in Runs, PreparedRunRejected(r)
  PROVE  FreshInv'
<1>. DEFINE s == SessionOf(r)
            t == run[r].task
<1>1. TurnKeptOrEnded
  BY DEF PreparedRunRejected, TurnKeptOrEnded, Ledger, TypeOK
<1>2. CASE UNCHANGED <<task, run, appr, waiters>>
  BY <1>1, <1>2, SameRowsKeepFresh
<1>3. CASE PauseRun(s)
  BY <1>1, <1>3, PauseKeepsFresh
<1>4. CASE FailRun(s) /\ IsActiveTask(s, t, task) /\ task[t].active = r
  <2>1. ASSUME NEW q \in TargetRuns(s, task, run)
        PROVE  run[q].status # "waiting_approval"
    <3>1. PICK u \in Tasks : Target(s, u, task, run) /\ task[u].active = q
      BY DEF TargetRuns
    <3>2. u \in OpenTasks(s, task) /\ t \in OpenTasks(s, task) /\ u <= t /\ t <= u
      BY <1>4, <3>1 DEF Target, IsActiveTask
    <3>3. u = t
      BY <3>2 DEF OpenTasks, Tasks
    <3>4. q = r
      BY <1>4, <3>1, <3>3
    <3>. QED BY <3>4 DEF PreparedRunRejected, FreshInv, PromiseInv, WaitingIsBlocked
  <2>. QED BY <1>1, <1>4, <2>1, FailKeepsFresh
<1>. QED BY <1>2, <1>3, <1>4 DEF PreparedRunRejected, CaughtByObserver, CaughtByStartSession

(* A task the card offers can run: the catch of the IPC never runs. *)
LEMMA OfferedCanRun ==
  ASSUME Ledger, StaleClicks = FALSE, NEW t \in Tasks, NEW trigger \in {"resume", "retry"}
  PROVE  ~ PrepareRunRejected(t, trigger)
BY DEF PrepareRunRejected, Offered, CanMoveTask, TaskMoves

-----------------------------------------------------------------------------
(***************************************************************************)
(* Steps on one run that is the active one of its task.                    *)
(***************************************************************************)
LEMMA ActiveRowIsCalm ==
  ASSUME Ledger, RowInv, RowsKept, starting' \subseteq starting,
         NEW r \in Runs, NEW t \in Tasks, run[r].task = t, TaskExists(t), task[t].active = r,
         \A u \in Tasks \ {t} : task'[u] = task[u],
         \A q \in Runs \ {r} : run'[q] = run[q],
         IsOpen(task'[t]) => IsOpen(task[t]),
         \/ run'[r].status \notin Executing \cup {"queued"}
         \/ task' = task /\ run'[r].status \in Executing /\ run[r].status \in Executing
  PROVE  CalmRows
<1>1. \A u \in Tasks : /\ IsOpen(task'[u]) => IsOpen(task[u])
                       /\ task'[u].status = "absent" <=> task[u].status = "absent"
  BY DEF RowsKept, TaskExists, NoRow
<1>2. ASSUME NEW q \in Runs,
             run'[q].status \in Executing \/ (run'[q].status = "queued" /\ q \in starting')
      PROVE  task'[run[q].task].active = task[run[q].task].active
  <2>1. CASE q = r
    BY <1>2, <2>1 DEF Executing
  <2>2. CASE q # r
    <3>1. /\ run[q].status \in Executing \/ (run[q].status = "queued" /\ q \in starting)
          /\ run[q].task \in Tasks
      BY <1>2, <2>2 DEF Ledger, Owned, RunExists, Executing, NoRow
    <3>2. task[run[q].task].active = q
      BY <3>1 DEF RowInv, ExecutingIsActive, StartingIsActive
    <3>. QED BY <2>2, <3>1, <3>2
  <2>. QED BY <2>1, <2>2
<1>3. ASSUME NEW q \in Runs
      PROVE  /\ run'[q].status \in Executing => run[q].status \in Executing
             /\ run'[q].status = "queued" => run[q].status = "queued"
  BY DEF Executing
<1>. QED BY <1>1, <1>2, <1>3 DEF CalmRows

(* The promise of one call is kept, the other promises stay. *)
LEMMA AnswerIsCalm ==
  ASSUME Ledger, PromiseInv, RowsKept, NEW a \in waiters, waiters' = waiters \ {a},
         \A b \in waiters \ {a} : appr'[b].decision = appr[b].decision,
         \A q \in Runs \ {a[1]} : run'[q] = run[q],
         run'[a[1]].status # "waiting_approval"
  PROVE  CalmPromises
<1>1. ASSUME NEW b \in waiters'
      PROVE  /\ b \in waiters /\ b[1] \in Runs \ {a[1]} /\ RunExists(b[1])
             /\ run[b[1]].status = "waiting_approval"
  BY DEF Ledger, TypeOK, Keys, PromiseInv, PromiseIsPending, RunExists, NoRow
<1>2. \A b \in waiters' : SessionOf(b[1])' = SessionOf(b[1])
  BY <1>1, KeptSession DEF Ledger
<1>3. \A r \in Runs, c \in Calls : r # a[1] => <<r, c>> # a
  OBVIOUS
<1>. QED BY <1>1, <1>2, <1>3 DEF CalmPromises

LEMMA SameDecisionsAreCalm ==
  ASSUME Ledger, PromiseInv, RowsKept, UNCHANGED <<run, waiters>>,
         \A b \in waiters : appr'[b].decision = appr[b].decision
  PROVE  CalmPromises
<1>1. \A b \in waiters : b[1] \in Runs /\ RunExists(b[1])
  BY DEF Ledger, TypeOK, Keys, PromiseInv, PromiseIsPending, RunExists, NoRow
<1>2. \A b \in waiters : SessionOf(b[1])' = SessionOf(b[1])
  BY <1>1, KeptSession DEF Ledger
<1>. QED BY <1>2 DEF CalmPromises, PromiseInv, PromiseIsPending

LEMMA SameAdapter == ASSUME UNCHANGED adapter PROVE TurnKeptOrEnded
BY DEF adapter, TurnKeptOrEnded

LEMMA ContractKeepsFresh ==
  ASSUME Ledger, FreshInv, NEW s \in Sessions, SetOutputContract(s)
  PROVE  FreshInv'
<1>1. RowsKept /\ TurnKeptOrEnded /\ UNCHANGED <<run, appr, waiters>>
  BY OtherKeepRows, SameAdapter DEF Ledger, SetOutputContract, memory
<1>2. \A t \in Tasks : task'[t].status = task[t].status /\ task'[t].active = task[t].active
  BY RowTypes DEF SetOutputContract, Ledger, TypeOK, TaskRow
<1>3. \A r \in Runs : run[r].status \in Executing \cup {"queued"} => run[r].task \in Tasks
  BY DEF Ledger, Owned, Executing, RunExists, NoRow
<1>4. CalmRows
  BY <1>1, <1>2, <1>3 DEF CalmRows, IsOpen, NoRow
<1>. QED BY <1>1, <1>4, SameDecisionsAreCalm, CalmKeepsFresh DEF FreshInv, Calm, TurnKeptOrEnded

LEMMA EffectsKeepFresh ==
  ASSUME Ledger, FreshInv, NEW a \in Keys,
         \/ \E s \in Sessions : AuthorizeAuto(s, a)
         \/ \E effect : RecordToolResult(a, effect)
  PROVE  FreshInv'
<1>1. UNCHANGED <<task, run, waiters>> /\ TurnKeptOrEnded
  BY SameAdapter DEF AuthorizeAuto, RecordToolResult, memory
<1>2. RowsKept /\ CalmRows
  BY <1>1, SameIsCalm DEF CalmRows
<1>3. ASSUME NEW b \in waiters PROVE appr'[b].decision = appr[b].decision
  <2>1. b \in Keys /\ appr[b].decision = "pending" /\ appr[b] \in Approval
    BY DEF Ledger, TypeOK, FreshInv, PromiseInv, PromiseIsPending
  <2>2. CASE \E s \in Sessions : AuthorizeAuto(s, a)
    BY <2>1, <2>2 DEF AuthorizeAuto, MayAuthorize, Decided
  <2>3. CASE \E effect : RecordToolResult(a, effect)
    <3>. PICK effect : appr' = [appr EXCEPT ![a] = [@ EXCEPT !.effect = effect]]
      BY <2>3 DEF RecordToolResult
    <3>. QED BY <2>1 DEF Ledger, TypeOK, Approval
  <2>. QED BY <2>2, <2>3
<1>. QED BY <1>1, <1>2, <1>3, SameDecisionsAreCalm, CalmKeepsFresh
        DEF FreshInv, Calm, TurnKeptOrEnded

(* The run of a promise waits, and is the active one of a running task. *)
LEMMA WaitersRun ==
  ASSUME Ledger, FreshInv, NEW a \in waiters
  PROVE  /\ a \in Keys /\ a[1] \in Runs /\ run[a[1]].status = "waiting_approval"
         /\ run[a[1]].task \in Tasks /\ TaskExists(run[a[1]].task)
         /\ task[run[a[1]].task].active = a[1] /\ IsOpen(task[run[a[1]].task])
<1>1. a \in Keys /\ a[1] \in Runs /\ run[a[1]].status = "waiting_approval"
  BY DEF Ledger, TypeOK, Keys, FreshInv, PromiseInv, PromiseIsPending
<1>. QED BY <1>1, ExecutingTask
        DEF Executing, FreshInv, RowInv, TaskExists, IsOpen, NoRow, TerminalTask

LEMMA ApproveKeepsFresh ==
  ASSUME Ledger, FreshInv, NEW a \in Keys, Approve(a)
  PROVE  FreshInv'
<1>1. /\ a \in waiters /\ task' = task /\ waiters' = waiters \ {a}
      /\ run' = Moved(run, a[1], "running") /\ appr' = Decided(a, "approved", "executing")
  BY DEF Approve, Answerable
<1>2. TurnKeptOrEnded /\ RowsKept
  BY OtherKeepRows, SameAdapter DEF Approve, Ledger
<1>3. run'[a[1]].status = "running" /\ \A q \in Runs \ {a[1]} : run'[q] = run[q]
  BY <1>1, WaitersRun DEF Moved, Ledger, TypeOK, RunRow
<1>4. CalmRows
  BY <1>1, <1>2, <1>3, WaitersRun, ActiveRowIsCalm DEF FreshInv, TurnKeptOrEnded, Executing
<1>5. \A b \in waiters \ {a} : appr'[b].decision = appr[b].decision
  BY <1>1 DEF Decided, Ledger, TypeOK
<1>6. CalmPromises
  BY <1>1, <1>2, <1>3, <1>5, AnswerIsCalm DEF FreshInv
<1>. QED BY <1>2, <1>4, <1>6, CalmKeepsFresh DEF Calm, TurnKeptOrEnded

(* The rows a denial writes leave nothing to pause in the session. *)
LEMMA DenialLeavesNoTarget ==
  ASSUME Ledger, FreshInv, NEW a \in waiters, MayDeny(a), NEW u \in Tasks
  PROVE  ~ Target(SessionOf(a[1]), u, DeniedTask(a), DeniedRun(a))
<1>. DEFINE r == a[1]
            t == run[r].task
            s == SessionOf(r)
<1>1. /\ DeniedTask(a)[t].active = r
      /\ \A w \in Tasks \ {t} : DeniedTask(a)[w] = task[w]
  BY WaitersRun, RowTypes DEF DeniedTask, MovedTask, Ledger, TypeOK, TaskRow
<1>2. DeniedRun(a)[r].status = "paused"
  BY WaitersRun, RowTypes DEF DeniedRun, Moved, Ledger, TypeOK, RunRow
<1>3. CASE u = t
  BY <1>1, <1>2, <1>3 DEF Target, ActiveRun
<1>4. CASE u # t
  <2>1. IsOpen(task[u]) /\ task[u].session = s => FALSE
    BY <1>4, WaitersRun, OpenTaskUnique DEF FreshInv, RowInv, SessionOf
  <2>. QED BY <1>1, <1>4, <2>1 DEF Target, IsActiveTask, OpenTasks, IsOpen
<1>. QED BY <1>3, <1>4

LEMMA DeniedRowsAreCalm ==
  ASSUME Ledger, FreshInv, RowsKept, starting' \subseteq starting,
         NEW a \in waiters, MayDeny(a),
         \A t \in Tasks : task'[t] = DeniedTask(a)[t], \A r \in Runs : run'[r] = DeniedRun(a)[r]
  PROVE  /\ CalmRows /\ run'[a[1]].status = "paused"
         /\ \A q \in Runs \ {a[1]} : run'[q] = run[q]
<1>1. /\ run'[a[1]].status = "paused"
      /\ \A q \in Runs \ {a[1]} : run'[q] = run[q]
  BY WaitersRun, RowTypes DEF DeniedRun, Moved, Ledger, TypeOK, RunRow
<1>2. \A u \in Tasks \ {run[a[1]].task} : task'[u] = task[u]
  BY WaitersRun DEF DeniedTask, MovedTask, Ledger, TypeOK
<1>. QED BY <1>1, <1>2, WaitersRun, ActiveRowIsCalm DEF FreshInv, Executing

LEMMA DenialKeepsFresh ==
  ASSUME Ledger, FreshInv, NEW a \in Keys, DenyInCard(a) \/ DenyInChat(a)
  PROVE  FreshInv'
<1>. DEFINE ap == Decided(a, "denied", "not_started")
            s == SessionOf(a[1])
<1>1. a \in waiters /\ MayDeny(a) /\ RowsKept
  BY OtherKeepRows DEF DenyInCard, DenyInChat, MayDeny, Answerable, Ledger
<1>2. TurnKeptOrEnded
  BY SameAdapter, AbortEndsTurn DEF DenyInCard, DenyInChat, Ledger
<1>3. \A b \in waiters \ {a} : ap[b] = appr[b] /\ SessionOf(b[1]) # s
  <2>1. \A b \in waiters \ {a} : SessionOf(b[1]) # s
    BY <1>1, WaitersRun, OneExecuting
       DEF FreshInv, Executing, PromiseInv, PromiseIsPending
  <2>. QED BY <2>1 DEF Decided, Ledger, TypeOK
<1>4. /\ \A t \in Tasks : task'[t] = DeniedTask(a)[t]
      /\ \A r \in Runs : run'[r] = DeniedRun(a)[r]
      /\ waiters' = waiters \ {a}
      /\ \A b \in waiters \ {a} : appr'[b] = appr[b]
  <2>1. CASE DenyInCard(a)
    BY <1>3, <2>1 DEF DenyInCard, DeniedTask, DeniedRun
  <2>2. CASE DenyInChat(a)
    <3>1. Pause(s, DeniedTask(a), DeniedRun(a), ap, waiters \ {a})
      BY <2>2 DEF DenyInChat, DeniedTask, DeniedRun
    <3>2. ~ PauseThrows(s, DeniedTask(a), DeniedRun(a))
      BY <1>1, DenialLeavesNoTarget DEF PauseThrows
    <3>3. \A t \in Tasks : ~ Target(s, t, DeniedTask(a), DeniedRun(a))
      BY <1>1, DenialLeavesNoTarget
    <3>4. TargetRuns(s, DeniedTask(a), DeniedRun(a)) = {}
      BY <3>3 DEF TargetRuns
    <3>5. \A b \in waiters \ {a} : b \in Keys /\ b \notin PendingOf(s, ap)
      BY <1>3, WaitersRun DEF PendingOf
    <3>. HIDE DEF ap, s
    <3>6. /\ \A t \in Tasks : task'[t] = DeniedTask(a)[t]
          /\ \A r \in Runs : run'[r] = DeniedRun(a)[r]
      BY <3>1, <3>2, <3>3, <3>4 DEF Pause
    <3>7. appr' = Expired(ap, PendingOf(s, ap)) /\ waiters' = (waiters \ {a}) \ PendingOf(s, ap)
      BY <3>1, <3>2 DEF Pause
    <3>8. \A b \in waiters \ {a} : appr'[b] = appr[b]
      BY <1>3, <3>5, <3>7 DEF Expired
    <3>. QED BY <3>5, <3>6, <3>7, <3>8
  <2>. QED BY <2>1, <2>2
<1>5. /\ CalmRows /\ run'[a[1]].status = "paused"
      /\ \A q \in Runs \ {a[1]} : run'[q] = run[q]
  BY <1>1, <1>2, <1>4, DeniedRowsAreCalm DEF TurnKeptOrEnded
<1>6. CalmPromises
  BY <1>1, <1>4, <1>5, AnswerIsCalm DEF FreshInv
<1>. QED BY <1>2, <1>5, <1>6, CalmKeepsFresh DEF Calm, TurnKeptOrEnded

(* The end of an active run that does not wait. *)
LEMMA EndIsCalm ==
  ASSUME Ledger, FreshInv, RowsKept, starting' \subseteq starting,
         \A s \in Sessions : live'[s] \in {live[s], NoRun},
         NEW r \in Runs, NEW t \in Tasks, run[r].task = t, TaskExists(t), task[t].active = r,
         \A u \in Tasks \ {t} : task'[u] = task[u],
         \A q \in Runs \ {r} : run'[q] = run[q],
         IsOpen(task'[t]) => IsOpen(task[t]),
         run'[r].status \notin Executing \cup {"queued"},
         \A a \in waiters : a[1] # r, UNCHANGED <<appr, waiters>>
  PROVE  FreshInv'
<1>1. CalmRows
  BY ActiveRowIsCalm DEF FreshInv
<1>2. \A a \in waiters : a[1] \in Runs \ {r} /\ RunExists(a[1])
  BY WaitersRun DEF RunExists, NoRow
<1>3. \A a \in waiters : SessionOf(a[1])' = SessionOf(a[1])
  BY <1>2, KeptSession DEF Ledger
<1>4. CalmPromises
  BY <1>2, <1>3, WaitersRun DEF CalmPromises, Executing
<1>. QED BY <1>1, <1>4, CalmKeepsFresh DEF Calm

LEMMA FinishKeepsFresh ==
  ASSUME Ledger, FreshInv, NEW c \in collecting, NEW verdict \in Outcomes,
         NEW delivery \in Deliveries, FinishCompletion(c, verdict, delivery)
  PROVE  FreshInv'
<1>. DEFINE r == c.run
            t == run[r].task
<1>1. RowsKept /\ TurnKeptOrEnded /\ UNCHANGED <<appr, waiters>>
  BY OtherKeepRows, SameAdapter DEF Ledger, FinishCompletion
<1>2. CASE UNCHANGED <<task, run>>
  BY <1>1, <1>2, SameRowsKeepFresh
<1>3. CASE StillActive(r)
  <2>1. r \in Runs /\ run[r].status = "running"
    BY <1>3 DEF Ledger, TypeOK, Completion, StillActive, IsRunning
  <2>2. t \in Tasks /\ TaskExists(t) /\ task[t].active = r /\ IsOpen(task[t])
    BY <2>1, ExecutingTask
       DEF FreshInv, RowInv, Executing, TaskExists, IsOpen, NoRow, TerminalTask
  <2>3. \E outcome : run' = Concluded(r, outcome)
    BY <1>3 DEF FinishCompletion
  <2>4. /\ run'[r].status \in {"succeeded", "needs_review"}
        /\ \A q \in Runs \ {r} : run'[q] = run[q]
    BY <2>1, <2>3, RowTypes DEF Concluded, Ledger, TypeOK, RunRow
  <2>5. \E status, active : task' = MovedTask(t, status, active)
    BY <1>3 DEF FinishCompletion
  <2>6. \A u \in Tasks \ {t} : task'[u] = task[u]
    BY <2>5 DEF MovedTask, Ledger, TypeOK
  <2>7. \A a \in waiters : a[1] # r
    BY <2>1, WaitersRun
  <2>. QED BY <1>1, <2>1, <2>2, <2>4, <2>6, <2>7, EndIsCalm DEF TurnKeptOrEnded, Executing
<1>. QED BY <1>2, <1>3 DEF FinishCompletion

LEMMA AcceptKeepsFresh ==
  ASSUME Ledger, FreshInv, NEW t \in Tasks, AcceptTask(t)
  PROVE  FreshInv'
<1>. DEFINE r == task[t].active
<1>1. /\ task[t].status = "needs_review" /\ r # NoRun /\ RowsKept /\ TurnKeptOrEnded
      /\ run' = Concluded(r, "passed") /\ task' = MovedTask(t, "completed", NoRun)
      /\ UNCHANGED <<appr, waiters>>
  BY OtherKeepRows, SameAdapter DEF AcceptTask, Ledger, memory
<1>2. r \in Runs /\ TaskExists(t) /\ run[r].task = t /\ run[r].status \notin ActiveRun
  BY <1>1, RowTypes DEF Ledger, ActiveInRange, TaskRunAgreement, Agreement, TaskExists, NoRow
<1>3. run'[r].status = "succeeded" /\ \A q \in Runs \ {r} : run'[q] = run[q]
  BY <1>1, <1>2, RowTypes DEF Concluded, Ledger, TypeOK, RunRow
<1>4. IsOpen(task[t]) /\ \A u \in Tasks \ {t} : task'[u] = task[u]
  BY <1>1 DEF IsOpen, NoRow, TerminalTask, MovedTask, Ledger, TypeOK
<1>5. \A a \in waiters : a[1] # r
  BY <1>2, WaitersRun DEF ActiveRun
<1>. QED BY <1>1, <1>2, <1>3, <1>4, <1>5, EndIsCalm DEF TurnKeptOrEnded, Executing

LEMMA CancelKeepsFresh ==
  ASSUME Ledger, FreshInv, NEW s \in Sessions, NEW r \in Runs, CancelExternal(s, r)
  PROVE  FreshInv'
<1>. DEFINE t == run[r].task
<1>1. /\ s \in ExternalSessions /\ SessionOf(r) = s /\ run[r].status \in ActiveRun
      /\ run' = Moved(run, r, "cancelled") /\ task' = MovedTask(t, "cancelled", NoRun)
      /\ UNCHANGED <<appr, waiters>>
  BY DEF CancelExternal, RunsOf
<1>2. run[r].status \in Executing
  BY <1>1 DEF FreshInv, RowInv, QueuedIsOurs, ActiveRun, Executing
<1>3. t \in Tasks /\ TaskExists(t) /\ task[t].active = r /\ IsOpen(task[t])
  BY <1>2, ExecutingTask DEF FreshInv, RowInv, TaskExists, IsOpen, NoRow, TerminalTask
<1>4. run'[r].status = "cancelled" /\ \A q \in Runs \ {r} : run'[q] = run[q]
  BY <1>1, RowTypes DEF Moved, Ledger, TypeOK, RunRow
<1>5. \A u \in Tasks \ {t} : task'[u] = task[u]
  BY <1>1 DEF MovedTask, Ledger, TypeOK
<1>6. \A a \in waiters : a[1] # r
  BY <1>1 DEF FreshInv, PromiseInv, PromiseIsPending
<1>7. RowsKept /\ TurnKeptOrEnded
  BY OtherKeepRows DEF CancelExternal, TurnKeptOrEnded, Ledger, TypeOK
<1>. QED BY <1>1, <1>3, <1>4, <1>5, <1>6, <1>7, EndIsCalm DEF TurnKeptOrEnded, Executing

LEMMA RestartKeepsFresh ==
  ASSUME Ledger, FreshInv, NEW first \in [Tasks -> Runs], Restart(first)
  PROVE  FreshInv'
<1>1. RowsKept
  BY OtherKeepRows DEF Ledger
<1>2. \A r \in Runs : /\ run'[r].status \notin Executing
                      /\ run'[r].status = "queued" => run[r].status = "queued"
  BY RowTypes DEF Restart, Ledger, RunRow, Executing
<1>3. ASSUME NEW t \in Tasks
      PROVE  /\ IsOpen(task'[t]) => IsOpen(task[t])
             /\ task'[t].status = "absent" <=> task[t].status = "absent"
  <2>1. CASE task[t].status = "running"
    <3>1. task'[t] = RecoveredTask(t, first[t]) \/ task'[t] = task[t]
      BY DEF Restart
    <3>2. task'[t].status \in {"paused", "needs_review", "running"}
      BY <2>1, <3>1, RowTypes DEF RecoveredTask, Ledger, TaskRow
    <3>. QED BY <2>1, <3>2 DEF IsOpen, NoRow, TerminalTask
  <2>2. CASE task[t].status # "running"
    BY <2>2 DEF Restart
  <2>. QED BY <2>1, <2>2
<1>4. starting' = {} /\ waiters' = {} /\ \A s \in Sessions : live'[s] = NoRun
  BY DEF Restart
<1>5. Calm
  BY <1>1, <1>2, <1>3, <1>4 DEF Calm, CalmRows
<1>6. CalmPromises
  BY <1>2, <1>4 DEF CalmPromises, Executing
<1>. QED BY <1>5, <1>6, CalmKeepsFresh

LEMMA AskKeepsFresh ==
  ASSUME Ledger, FreshInv, NEW s \in Sessions, NEW a \in Keys, AuthorizeAsk(s, a)
  PROVE  FreshInv'
<1>. DEFINE r == a[1]
            t == run[r].task
<1>1. /\ s \notin ExternalSessions /\ live[s] = r /\ r # NoRun
      /\ run[r].status = "running" /\ appr[a].decision = "none"
      /\ run' = Moved(run, r, "waiting_approval") /\ task' = task
      /\ appr' = Decided(a, "pending", "not_started") /\ waiters' = waiters \cup {a}
  BY DEF AuthorizeAsk, MayAuthorize, InTurn, IsRunning
<1>2. r \in Runs /\ a = <<r, a[2]>> /\ a[2] \in Calls /\ SessionOf(r) = s
  BY <1>1 DEF Keys, FreshInv, TurnIsOwn
<1>3. t \in Tasks /\ TaskExists(t) /\ task[t].active = r
  BY <1>1, <1>2, ExecutingTask DEF FreshInv, RowInv, Executing, TaskExists, NoRow
<1>4. RowsKept /\ TurnKeptOrEnded
  BY OtherKeepRows, SameAdapter DEF AuthorizeAsk, Ledger
<1>5. run'[r].status = "waiting_approval" /\ \A q \in Runs \ {r} : run'[q] = run[q]
  BY <1>1, <1>2, RowTypes DEF Moved, Ledger, TypeOK, RunRow
<1>6. Calm
  BY <1>1, <1>2, <1>3, <1>4, <1>5, ActiveRowIsCalm
     DEF FreshInv, TurnKeptOrEnded, Executing, Calm
<1>7. ASSUME NEW b \in waiters
      PROVE  /\ appr'[b].decision = "pending" /\ b[1] # r
             /\ run'[b[1]].status = "waiting_approval"
             /\ SessionOf(b[1])' \notin ExternalSessions
  <2>1. b \in Keys /\ appr[b].decision = "pending" /\ SessionOf(b[1]) \notin ExternalSessions
    BY WaitersRun DEF FreshInv, PromiseInv, PromiseIsPending
  <2>2. b[1] \in Runs \ {r} /\ RunExists(b[1])
    BY <1>1, WaitersRun DEF RunExists, NoRow
  <2>3. appr'[b] = appr[b]
    BY <1>1, <2>1 DEF Decided, Ledger, TypeOK
  <2>. QED BY <1>4, <1>5, <2>1, <2>2, <2>3, WaitersRun, KeptSession DEF Ledger
<1>8. appr'[a].decision = "pending" /\ SessionOf(r)' \notin ExternalSessions
  <2>1. RunExists(r)
    BY <1>1 DEF RunExists, NoRow
  <2>. QED BY <1>1, <1>2, <1>4, <2>1, KeptSession DEF Decided, Ledger, TypeOK
<1>9. PromiseIsPending'
  BY <1>1, <1>5, <1>7, <1>8 DEF PromiseIsPending, FreshInv, PromiseInv
<1>10. WaitingIsBlocked'
  BY <1>1, <1>2, <1>5 DEF WaitingIsBlocked, FreshInv, PromiseInv, Blocked
<1>. QED BY <1>6, <1>9, <1>10, CalmKeepsRows, CalmKeepsTurn DEF FreshInv, PromiseInv

-----------------------------------------------------------------------------
(***************************************************************************)
(* Steps that open a task, begin a run or delete rows.                     *)
(***************************************************************************)
LEMMA RunRows ==
  ASSUME Ledger, NEW r \in Runs, run[r].status \notin NoRow
  PROVE  RunExists(r) /\ run[r].task \in Tasks /\ TaskExists(run[r].task)
BY DEF Ledger, Owned, RunExists

(* The card offers Resume and Retry for the newest task, when it does not run. *)
LEMMA FreshOffer ==
  ASSUME StaleClicks = FALSE, NEW t \in Tasks, NEW trigger, NEW r, PrepareRun(t, trigger, r)
  PROVE  IsLatest(t) /\ task[t].status \notin {"running"} \cup NoRow
BY DEF PrepareRun, Offered, TaskExists, NoRow

LEMMA PrepareKeepsRows ==
  ASSUME Ledger, FreshInv, NEW t \in Tasks, NEW trigger \in {"resume", "retry"},
         NEW r \in Runs, PrepareRun(t, trigger, r),
         IsLatest(t), task[t].status \notin {"running"} \cup NoRow
  PROVE  /\ task[t].session \notin ExternalSessions /\ IsLatest(t)
         /\ task[t].status \notin {"running"} \cup NoRow
         /\ run[r].status = "absent" /\ r # NoRun
         /\ run'[r].status = "queued" /\ run'[r].task = t
         /\ \A q \in Runs \ {r} : run'[q] = run[q]
         /\ task'[t].status = "running" /\ task'[t].active = r
         /\ task'[t].session = task[t].session
         /\ \A u \in Tasks \ {t} : task'[u] = task[u]
<1>1. /\ task[t].session \notin ExternalSessions /\ IsLatest(t)
      /\ task[t].status \notin {"running"} \cup NoRow /\ run[r].status = "absent"
  BY DEF PrepareRun, Offered, TaskExists, NextRun
<1>2. /\ run' = [run EXCEPT ![r] = [status |-> "queued", task |-> t,
                                    trigger |-> trigger, outcome |-> "none"]]
      /\ task' = MovedTask(t, "running", r)
  BY DEF PrepareRun
<1>3. run'[r].status = "queued" /\ run'[r].task = t /\ \A q \in Runs \ {r} : run'[q] = run[q]
  BY <1>2 DEF Ledger, TypeOK
<1>4. /\ task'[t].status = "running" /\ task'[t].active = r
      /\ task'[t].session = task[t].session
      /\ \A u \in Tasks \ {t} : task'[u] = task[u]
  BY <1>2, RowTypes DEF MovedTask, Ledger, TypeOK, TaskRow
<1>5. r # NoRun
  BY DEF Runs, NoRun
<1>. QED BY <1>1, <1>3, <1>4, <1>5

LEMMA PrepareKeepsFresh ==
  ASSUME Ledger, FreshInv, NEW t \in Tasks, NEW trigger \in {"resume", "retry"},
         NEW r \in Runs, PrepareRun(t, trigger, r),
         IsLatest(t), task[t].status \notin {"running"} \cup NoRow
  PROVE  FreshInv'
<1>1. /\ task[t].session \notin ExternalSessions /\ IsLatest(t)
      /\ task[t].status \notin {"running"} \cup NoRow /\ run[r].status = "absent"
  BY PrepareKeepsRows
<1>2. /\ run'[r].status = "queued" /\ run'[r].task = t
      /\ \A q \in Runs \ {r} : run'[q] = run[q]
  BY PrepareKeepsRows
<1>3. /\ task'[t].status = "running" /\ task'[t].active = r
      /\ \A u \in Tasks \ {t} : task'[u] = task[u]
  BY PrepareKeepsRows
<1>4. \A u \in Tasks : task'[u].session = task[u].session
  BY PrepareKeepsRows
<1>5. /\ waiters' = waiters /\ live' = live /\ starting' = starting \cup {r}
  BY DEF PrepareRun, memory
(* The task does not run, so none of its runs is under way. *)
<1>6. ASSUME NEW q \in Runs,
             run[q].status \in Executing \/ (run[q].status = "queued" /\ q \in starting)
      PROVE  q # r /\ run[q].task \in Tasks \ {t} /\ task[run[q].task].active = q
  <2>1. /\ q # r /\ run[q].task \in Tasks /\ TaskExists(run[q].task)
        /\ run[q].status \in ActiveRun
    BY <1>1, <1>6, RunRows DEF Executing, NoRow, ActiveRun
  <2>2. task[run[q].task].active = q /\ q # NoRun
    BY <1>6 DEF FreshInv, RowInv, ExecutingIsActive, StartingIsActive, Runs, NoRun
  <2>3. task[run[q].task].status = "running"
    BY <2>1, <2>2 DEF Ledger, TaskRunAgreement, Agreement, TaskExists
  <2>. QED BY <1>1, <2>1, <2>2, <2>3
<1>7. \A q \in Runs : RunExists(q) => q # r /\ RunExists(q)' /\ SessionOf(q)' = SessionOf(q)
  BY <1>1, <1>2, <1>4, RunRows DEF RunExists, SessionOf, NoRow
<1>8. OpenIsLatest'
  <2>1. \A u \in Tasks : TaskExists(u)' <=> TaskExists(u)
    BY <1>1, <1>3 DEF TaskExists, NoRow
  <2>2. \A u \in Tasks : IsOpen(task'[u]) => IsLatest(u)
    BY <1>1, <1>3 DEF FreshInv, RowInv, OpenIsLatest
  <2>. QED BY <1>4, <2>1, <2>2 DEF OpenIsLatest, IsLatest
<1>9. NewerAbsent'
  BY <1>1, <1>3 DEF FreshInv, RowInv, NewerAbsent, NoRow
<1>10. ExecutingIsActive'
  BY <1>2, <1>3, <1>6 DEF ExecutingIsActive, Executing
<1>11. StartingIsActive'
  BY <1>2, <1>3, <1>5, <1>6 DEF StartingIsActive, FreshInv, RowInv, Executing, NoRow, Ledger, TypeOK
<1>12. QueuedIsOurs'
  <2>. SUFFICES ASSUME NEW q \in Runs, run'[q].status = "queued"
                PROVE  SessionOf(q)' \notin ExternalSessions
    BY DEF QueuedIsOurs
  <2>1. CASE q = r
    BY <1>1, <1>2, <1>4, <2>1 DEF SessionOf
  <2>2. CASE q # r
    BY <1>2, <1>7, <2>2 DEF FreshInv, RowInv, QueuedIsOurs, RunExists, NoRow
  <2>. QED BY <2>1, <2>2
<1>13. TurnIsOwn'
  BY <1>5, <1>7 DEF TurnIsOwn, FreshInv, Ledger, TypeOK
<1>14. TurnIsCurrent'
  BY <1>2, <1>5, <1>7 DEF TurnIsCurrent, FreshInv, Executing, RunExists, NoRow
<1>15. CalmPromises
  <2>1. ASSUME NEW a \in waiters
        PROVE  /\ appr'[a] = appr[a] /\ run'[a[1]].status = "waiting_approval"
               /\ SessionOf(a[1])' = SessionOf(a[1])
    <3>1. /\ a \in Keys /\ a[1] \in Runs /\ run[a[1]].status = "waiting_approval"
          /\ RunExists(a[1])
      BY WaitersRun DEF RunExists, NoRow
    <3>2. a[1] # r /\ a[1] # task[t].active
      <4>1. a[1] # r /\ run[a[1]].task \in Tasks \ {t} /\ a[1] # NoRun
        BY <1>6, <3>1 DEF Executing, Runs, NoRun
      <4>. QED BY <1>1, <4>1 DEF Ledger, TaskRunAgreement, Agreement
    <3>3. appr' = Expired(appr, {b \in PendingOf(task[t].session, appr) : b[1] = task[t].active})
      BY DEF PrepareRun
    <3>4. appr'[a] = appr[a]
      BY <3>1, <3>2, <3>3 DEF Expired
    <3>. QED BY <1>2, <1>7, <3>1, <3>2, <3>4
  <2>. QED BY <1>2, <1>5, <2>1 DEF CalmPromises
<1>16. PromiseInv'
  BY <1>15, CalmKeepsPromises DEF FreshInv
<1>. QED BY <1>8, <1>9, <1>10, <1>11, <1>12, <1>13, <1>14, <1>16 DEF FreshInv, RowInv

LEMMA BeginPreparedKeepsFresh ==
  ASSUME Ledger, FreshInv, NEW r \in Runs, BeginPreparedRun(r)
  PROVE  FreshInv'
<1>. DEFINE t == run[r].task
            s == SessionOf(r)
<1>1. /\ r \in starting /\ run' = Moved(run, r, "running") /\ task' = MovedTask(t, "running", r)
      /\ live' = [live EXCEPT ![s] = r] /\ starting' = starting \ {r}
      /\ UNCHANGED <<appr, waiters>>
  BY DEF BeginPreparedRun, memory
<1>2. run[r].status = "queued" /\ RunExists(r) /\ t \in Tasks /\ task[t].active = r /\ r # NoRun
  <2>1. run[r].status \in ActiveRun
    BY MayRun, RowTypes DEF BeginPreparedRun, Ledger
  <2>2. run[r].status = "queued"
    BY <1>1, <2>1 DEF FreshInv, RowInv, StartingIsActive, ActiveRun, Executing
  <2>. QED BY <1>1, <2>2, RunRows DEF FreshInv, RowInv, StartingIsActive, NoRow, Runs, NoRun
<1>3. task[t].status = "running"
  BY <1>2, RunRows
     DEF Ledger, TaskRunAgreement, Agreement, TaskExists, ActiveRun, RunExists
<1>4. \A u \in Tasks : task'[u] = task[u]
  BY <1>1, <1>2, <1>3, RowTypes DEF MovedTask, Ledger, TypeOK, TaskRow
<1>5. /\ run'[r].status = "running" /\ run'[r].task = t
      /\ \A q \in Runs \ {r} : run'[q] = run[q]
  BY <1>1, RowTypes DEF Moved, Ledger, TypeOK, RunRow
<1>6. \A q \in Runs : RunExists(q) => RunExists(q)' /\ SessionOf(q)' = SessionOf(q)
  BY <1>4, <1>5, RunRows DEF RunExists, SessionOf, NoRow
<1>7. OpenIsLatest' /\ NewerAbsent'
  BY <1>4 DEF FreshInv, RowInv, OpenIsLatest, NewerAbsent, IsLatest, TaskExists
<1>8. ExecutingIsActive'
  <2>. SUFFICES ASSUME NEW q \in Runs, run'[q].status \in Executing
                PROVE  task'[run'[q].task].active = q
    BY DEF ExecutingIsActive
  <2>1. CASE q = r
    BY <1>2, <1>4, <1>5, <2>1
  <2>2. CASE q # r
    BY <1>4, <1>5, <2>2, ExecutingTask DEF FreshInv, RowInv
  <2>. QED BY <2>1, <2>2
<1>9. StartingIsActive'
  <2>. SUFFICES ASSUME NEW q \in starting'
                PROVE  /\ run'[q].status \notin NoRow \cup Executing
                       /\ run'[q].status = "queued" => task'[run'[q].task].active = q
    BY DEF StartingIsActive
  <2>1. q \in starting /\ q \in Runs \ {r} /\ run[q].status \notin NoRow \cup Executing
    BY <1>1 DEF Ledger, TypeOK, FreshInv, RowInv, StartingIsActive
  <2>. QED BY <1>4, <1>5, <2>1, RunRows DEF FreshInv, RowInv, StartingIsActive
<1>10. QueuedIsOurs'
  BY <1>5, <1>6 DEF FreshInv, RowInv, QueuedIsOurs, RunExists, NoRow
<1>11. TurnIsOwn'
  <2>. SUFFICES ASSUME NEW z \in Sessions, live'[z] # NoRun
                PROVE  RunExists(live[z])' /\ SessionOf(live[z])' = z
    BY DEF TurnIsOwn
  <2>1. CASE z = s
    <3>1. live'[z] = r
      BY <1>1, <2>1 DEF Ledger, TypeOK
    <3>2. RunExists(r)' /\ SessionOf(r)' = z
      BY <1>2, <1>6, <2>1
    <3>. QED BY <3>1, <3>2 DEF RunExists, SessionOf
  <2>2. CASE z # s
    <3>1. live'[z] = live[z] /\ live[z] \in Runs
      BY <1>1, <2>2 DEF Ledger, TypeOK
    <3>. DEFINE q == live[z]
    <3>2. RunExists(q)' /\ SessionOf(q)' = z
      <4>1. q \in Runs /\ RunExists(q) /\ SessionOf(q) = z
        BY <3>1 DEF FreshInv, TurnIsOwn
      <4>2. run'[q].status \notin NoRow /\ task'[run'[q].task].session = z
        <5>. HIDE DEF q
        <5>. QED BY <1>6, <4>1 DEF RunExists, SessionOf
      <4>. QED BY <3>1, <4>2 DEF RunExists, SessionOf
    <3>. QED BY <3>1, <3>2 DEF RunExists, SessionOf
  <2>. QED BY <2>1, <2>2
<1>12. TurnIsCurrent'
  <2>. SUFFICES ASSUME NEW z \in Sessions, NEW q \in Runs, run'[q].status \in Executing,
                       SessionOf(q)' = z
                PROVE  live'[z] \in {q, NoRun}
    BY DEF TurnIsCurrent
  <2>1. CASE q = r
    BY <1>1, <1>2, <1>6, <2>1 DEF Ledger, TypeOK
  <2>2. CASE q # r
    <3>1. run[q].status \in Executing /\ SessionOf(q) = z
      BY <1>5, <1>6, <2>2 DEF Executing, RunExists, NoRow
    <3>2. z # s
      <4>. SUFFICES ASSUME z = s PROVE FALSE
        OBVIOUS
      <4>1. IsOpen(task[run[q].task]) /\ IsOpen(task[t])
        BY <1>3, <3>1, ExecutingTask DEF FreshInv, RowInv, IsOpen, NoRow, TerminalTask
      <4>2. run[q].task = t
        BY <1>2, <3>1, <4>1, ExecutingTask, OpenTaskUnique DEF FreshInv, RowInv, SessionOf
      <4>. QED BY <1>2, <2>2, <3>1, <4>2 DEF FreshInv, RowInv, ExecutingIsActive
    <3>. QED BY <1>1, <3>1, <3>2 DEF FreshInv, TurnIsCurrent, Ledger, TypeOK
  <2>. QED BY <2>1, <2>2
<1>13. CalmPromises
  BY <1>1, <1>2, <1>5, <1>6, WaitersRun DEF CalmPromises, RunExists, NoRow
<1>14. PromiseInv'
  BY <1>13, CalmKeepsPromises DEF FreshInv
<1>. QED BY <1>7, <1>8, <1>9, <1>10, <1>11, <1>12, <1>14 DEF FreshInv, RowInv

(* A run of another session than the one deleted. *)
Untouched(s, q) ==
  /\ SessionOf(q) # s /\ run'[q] = run[q]
  /\ task'[run[q].task] = task[run[q].task]

LEMMA DeleteKeepsFresh ==
  ASSUME Ledger, FreshInv, NEW s \in Sessions, DeleteSession(s)
  PROVE  FreshInv'
<1>1. /\ waiters' = waiters \ PendingOf(s, appr) /\ live' = [live EXCEPT ![s] = NoRun]
      /\ starting' = starting \ RunsOf(s)
  BY DEF DeleteSession
<1>2. ASSUME NEW u \in Tasks
      PROVE  /\ TaskExists(u)' => task'[u] = task[u] /\ TaskExists(u) /\ task[u].session # s
             /\ ~ TaskExists(u) => task'[u] = task[u]
             /\ task'[u].status = "absent" <=> task[u].status = "absent"
  BY DEF DeleteSession, TaskExists, NoRow, NoTaskRow
<1>3. ASSUME NEW q \in Runs, RunExists(q), SessionOf(q) # s
      PROVE  Untouched(s, q) /\ SessionOf(q)' = SessionOf(q) /\ RunExists(q)'
  <2>1. run'[q] = run[q]
    BY <1>3 DEF DeleteSession, RunsOf
  <2>2. task'[run[q].task] = task[run[q].task]
    BY <1>3, RunRows DEF DeleteSession, SessionOf, RunExists
  <2>. QED BY <1>3, <2>1, <2>2 DEF Untouched, SessionOf, RunExists
<1>4. ASSUME NEW q \in Runs, RunExists(q)'
      PROVE  RunExists(q) /\ SessionOf(q) # s
  BY <1>4 DEF DeleteSession, RunsOf, RunExists, NoRunRow, NoRow
<1>5. OpenIsLatest'
  BY <1>2 DEF OpenIsLatest, IsLatest, IsOpen, TaskExists, FreshInv, RowInv
<1>6. NewerAbsent'
  BY <1>2 DEF NewerAbsent, FreshInv, RowInv
<1>7. ExecutingIsActive'
  BY <1>3, <1>4 DEF ExecutingIsActive, FreshInv, RowInv, Untouched, RunExists, Executing, NoRow
<1>8. StartingIsActive'
  <2>1. \A q \in starting' : q \in starting /\ q \in Runs /\ RunExists(q) /\ SessionOf(q) # s
    BY <1>1 DEF Ledger, TypeOK, RunsOf, FreshInv, RowInv, StartingIsActive, RunExists
  <2>. QED BY <1>3, <2>1 DEF StartingIsActive, FreshInv, RowInv, Untouched
<1>9. QueuedIsOurs'
  BY <1>3, <1>4 DEF QueuedIsOurs, FreshInv, RowInv, Untouched, RunExists, NoRow
<1>10. ASSUME NEW z \in Sessions, live'[z] # NoRun
       PROVE  RunExists(live[z])' /\ SessionOf(live[z])' = z
  <2>1. z # s /\ live'[z] = live[z] /\ live[z] \in Runs
    BY <1>1, <1>10 DEF Ledger, TypeOK
  <2>2. PICK q \in Runs : q = live[z]
    BY <2>1
  <2>3. RunExists(q) /\ SessionOf(q) = z
    BY <2>1, <2>2, <1>10 DEF FreshInv, TurnIsOwn
  <2>4. RunExists(q)' /\ SessionOf(q)' = z
    BY <1>3, <2>1, <2>3
  <2>. QED BY <2>1, <2>2, <2>4 DEF RunExists, SessionOf
<1>11. TurnIsCurrent'
  <2>. SUFFICES ASSUME NEW z \in Sessions, NEW q \in Runs, run'[q].status \in Executing,
                       SessionOf(q)' = z
                PROVE  live'[z] \in {q, NoRun}
    BY DEF TurnIsCurrent
  <2>1. RunExists(q) /\ SessionOf(q) # s
    BY <1>4 DEF RunExists, Executing, NoRow
  <2>2. run[q].status \in Executing /\ SessionOf(q) = z
    BY <1>3, <2>1 DEF Untouched
  <2>. QED BY <1>1, <2>1, <2>2 DEF FreshInv, TurnIsCurrent, Ledger, TypeOK
<1>12. CalmPromises
  <2>1. ASSUME NEW a \in waiters
        PROVE  /\ a \in Keys /\ a[1] \in Runs /\ RunExists(a[1])
               /\ run[a[1]].status = "waiting_approval"
               /\ a \in waiters' <=> SessionOf(a[1]) # s
    BY <1>1, WaitersRun DEF PendingOf, RunExists, NoRow, FreshInv, PromiseInv, PromiseIsPending
  <2>2. ASSUME NEW a \in waiters'
        PROVE  /\ appr'[a].decision = appr[a].decision
               /\ run'[a[1]].status = "waiting_approval"
               /\ SessionOf(a[1])' = SessionOf(a[1])
    <3>1. a \in waiters /\ SessionOf(a[1]) # s
      BY <1>1, <2>1, <2>2
    <3>2. appr'[a] = appr[a]
      BY <2>1, <3>1 DEF DeleteSession, RunsOf
    <3>. QED BY <1>3, <2>1, <3>1, <3>2 DEF Untouched
  <2>3. ASSUME NEW r \in Runs, run'[r].status = "waiting_approval"
        PROVE  /\ run[r].status = "waiting_approval"
               /\ \A c \in Calls : <<r, c>> \in waiters => <<r, c>> \in waiters'
    <3>1. RunExists(r) /\ SessionOf(r) # s
      BY <1>4, <2>3 DEF RunExists, NoRow
    <3>. QED BY <1>3, <2>1, <2>3, <3>1 DEF Untouched
  <2>. QED BY <1>1, <2>2, <2>3 DEF CalmPromises
<1>13. PromiseInv'
  BY <1>12, CalmKeepsPromises DEF FreshInv
<1>. QED BY <1>5, <1>6, <1>7, <1>8, <1>9, <1>10, <1>11, <1>13
        DEF FreshInv, RowInv, TurnIsOwn

(* A message supersedes every open task of the session: there is but one. *)
LEMMA AllSuperseded ==
  ASSUME FreshInv, NEW s \in Sessions, NEW u \in Tasks, IsOpen(task[u]), task[u].session = s
  PROVE  u \in Superseded(s)
<1>1. u \in OpenTasks(s, task)
  BY DEF OpenTasks, IsOpen
<1>2. \A w \in OpenTasks(s, task) : w = u
  BY OpenTaskUnique DEF OpenTasks, IsOpen, FreshInv, RowInv
<1>3. \A w \in OpenTasks(s, task) : w <= u
  BY <1>2 DEF Tasks
<1>. QED BY <1>1, <1>3 DEF Superseded, IsActiveTask

LEMMA MessageRows ==
  ASSUME NEW s \in Sessions, NEW contract, NEW t \in Tasks, NEW r \in Runs,
         BeginMessageRun(s, contract, t, r)
  PROVE  /\ task[t].status = "absent" /\ \A u \in Tasks : u < t => task[u].status # "absent"
         /\ run[r].status = "absent" /\ r # NoRun
         /\ task'[t].status = "running" /\ task'[t].session = s /\ task'[t].active = r
         /\ run'[r].status = "running" /\ run'[r].task = t
<1>1. NextTask(t) /\ NextRun(r)
  BY DEF BeginMessageRun
<1>2. r # NoRun
  BY DEF Runs, NoRun
<1>3. /\ task'[t].status = "running" /\ task'[t].session = s /\ task'[t].active = r
      /\ run'[r].status = "running" /\ run'[r].task = t
  BY DEF BeginMessageRun
<1>. QED BY <1>1, <1>2, <1>3 DEF NextTask, NextRun

LEMMA SupersededIsOpen ==
  ASSUME NEW s, NEW u \in Superseded(s)
  PROVE  u \in Tasks /\ IsOpen(task[u]) /\ task[u].session = s
BY DEF Superseded, IsActiveTask, OpenTasks, IsOpen

LEMMA MessageTaskRows ==
  ASSUME Ledger, FreshInv, NEW s \in Sessions, NEW contract, NEW t \in Tasks, NEW r \in Runs,
         BeginMessageRun(s, contract, t, r), NEW u \in Tasks \ {t}
  PROVE  /\ task'[u].session = task[u].session
         /\ \/ task'[u].status = task[u].status
            \/ task'[u].status = "cancelled" /\ IsOpen(task[u])
         /\ IsOpen(task'[u]) => task[u].session # s
<1>1. CASE u \in Superseded(s)
  <2>1. task'[u].status = "cancelled" /\ task'[u].session = task[u].session
    BY <1>1, RowTypes DEF BeginMessageRun, Ledger, TaskRow
  <2>. QED BY <1>1, <2>1, SupersededIsOpen DEF IsOpen, TerminalTask
<1>2. CASE u \notin Superseded(s)
  <2>1. task'[u] = task[u]
    BY <1>2 DEF BeginMessageRun
  <2>. QED BY <1>2, <2>1, AllSuperseded
<1>. QED BY <1>1, <1>2

LEMMA MessageRunRows ==
  ASSUME Ledger, FreshInv, NEW s \in Sessions, NEW contract, NEW t \in Tasks, NEW r \in Runs,
         BeginMessageRun(s, contract, t, r), NEW q \in Runs \ {r}
  PROVE  /\ run'[q].task = run[q].task
         /\ \/ run'[q].status = run[q].status
            \/ run'[q].status = "cancelled" /\ run[q].status \in ActiveRun
         /\ run[q].status \in ActiveRun /\ task[run[q].task].active = q /\ SessionOf(q) = s
              => run'[q].status = "cancelled"
         /\ SessionOf(q) # s => run'[q] = run[q]
<1>1. q \in SupersededRuns(s) =>
        run'[q].status = "cancelled" /\ run'[q].task = run[q].task /\ run[q].status \in ActiveRun
  BY RowTypes DEF BeginMessageRun, Ledger, RunRow, SupersededRuns
<1>2. q \notin SupersededRuns(s) => run'[q] = run[q]
  BY DEF BeginMessageRun
<1>3. ASSUME run[q].status \in ActiveRun, task[run[q].task].active = q, SessionOf(q) = s
      PROVE  q \in SupersededRuns(s)
  <2>1. run[q].task \in Tasks /\ TaskExists(run[q].task) /\ q # NoRun
    BY <1>3, RunRows DEF ActiveRun, NoRow, Runs, NoRun
  <2>2. task[run[q].task].status = "running"
    BY <1>3, <2>1 DEF Ledger, TaskRunAgreement, Agreement, TaskExists
  <2>3. run[q].task \in Superseded(s)
    BY <1>3, <2>1, <2>2, AllSuperseded DEF SessionOf, IsOpen, NoRow, TerminalTask
  <2>. QED BY <1>3, <2>3 DEF SupersededRuns
<1>4. ASSUME q \in SupersededRuns(s) PROVE SessionOf(q) = s
  <2>1. PICK u \in Superseded(s) : task[u].active = q
    BY <1>4 DEF SupersededRuns
  <2>2. run[q].task = u
    BY <2>1, SupersededIsOpen DEF Ledger, TaskRunAgreement, Agreement, IsOpen, Runs, NoRun
  <2>. QED BY <2>1, <2>2, SupersededIsOpen DEF SessionOf
<1>. QED BY <1>1, <1>2, <1>3, <1>4

LEMMA MessageKeepsRows ==
  ASSUME Ledger, FreshInv, NEW s \in Sessions, NEW contract, NEW t \in Tasks, NEW r \in Runs,
         BeginMessageRun(s, contract, t, r)
  PROVE  RowInv'
<1>1. /\ task[t].status = "absent" /\ \A u \in Tasks : u < t => task[u].status # "absent"
      /\ run[r].status = "absent"
      /\ task'[t].status = "running" /\ task'[t].session = s /\ task'[t].active = r
      /\ run'[r].status = "running" /\ run'[r].task = t
  BY MessageRows
<1>2. \A u \in Tasks \ {t} :
        /\ task'[u].session = task[u].session
        /\ \/ task'[u].status = task[u].status
           \/ task'[u].status = "cancelled" /\ IsOpen(task[u])
        /\ IsOpen(task'[u]) => task[u].session # s
  BY MessageTaskRows
<1>3. \A q \in Runs \ {r} :
        /\ run'[q].task = run[q].task
        /\ \/ run'[q].status = run[q].status
           \/ run'[q].status = "cancelled" /\ run[q].status \in ActiveRun
  BY MessageRunRows
<1>4. starting' = starting
  BY DEF BeginMessageRun
<1>5. \A u \in Tasks \ {t} : /\ TaskExists(u)' <=> TaskExists(u)
                             /\ task'[u].status = "absent" <=> task[u].status = "absent"
                             /\ IsOpen(task'[u]) => IsOpen(task[u])
  BY <1>2 DEF TaskExists, IsOpen, NoRow, TerminalTask
<1>6. \A u \in Tasks : t < u => task[u].status = "absent"
  BY <1>1 DEF FreshInv, RowInv, NewerAbsent
<1>7. ASSUME NEW u \in Tasks, IsOpen(task'[u]) PROVE IsLatest(u)'
  <2>1. TaskExists(u)'
    BY <1>7 DEF IsOpen, TaskExists
  <2>2. ASSUME NEW w \in Tasks, TaskExists(w)', task'[w].session = task'[u].session
        PROVE  w <= u
    <3>1. CASE u = t
      <4>1. CASE w = t
        BY <3>1, <4>1 DEF Tasks
      <4>2. CASE w # t
        <5>1. ~ (t < w)
          BY <1>5, <1>6, <2>2, <4>2 DEF TaskExists, NoRow
        <5>. QED BY <3>1, <5>1 DEF Tasks
      <4>. QED BY <4>1, <4>2
    <3>2. CASE u # t
      <4>1. task[u].session # s /\ IsLatest(u) /\ task'[u].session = task[u].session
        BY <1>2, <1>5, <1>7, <3>2 DEF FreshInv, RowInv, OpenIsLatest
      <4>2. w # t
        BY <1>1, <2>2, <4>1
      <4>3. TaskExists(w) /\ task[w].session = task[u].session
        BY <1>2, <1>5, <2>2, <4>1, <4>2
      <4>. QED BY <4>1, <4>3 DEF IsLatest
    <3>. QED BY <3>1, <3>2
  <2>. QED BY <2>1, <2>2 DEF IsLatest, TaskExists
<1>8. NewerAbsent'
  <2>. SUFFICES ASSUME NEW u \in Tasks, NEW w \in Tasks, task'[u].status = "absent", u < w
                PROVE  task'[w].status = "absent"
    BY DEF NewerAbsent
  <2>1. u # t
    BY <1>1
  <2>2. task[u].status = "absent"
    BY <1>5, <2>1
  <2>3. task[w].status = "absent" /\ w # t
    BY <1>1, <2>2 DEF FreshInv, RowInv, NewerAbsent
  <2>. QED BY <1>5, <2>3
(* A run that stays under way is of a task that is not superseded. *)
<1>9. ASSUME NEW q \in Runs \ {r}, run[q].status \in ActiveRun, run'[q].status # "cancelled",
             task[run[q].task].active = q
      PROVE  task'[run'[q].task].active = q /\ SessionOf(q) # s
  <2>1. run[q].task \in Tasks /\ TaskExists(run[q].task) /\ run[q].task # t
    BY <1>1, <1>9, RunRows DEF ActiveRun, NoRow, TaskExists
  <2>2. SessionOf(q) # s
    BY <1>9, MessageRunRows
  <2>4. run[q].task \notin Superseded(s)
    BY <2>2 DEF Superseded, IsActiveTask, OpenTasks, SessionOf
  <2>5. task'[run[q].task] = task[run[q].task]
    BY <2>1, <2>4 DEF BeginMessageRun
  <2>. QED BY <1>3, <1>9, <2>2, <2>5
<1>10. ExecutingIsActive'
  <2>. SUFFICES ASSUME NEW q \in Runs, run'[q].status \in Executing
                PROVE  task'[run'[q].task].active = q
    BY DEF ExecutingIsActive
  <2>1. CASE q # r
    <3>1. run[q].status = run'[q].status
      BY <1>3, <2>1 DEF Executing
    <3>2. task[run[q].task].active = q
      BY <3>1 DEF FreshInv, RowInv, ExecutingIsActive
    <3>. QED BY <1>9, <2>1, <3>1, <3>2 DEF Executing, ActiveRun
  <2>. QED BY <1>1, <2>1
<1>11. ASSUME NEW q \in starting'
       PROVE  /\ run'[q].status \notin NoRow \cup Executing
              /\ run'[q].status = "queued" => task'[run'[q].task].active = q
  <2>1. q \in Runs \ {r} /\ run[q].status \notin NoRow \cup Executing
    BY <1>1, <1>4 DEF Ledger, TypeOK, FreshInv, RowInv, StartingIsActive, NoRow
  <2>2. run'[q].status \notin NoRow \cup Executing
    BY <1>3, <2>1 DEF NoRow, Executing
  <2>3. ASSUME run'[q].status = "queued" PROVE task'[run'[q].task].active = q
    <3>1. run[q].status = "queued"
      BY <1>3, <2>1, <2>3
    <3>2. task[run[q].task].active = q
      BY <1>4, <3>1 DEF FreshInv, RowInv, StartingIsActive
    <3>. QED BY <1>9, <2>1, <2>3, <3>1, <3>2 DEF ActiveRun
  <2>. QED BY <2>2, <2>3
<1>12. QueuedIsOurs'
  <2>. SUFFICES ASSUME NEW q \in Runs, run'[q].status = "queued"
                PROVE  SessionOf(q)' \notin ExternalSessions
    BY DEF QueuedIsOurs
  <2>1. q # r
    BY <1>1
  <2>2. run[q].status = "queued" /\ run'[q].task = run[q].task
    BY <1>3, <2>1
  <2>3. run[q].task \in Tasks \ {t}
    BY <1>1, <2>2, RunRows DEF TaskExists, NoRow
  <2>. QED BY <1>2, <2>2, <2>3 DEF FreshInv, RowInv, QueuedIsOurs, SessionOf
<1>. QED BY <1>7, <1>8, <1>10, <1>11, <1>12 DEF RowInv, OpenIsLatest, StartingIsActive

LEMMA MessageKeepsFresh ==
  ASSUME Ledger, FreshInv, NEW s \in Sessions, NEW contract, NEW t \in Tasks, NEW r \in Runs,
         BeginMessageRun(s, contract, t, r)
  PROVE  FreshInv'
<1>1. /\ task[t].status = "absent" /\ run[r].status = "absent" /\ r # NoRun
      /\ task'[t].session = s /\ run'[r].status = "running" /\ run'[r].task = t
  BY MessageRows
<1>2. live' = [live EXCEPT ![s] = r]
  BY DEF BeginMessageRun
<1>3. ASSUME NEW q \in Runs, RunExists(q)
      PROVE  q # r /\ RunExists(q)' /\ SessionOf(q)' = SessionOf(q)
  <2>1. q # r /\ run[q].task \in Tasks \ {t}
    BY <1>1, <1>3, RunRows DEF RunExists, TaskExists, NoRow
  <2>2. run'[q].task = run[q].task /\ task'[run[q].task].session = task[run[q].task].session
    BY <2>1, MessageTaskRows, MessageRunRows
  <2>3. run'[q].status = run[q].status \/ run'[q].status = "cancelled"
    BY <2>1, MessageRunRows
  <2>. QED BY <1>3, <2>1, <2>2, <2>3 DEF RunExists, SessionOf, NoRow
<1>4. SessionOf(r)' = s /\ RunExists(r)'
  BY <1>1 DEF SessionOf, RunExists, NoRow
(* A run that still executes is the new one, or of another session. *)
<1>5. ASSUME NEW q \in Runs, run'[q].status \in Executing, q # r
      PROVE  run[q].status \in Executing /\ RunExists(q) /\ SessionOf(q) # s
  <2>1. run'[q].status = run[q].status
    BY <1>5, MessageRunRows DEF Executing
  <2>2. run[q].status \in ActiveRun /\ run[q].task \in Tasks /\ task[run[q].task].active = q
    BY <1>5, <2>1, ExecutingTask DEF FreshInv, RowInv, Executing, ActiveRun
  <2>3. SessionOf(q) # s
    BY <1>5, <2>2, MessageRunRows DEF Executing
  <2>. QED BY <1>5, <2>1, <2>3 DEF RunExists, Executing, NoRow
<1>6. ASSUME NEW z \in Sessions, live'[z] # NoRun
      PROVE  RunExists(live[z])' /\ SessionOf(live[z])' = z
  <2>1. PICK q \in Runs : q = live'[z]
    BY <1>2, <1>6 DEF Ledger, TypeOK
  <2>2. CASE z = s
    <3>1. live'[z] = r
      BY <1>2, <2>2 DEF Ledger, TypeOK
    <3>. QED BY <1>4, <2>2, <3>1 DEF RunExists, SessionOf
  <2>3. CASE z # s
    <3>1. q = live[z]
      BY <1>2, <2>1, <2>3 DEF Ledger, TypeOK
    <3>2. RunExists(q) /\ SessionOf(q) = z
      BY <1>6, <2>1, <3>1 DEF FreshInv, TurnIsOwn
    <3>3. RunExists(q)' /\ SessionOf(q)' = z
      BY <1>3, <3>2
    <3>. QED BY <2>1, <3>3 DEF RunExists, SessionOf
  <2>. QED BY <2>2, <2>3
<1>7. TurnIsCurrent'
  <2>. SUFFICES ASSUME NEW z \in Sessions, NEW q \in Runs, run'[q].status \in Executing,
                       SessionOf(q)' = z
                PROVE  live'[z] \in {q, NoRun}
    BY DEF TurnIsCurrent
  <2>1. CASE q = r
    BY <1>2, <1>4, <2>1 DEF Ledger, TypeOK
  <2>2. CASE q # r
    <3>1. run[q].status \in Executing /\ SessionOf(q) = z /\ z # s
      BY <1>3, <1>5, <2>2
    <3>. QED BY <1>2, <3>1 DEF FreshInv, TurnIsCurrent, Ledger, TypeOK
  <2>. QED BY <2>1, <2>2
<1>8. CalmPromises
  <2>. DEFINE expired == IF Superseded(s) = {} THEN {} ELSE PendingOf(s, appr)
  <2>1. appr' = Expired(appr, expired) /\ waiters' = waiters \ expired
    BY DEF BeginMessageRun
  <2>2. ASSUME NEW a \in waiters
        PROVE  /\ a \in Keys /\ a[1] \in Runs /\ run[a[1]].status = "waiting_approval"
               /\ RunExists(a[1])
               /\ a \in expired <=> SessionOf(a[1]) = s
    <3>1. /\ a \in Keys /\ a[1] \in Runs /\ run[a[1]].status = "waiting_approval"
          /\ RunExists(a[1])
      BY WaitersRun DEF RunExists, NoRow
    <3>2. a \in PendingOf(s, appr) <=> SessionOf(a[1]) = s
      BY <3>1 DEF PendingOf, FreshInv, PromiseInv, PromiseIsPending
    <3>3. SessionOf(a[1]) = s => Superseded(s) # {}
      BY WaitersRun, AllSuperseded DEF SessionOf
    <3>. QED BY <3>1, <3>2, <3>3
  <2>3. ASSUME NEW a \in waiters'
        PROVE  /\ appr'[a].decision = appr[a].decision
               /\ run'[a[1]].status = "waiting_approval"
               /\ SessionOf(a[1])' = SessionOf(a[1])
    <3>1. a \in waiters /\ a \notin expired
      BY <2>1, <2>3
    <3>2. appr'[a] = appr[a]
      BY <2>1, <2>2, <3>1 DEF Expired
    <3>3. a[1] # r /\ SessionOf(a[1]) # s /\ SessionOf(a[1])' = SessionOf(a[1])
      BY <1>3, <2>2, <3>1
    <3>4. run'[a[1]] = run[a[1]]
      BY <2>2, <3>1, <3>3, MessageRunRows
    <3>. QED BY <2>2, <3>1, <3>2, <3>3, <3>4
  <2>4. ASSUME NEW q \in Runs, run'[q].status = "waiting_approval"
        PROVE  /\ run[q].status = "waiting_approval"
               /\ \A c \in Calls : <<q, c>> \in waiters => <<q, c>> \in waiters'
    <3>1. q # r
      BY <1>1, <2>4
    <3>2. run[q].status = "waiting_approval"
      BY <2>4, <3>1, MessageRunRows
    <3>3. SessionOf(q) # s
      BY <1>5, <2>4, <3>1 DEF Executing
    <3>. QED BY <2>1, <2>2, <3>2, <3>3
  <2>. QED BY <2>1, <2>3, <2>4 DEF CalmPromises
<1>9. PromiseInv'
  BY <1>8, CalmKeepsPromises DEF FreshInv
<1>. QED BY <1>6, <1>7, <1>9, MessageKeepsRows DEF FreshInv, TurnIsOwn

-----------------------------------------------------------------------------
LEMMA InitFresh == Init => FreshInv
<1>. SUFFICES ASSUME Init PROVE FreshInv
  OBVIOUS
<1>1. /\ \A t \in Tasks : task[t].status = "absent"
      /\ \A r \in Runs : run[r].status = "absent"
      /\ waiters = {} /\ starting = {} /\ \A s \in Sessions : live[s] = NoRun
  BY DEF Init, NoTaskRow, NoRunRow
<1>2. RowInv
  BY <1>1 DEF RowInv, OpenIsLatest, NewerAbsent, ExecutingIsActive, StartingIsActive,
              QueuedIsOurs, IsOpen, NoRow, Executing
<1>3. TurnIsOwn /\ TurnIsCurrent
  BY <1>1 DEF TurnIsOwn, TurnIsCurrent, Executing
<1>4. PromiseInv
  BY <1>1 DEF PromiseInv, PromiseIsPending, WaitingIsBlocked
<1>. QED BY <1>2, <1>3, <1>4 DEF FreshInv

LEMMA NextFresh ==
  ASSUME Ledger, FreshInv, StaleClicks = FALSE, [Next]_vars
  PROVE  FreshInv'
<1>1. CASE UNCHANGED vars
  <2>1. UNCHANGED <<task, run, appr, waiters>> /\ TurnKeptOrEnded
    BY <1>1 DEF vars, db, memory, adapter, TurnKeptOrEnded
  <2>. QED BY <2>1, SameRowsKeepFresh
<1>2. ASSUME NEW r \in Runs, BeginPreparedRun(r) \/ PreparedRunRejected(r) PROVE FreshInv'
  BY <1>2, BeginPreparedKeepsFresh, RejectionKeepsFresh
<1>3. ASSUME NEW s \in Sessions, NEW contract \in NewContracts, NEW t \in Tasks, NEW r \in Runs,
             BeginMessageRun(s, contract, t, r)
      PROVE  FreshInv'
  BY <1>3, MessageKeepsFresh
<1>4. ASSUME NEW s \in Sessions,
             \/ SetOutputContract(s) \/ GateDenied(s) \/ AuthorizeStale(s)
             \/ StartCompletion(s) \/ StopSession(s) \/ TurnError(s) \/ PromptRejected(s)
             \/ DeleteSession(s)
      PROVE  FreshInv'
  BY <1>4, ContractKeepsFresh, GateKeepsFresh, TurnFailureKeepsFresh, StopKeepsFresh,
     DeleteKeepsFresh
<1>5. ASSUME NEW s \in Sessions, NEW a \in Keys, AuthorizeAuto(s, a) \/ AuthorizeAsk(s, a)
      PROVE  FreshInv'
  BY <1>5, EffectsKeepFresh, AskKeepsFresh
<1>6. ASSUME NEW s \in Sessions, NEW r \in Runs, CancelExternal(s, r) PROVE FreshInv'
  BY <1>6, CancelKeepsFresh
<1>7. ASSUME NEW t \in Tasks, NEW trigger \in {"resume", "retry"}
      PROVE  ~ PrepareRunRejected(t, trigger)
  BY OfferedCanRun
<1>8. ASSUME NEW t \in Tasks, NEW trigger \in {"resume", "retry"}, NEW r \in Runs,
             PrepareRun(t, trigger, r)
      PROVE  FreshInv'
  <2>1. IsLatest(t) /\ task[t].status \notin {"running"} \cup NoRow
    BY <1>8, FreshOffer
  <2>. QED BY <1>8, <2>1, PrepareKeepsFresh
<1>9. ASSUME NEW a \in Keys, Approve(a) \/ DenyInCard(a) \/ DenyInChat(a) PROVE FreshInv'
  BY <1>9, ApproveKeepsFresh, DenialKeepsFresh
<1>10. ASSUME NEW a \in Keys, NEW effect \in {"succeeded", "failed"}, RecordToolResult(a, effect)
       PROVE  FreshInv'
  BY <1>10, EffectsKeepFresh
<1>11. ASSUME NEW c \in collecting, NEW verdict \in Outcomes, NEW delivery \in Deliveries,
              FinishCompletion(c, verdict, delivery)
       PROVE  FreshInv'
  BY <1>11, FinishKeepsFresh
<1>12. ASSUME NEW t \in Tasks, AcceptTask(t) PROVE FreshInv'
  BY <1>12, AcceptKeepsFresh
<1>13. ASSUME NEW first \in [Tasks -> Runs], Restart(first) PROVE FreshInv'
  BY <1>13, RestartKeepsFresh
<1>. QED BY <1>1, <1>2, <1>3, <1>4, <1>5, <1>6, <1>7, <1>8, <1>9, <1>10, <1>11, <1>12, <1>13
        DEF Next

(***************************************************************************)
(* The theorems.                                                           *)
(***************************************************************************)

(* With a fresh task card, the newest task of a session is the only open   *)
(* one, runs under way are the active ones of running tasks and of their   *)
(* turns, and promises pair with the runs that wait, in every state that   *)
(* messages, clicks, answers, stops, failures, crashes and deletions reach.*)
THEOREM FreshInvariant == ASSUME StaleClicks = FALSE PROVE Spec => [](Ledger /\ FreshInv)
<1>1. Init => FreshInv
  BY InitFresh
<1>2. Ledger /\ FreshInv /\ [Next]_vars => FreshInv'
  BY NextFresh
<1>3. TypeInv /\ TaskRunAgreement <=> Ledger /\ BelowCeiling
  BY DEF TypeInv, Ledger
<1>. QED BY <1>1, <1>2, <1>3, TypeInvariant, TasksAgreeWithRuns, PTL DEF Spec

(* A message, a resume or a retry from a fresh card never leaves a session *)
(* with two open tasks (beginRun supersedes, prepareRun reopens the newest).*)
THEOREM SessionsHaveOneOpenTask == ASSUME StaleClicks = FALSE PROVE Spec => []OneOpenTask
<1>1. Ledger /\ FreshInv => OneOpenTask
  <2>. SUFFICES ASSUME Ledger, FreshInv, NEW s \in Sessions
                PROVE  Cardinality(OpenTasks(s, task)) <= 1
    BY DEF OneOpenTask
  <2>1. \A t, u \in OpenTasks(s, task) : t = u
    BY OpenTaskUnique DEF OpenTasks, IsOpen, FreshInv, RowInv
  <2>2. CASE OpenTasks(s, task) = {}
    BY <2>2, FS_EmptySet
  <2>3. CASE OpenTasks(s, task) # {}
    <3>1. PICK t : OpenTasks(s, task) = {t}
      BY <2>1, <2>3
    <3>2. Cardinality({t}) = 1
      BY FS_Singleton
    <3>. QED BY <3>1, <3>2
  <2>. QED BY <2>2, <2>3
<1>. QED BY <1>1, FreshInvariant, PTL

(* No run the ledger has given up executes or waits, and a turn that still *)
(* calls tools does so for the run the task card shows: superseding,       *)
(* failing or deleting ends the run before its turn can act for it.        *)
THEOREM NoRunIsOrphaned == ASSUME StaleClicks = FALSE PROVE Spec => []NoOrphanRun
<1>1. Ledger /\ FreshInv => NoOrphanRun
  <2>. SUFFICES ASSUME Ledger, FreshInv PROVE NoOrphanRun
    OBVIOUS
  <2>1. \A r \in Runs : run[r].status \in Executing =>
          task[run[r].task].active = r /\ task[run[r].task].status = "running"
    BY ExecutingTask DEF FreshInv, RowInv
  <2>. QED BY <2>1 DEF NoOrphanRun, FreshInv, TurnIsCurrent, Executing
<1>. QED BY <1>1, FreshInvariant, PTL

(* Every promise of respondToApproval can still be answered, and no run    *)
(* waits for an answer nobody can give, until a crash ends both.           *)
THEOREM NobodyWaitsInVain == ASSUME StaleClicks = FALSE PROVE Spec => []NobodyStranded
<1>1. Ledger /\ FreshInv => NobodyStranded
  <2>. SUFFICES ASSUME Ledger, FreshInv PROVE NobodyStranded
    OBVIOUS
  <2>1. \A a \in waiters : /\ appr[a].decision = "pending"
                           /\ run[a[1]].status = "waiting_approval"
                           /\ task[run[a[1]].task].active = a[1]
    BY WaitersRun DEF FreshInv, PromiseInv, PromiseIsPending
  <2>. QED BY <2>1 DEF NobodyStranded, FreshInv, PromiseInv, WaitingIsBlocked
<1>. QED BY <1>1, FreshInvariant, PTL

=============================================================================
