---------------------------- MODULE WorkbenchTask ----------------------------
(***************************************************************************)
(* The task ledger of the workbench (src/main/workbenchTask): tasks, their *)
(* runs and the approvals of their tool calls in SQLite, the in-memory     *)
(* resolvers of approvals somebody waits for, the output-contract gate,    *)
(* and the callers that drive it: the Pi runtime adapter (one turn per     *)
(* session), the task IPC handlers (Resume, Retry, Accept), the observer   *)
(* of prepared runs and the coding lanes of external agents.               *)
(*                                                                         *)
(* The main process runs one callback at a time and a repository           *)
(* transaction is synchronous, so an action is one callback, and an await  *)
(* splits a handler into two actions.  A transaction that throws rolls     *)
(* back: it is a step that writes nothing.  The status "verifying" only    *)
(* exists inside the transaction of FinishCompletion.                      *)
(*                                                                         *)
(* A definition marked Mutant is the one after it with a fault; nothing    *)
(* uses it, PROJECT.json names it with the property that rejects it.       *)
(***************************************************************************)
EXTENDS Naturals, FiniteSets

CONSTANTS
  Sessions,          \* session ids
  ExternalSessions,  \* sessions of coding lanes run by an external agent
  MaxTasks,          \* bound on the tasks created
  MaxRuns,           \* bound on the runs created
  NewContracts,      \* contracts of new tasks (createWorkbenchContract by session mode)
  Calls,             \* tool calls (id and input) a run may make
  DenialLimit,       \* MAX_OUTPUT_CONTRACT_DENIALS
  GraceDenials,      \* OUTPUT_CONTRACT_CORRECTION_GRACE_DENIALS
  StaleClicks        \* may Resume/Retry come from an outdated task card?

ASSUME ConstantsAssumption ==
  /\ ExternalSessions \subseteq Sessions
  /\ NewContracts \subseteq {"chat", "uncommitted"}
  /\ MaxTasks \in Nat /\ MaxRuns \in Nat
  /\ DenialLimit \in Nat \ {0} /\ GraceDenials \in Nat \ {0}
  /\ StaleClicks \in BOOLEAN

VARIABLES
  task,        \* workbench_tasks; ids in creation order
  run,         \* workbench_runs
  appr,        \* workbench_approvals by idempotency key <<run, call>>
  promotions,  \* how often onVerifiedRun was called for a run
  waiters,     \* pendingApprovals: keys of the unresolved promises
  gate,        \* outputContractDenials and outputContractCorrectionGraceRuns
  collecting,  \* completeRun calls awaiting the artifact workers
  live,        \* the workbenchRunId of the turn a session is executing
  starting     \* prepared runs whose beginRun has not been called yet

db      == <<task, run, appr, promotions>>
memory  == <<waiters, gate, collecting>>
adapter == <<live, starting>>
vars    == <<db, memory, adapter>>

Tasks == 1..MaxTasks
Runs  == 1..MaxRuns
NoRun == 0
NoTask == 0
NoSession == "no_session"
Keys  == Runs \X Calls

Contracts == {"chat", "uncommitted", "committed"}
Triggers  == {"message", "resume", "retry"}
Outcomes  == {"passed", "acceptance_required", "failed"}
NoRow     == {"absent", "deleted"}

TaskStatuses ==
  {"planned", "running", "paused", "needs_review", "completed", "failed", "cancelled"}
RunStatuses ==
  {"queued", "running", "waiting_approval", "paused", "needs_review",
   "succeeded", "failed", "cancelled"}

\* WorkbenchTerminalTaskStatuses
TerminalTask == {"completed", "failed", "cancelled"}

\* isRunActive
ActiveRun == {"queued", "running", "waiting_approval"}

(* The transition tables of stateMachine.ts. *)
TaskMoves(from) ==
  CASE from = "planned"      -> {"running", "cancelled"}
    [] from = "running"      -> {"paused", "needs_review", "completed", "failed", "cancelled"}
    [] from = "paused"       -> {"running", "cancelled"}
    [] from = "needs_review" -> {"running", "completed", "failed", "cancelled"}
    [] from \in {"completed", "failed"} -> {"running"}
    [] OTHER                 -> {}
RunMoves(from) ==
  CASE from = "queued"           -> {"running", "cancelled", "failed"}
    [] from = "running"          -> {"waiting_approval", "verifying", "paused",
                                     "needs_review", "failed", "cancelled"}
    [] from = "waiting_approval" -> {"running", "paused", "needs_review", "failed", "cancelled"}
    [] from = "verifying"        -> {"succeeded", "needs_review", "failed", "cancelled"}
    [] from = "needs_review"     -> {"succeeded"}
    [] OTHER                     -> {}

(* assertTaskTransition, assertRunTransition: an illegal move throws. *)
CanMoveTask(t, to) == task[t].status = to \/ to \in TaskMoves(task[t].status)
CanMoveRun(r, to)  == run[r].status = to \/ to \in RunMoves(run[r].status)

NoTaskRow == [status |-> "absent", session |-> NoSession, contract |-> "chat", active |-> NoRun]
NoRunRow  == [status |-> "absent", task |-> NoTask, trigger |-> "message", outcome |-> "none"]
NoApproval == [decision |-> "none", effect |-> "not_started"]
FreshGate  == [denials |-> 0, grace |-> FALSE]

TaskRow == [status: TaskStatuses \cup NoRow, session: Sessions \cup {NoSession},
            contract: Contracts, active: Runs \cup {NoRun}]
RunRow  == [status: RunStatuses \cup NoRow, task: Tasks \cup {NoTask},
            trigger: Triggers, outcome: Outcomes \cup {"none"}]
Approval == [decision: {"none", "pending", "approved", "denied", "expired"},
             effect: {"not_started", "executing", "succeeded", "failed", "needs_review"}]
GateRow  == [denials: 0..(DenialLimit + GraceDenials - 1), grace: BOOLEAN]
Completion == [run: Runs, contract: Contracts]

(* Rows exist from creation until the deletion of their session. *)
TaskExists(t) == task[t].status \notin NoRow
RunExists(r)  == run[r].status \notin NoRow
SessionOf(r)  == task[run[r].task].session
RunsOf(s)     == {r \in Runs : RunExists(r) /\ SessionOf(r) = s}

NextTask(t) == task[t].status = "absent" /\ \A u \in Tasks : u < t => task[u].status # "absent"
NextRun(r)  == run[r].status = "absent" /\ \A q \in Runs : q < r => run[q].status # "absent"

(* getActiveTaskForSession: the newest task of s that has not ended. *)
OpenTasks(s, tk) ==
  {t \in Tasks : tk[t].session = s /\ tk[t].status \notin NoRow \cup TerminalTask}
IsActiveTask(s, t, tk) == t \in OpenTasks(s, tk) /\ \A u \in OpenTasks(s, tk) : u <= t

(* The task whose active run pauseRun and failRun of s are about, if any. *)
Target(s, t, tk, rn) ==
  /\ IsActiveTask(s, t, tk)
  /\ tk[t].active # NoRun
  /\ rn[tk[t].active].status \in ActiveRun
TargetRuns(s, tk, rn) == {r \in Runs : \E t \in Tasks : Target(s, t, tk, rn) /\ tk[t].active = r}

(* listPendingApprovalsForSession, the expiry of approvals, forgetRunScopedState. *)
\* Mutant: the approvals of a waiting run are not found.
PendingOfRunning(s, ap) == {a \in Keys : /\ ap[a].decision = "pending"
                                         /\ run[a[1]].status = "running" /\ SessionOf(a[1]) = s}
\* Mutant: an approval granted and under way expires as well.
PendingOrApprovedOf(s, ap) == {a \in Keys : /\ ap[a].decision \in {"pending", "approved"}
                                            /\ RunExists(a[1]) /\ SessionOf(a[1]) = s}
PendingOf(s, ap) == {a \in Keys : /\ ap[a].decision = "pending"
                                  /\ RunExists(a[1]) /\ SessionOf(a[1]) = s}
Expired(ap, K) == [a \in Keys |-> IF a \in K THEN [ap[a] EXCEPT !.decision = "expired"]
                                             ELSE ap[a]]
Forgotten(R) == [r \in Runs |-> IF r \in R THEN FreshGate ELSE gate[r]]

Moved(f, x, status) == [f EXCEPT ![x] = [@ EXCEPT !.status = status]]
MovedTask(t, status, active) ==
  [task EXCEPT ![t] = [@ EXCEPT !.status = status, !.active = active]]
Decided(a, decision, effect) ==
  [appr EXCEPT ![a] = [decision |-> decision, effect |-> effect]]

(* A tool call of r is waiting for the user: Pi asks for one call at a time. *)
Blocked(r) == \E c \in Calls : <<r, c>> \in waiters

(* What the turn of s may still do with its run. *)
IsRunning(r) == run[r].status = "running" /\ task[run[r].task].active = r

(***************************************************************************)
(* pauseRun and failRun, shared by many callers.  A pause that throws      *)
(* writes nothing and every caller survives it.  The pause is stated over  *)
(* the rows it finds, because a denial writes rows before it.              *)
(***************************************************************************)
PauseThrows(s, tk, rn) ==
  \E t \in Tasks : /\ Target(s, t, tk, rn)
                   /\ \/ "paused" \notin RunMoves(rn[tk[t].active].status)
                      \/ tk[t].status # "paused" /\ "paused" \notin TaskMoves(tk[t].status)

Pause(s, tk, rn, ap, ws) ==
  IF PauseThrows(s, tk, rn)
    THEN task' = tk /\ run' = rn /\ appr' = ap /\ waiters' = ws /\ gate' = gate
    ELSE /\ task' = [t \in Tasks |-> IF Target(s, t, tk, rn)
                                       THEN [tk[t] EXCEPT !.status = "paused"] ELSE tk[t]]
         /\ run' = [r \in Runs |-> IF r \in TargetRuns(s, tk, rn)
                                     THEN [rn[r] EXCEPT !.status = "paused"] ELSE rn[r]]
         /\ appr' = Expired(ap, PendingOf(s, ap))
         /\ waiters' = ws \ PendingOf(s, ap)
         /\ gate' = Forgotten(TargetRuns(s, tk, rn))
PauseRun(s) == Pause(s, task, run, appr, waiters)

(* stopActiveSession ends the turn and aborts the initialization under way *)
(* (a dispatch that has not reached it goes on); pauseRun comes after.     *)
AbortTurn(s) ==
  /\ live' = [live EXCEPT ![s] = NoRun]
  /\ \E aborted \in {{}} \cup {{r} : r \in starting \cap RunsOf(s)} :
       starting' = starting \ aborted

(* failRun leaves the approvals of the run and their promises alone. *)
FailRun(s) ==
  /\ task' = [t \in Tasks |-> IF Target(s, t, task, run)
                                THEN [task[t] EXCEPT !.status = "failed", !.active = NoRun]
                                ELSE task[t]]
  /\ run' = [r \in Runs |-> IF r \in TargetRuns(s, task, run)
                              THEN [run[r] EXCEPT !.status = "failed"] ELSE run[r]]
  /\ gate' = Forgotten(TargetRuns(s, task, run))
  /\ UNCHANGED <<appr, waiters>>

-----------------------------------------------------------------------------
Init ==
  /\ task = [t \in Tasks |-> NoTaskRow]
  /\ run = [r \in Runs |-> NoRunRow]
  /\ appr = [a \in Keys |-> NoApproval]
  /\ promotions = [r \in Runs |-> 0]
  /\ waiters = {}
  /\ gate = [r \in Runs |-> FreshGate]
  /\ collecting = {}
  /\ live = [s \in Sessions |-> NoRun]
  /\ starting = {}

(***************************************************************************)
(* Starting a run.                                                         *)
(***************************************************************************)

\* Mutant: a task that waits for a review is not superseded.
SupersededWhileRunning(s) == {u \in Tasks : IsActiveTask(s, u, task) /\ task[u].status = "running"}
Superseded(s) == {u \in Tasks : IsActiveTask(s, u, task)}
\* Mutant: a run that waits for an approval is not cancelled.
SupersededRunsRunning(s) ==
  {q \in Runs : run[q].status = "running" /\ \E u \in Superseded(s) : task[u].active = q}
SupersededRuns(s) ==
  {q \in Runs : run[q].status \in ActiveRun /\ \E u \in Superseded(s) : task[u].active = q}

(* beginRun for a user message (or the prompt of an external lane): the    *)
(* open task of the session is superseded.                                 *)
BeginMessageRun(s, contract, t, r) ==
  /\ s \in ExternalSessions => contract = "uncommitted"
  /\ NextTask(t) /\ NextRun(r)
  /\ task' = [u \in Tasks |->
       IF u = t THEN [status |-> "running", session |-> s,
                      contract |-> contract, active |-> r]
       ELSE IF u \in Superseded(s)
              THEN [task[u] EXCEPT !.status = "cancelled", !.active = NoRun]
              ELSE task[u]]
  /\ run' = [q \in Runs |->
       IF q = r THEN [status |-> "running", task |-> t,
                      trigger |-> "message", outcome |-> "none"]
       ELSE IF q \in SupersededRuns(s) THEN [run[q] EXCEPT !.status = "cancelled"]
                                       ELSE run[q]]
  /\ LET expired == IF Superseded(s) = {} THEN {} ELSE PendingOf(s, appr)
     IN appr' = Expired(appr, expired) /\ waiters' = waiters \ expired
  /\ live' = [live EXCEPT ![s] = r]
  /\ UNCHANGED <<promotions, gate, collecting, starting>>

(* What the task card offers; a stale card may offer it for any task. *)
IsLatest(t) ==
  TaskExists(t) /\ \A u \in Tasks : TaskExists(u) /\ task[u].session = task[t].session => u <= t
Offered(t, trigger) ==
  \/ StaleClicks
  \/ /\ IsLatest(t)
     /\ task[t].status \in IF trigger = "resume" THEN {"paused"}
                                                 ELSE {"needs_review", "failed", "completed"}

(* The Resume or Retry IPC: prepareRun, and the dispatch handed to         *)
(* observePreparedRun.  The approvals it expires keep their promises.      *)
PrepareRun(t, trigger, r) ==
  /\ TaskExists(t) /\ task[t].session \notin ExternalSessions
  /\ Offered(t, trigger) /\ CanMoveTask(t, "running")
  /\ NextRun(r)
  /\ run' = [run EXCEPT ![r] = [status |-> "queued", task |-> t,
                                trigger |-> trigger, outcome |-> "none"]]
  /\ task' = MovedTask(t, "running", r)
  /\ starting' = starting \cup {r}
  /\ appr' = Expired(appr, {a \in PendingOf(task[t].session, appr) : a[1] = task[t].active})
  /\ UNCHANGED <<promotions, memory, live>>

(* The same IPC on a task that cannot run: its catch pauses or fails the   *)
(* active run of the session, whichever task that belongs to.              *)
PrepareRunRejected(t, trigger) ==
  /\ TaskExists(t) /\ task[t].session \notin ExternalSessions
  /\ Offered(t, trigger) /\ ~CanMoveTask(t, "running")
  /\ IF trigger = "resume" THEN PauseRun(task[t].session) ELSE FailRun(task[t].session)
  /\ UNCHANGED <<promotions, collecting, adapter>>

(* beginRun with a prepared run. *)
BeginPreparedRun(r) ==
  /\ r \in starting
  /\ CanMoveTask(run[r].task, "running") /\ CanMoveRun(r, "running")
  /\ task' = MovedTask(run[r].task, "running", r)
  /\ run' = Moved(run, r, "running")
  /\ live' = [live EXCEPT ![SessionOf(r)] = r]
  /\ starting' = starting \ {r}
  /\ UNCHANGED <<appr, promotions, memory>>

(* The dispatch of a prepared run rejects.  startSession fails the run     *)
(* itself; otherwise only observePreparedRun sees the rejection.           *)
CaughtByStartSession(r) == FailRun(SessionOf(r))
CaughtByObserver(r) ==
  IF run[r].trigger = "resume" THEN PauseRun(SessionOf(r)) ELSE FailRun(SessionOf(r))
PreparedRunRejected(r) ==
  /\ run[r].trigger # "message" /\ ~Blocked(r)
  /\ r \in starting \/ live[SessionOf(r)] = r
  /\ IF IsActiveTask(SessionOf(r), run[r].task, task) /\ task[run[r].task].active = r
       THEN CaughtByStartSession(r) \/ CaughtByObserver(r)
       ELSE UNCHANGED <<task, run, appr, waiters, gate>>
  /\ starting' = starting \ {r}
  /\ live' = [live EXCEPT ![SessionOf(r)] = IF @ = r THEN NoRun ELSE @]
  /\ UNCHANGED <<promotions, collecting>>

-----------------------------------------------------------------------------
(***************************************************************************)
(* Tool calls of the turn of a Pi session: authorizeToolCall.  Read-only   *)
(* calls and repeated calls (one approval row per idempotency key) change  *)
(* nothing and have no action.                                             *)
(***************************************************************************)
InTurn(s, r) == s \notin ExternalSessions /\ r # NoRun /\ live[s] = r /\ ~Blocked(r)

(* set_task_output: setWorkbenchOutputRequirements. *)
SetOutputContract(s) ==
  /\ InTurn(s, live[s]) /\ IsRunning(live[s])
  /\ task[run[live[s]].task].contract = "uncommitted"
  /\ task' = [task EXCEPT ![run[live[s]].task] = [@ EXCEPT !.contract = "committed"]]
  /\ UNCHANGED <<run, appr, promotions, memory, adapter>>

(* A tool call before the output contract is committed.  The first time at *)
(* the ceiling earns a steer and a grace, the second ends the run.         *)
\* Mutant: one denial more than the limit.
CeilingExclusive(g) == 1 + IF g.grace THEN DenialLimit + GraceDenials ELSE DenialLimit
Ceiling(g) == IF g.grace THEN DenialLimit + GraceDenials ELSE DenialLimit
GateDenied(s) ==
  LET r == live[s]
      denials == gate[r].denials + 1
      full == denials >= Ceiling(gate[r])
  IN /\ InTurn(s, r) /\ IsRunning(r)
     /\ task[run[r].task].contract = "uncommitted"
     /\ IF full /\ gate[r].grace
          THEN FailRun(s) /\ live' = [live EXCEPT ![s] = NoRun]
          ELSE /\ gate' = [gate EXCEPT ![r] = [denials |-> denials, grace |-> full \/ @.grace]]
               /\ UNCHANGED <<task, run, appr, waiters, live>>
     /\ UNCHANGED <<promotions, collecting, starting>>

MayAuthorize(s, a) ==
  /\ InTurn(s, live[s]) /\ IsRunning(live[s])
  /\ task[run[live[s]].task].contract # "uncommitted"
  /\ a[1] = live[s] /\ appr[a].decision = "none"

(* The approval mode lets the call through. *)
AuthorizeAuto(s, a) ==
  /\ MayAuthorize(s, a)
  /\ appr' = Decided(a, "approved", "executing")
  /\ UNCHANGED <<task, run, promotions, memory, adapter>>

(* The call waits for the user. *)
AuthorizeAsk(s, a) ==
  /\ MayAuthorize(s, a)
  /\ appr' = Decided(a, "pending", "not_started")
  /\ run' = Moved(run, a[1], "waiting_approval")
  /\ waiters' = waiters \cup {a}
  /\ UNCHANGED <<task, promotions, gate, collecting, adapter>>

(* terminateRun: the run of the turn is over.  The adapter ends the turn   *)
(* and fails the active run of the session.                                *)
AuthorizeStale(s) ==
  /\ InTurn(s, live[s]) /\ ~IsRunning(live[s])
  /\ FailRun(s)
  /\ live' = [live EXCEPT ![s] = NoRun]
  /\ UNCHANGED <<promotions, collecting, starting>>

(***************************************************************************)
(* respondToApproval: only a promise somebody still waits for is answered. *)
(***************************************************************************)
\* Mutant: an approval that expired can still be answered.
AnswerableWhileAwaited(a) == a \in waiters
Answerable(a) == appr[a].decision = "pending" /\ a \in waiters

Approve(a) ==
  /\ Answerable(a) /\ CanMoveRun(a[1], "running")
  /\ appr' = Decided(a, "approved", "executing")
  /\ run' = Moved(run, a[1], "running")
  /\ waiters' = waiters \ {a}
  /\ UNCHANGED <<task, promotions, gate, collecting, adapter>>

(* Denied in the task card: the turn goes on with a paused run. *)
MayDeny(a) ==
  /\ Answerable(a)
  /\ CanMoveRun(a[1], "paused") /\ CanMoveTask(run[a[1]].task, "paused")
DenyInCard(a) ==
  /\ MayDeny(a)
  /\ appr' = Decided(a, "denied", "not_started")
  /\ run' = Moved(run, a[1], "paused")
  /\ task' = MovedTask(run[a[1]].task, "paused", a[1])
  /\ waiters' = waiters \ {a}
  /\ UNCHANGED <<promotions, gate, collecting, adapter>>

(* Denied in the chat: respondToPermission stops the turn as well. *)
DenyInChat(a) ==
  /\ MayDeny(a)
  /\ live[SessionOf(a[1])] # NoRun
  /\ Pause(SessionOf(a[1]), MovedTask(run[a[1]].task, "paused", a[1]),
           Moved(run, a[1], "paused"), Decided(a, "denied", "not_started"), waiters \ {a})
  /\ AbortTurn(SessionOf(a[1]))
  /\ UNCHANGED <<promotions, collecting>>

(* tool_execution_end: recordToolResult. *)
RecordToolResult(a, effect) ==
  /\ appr[a].effect = "executing"
  /\ \E s \in Sessions : InTurn(s, a[1])
  /\ appr' = [appr EXCEPT ![a] = [@ EXCEPT !.effect = effect]]
  /\ UNCHANGED <<task, run, promotions, memory, adapter>>

-----------------------------------------------------------------------------
(***************************************************************************)
(* Ending a run.                                                           *)
(***************************************************************************)

(* handleTurnSettled and runTurn of a lane: completeRun reads the run and  *)
(* the contract, then awaits the artifact workers.                         *)
StartCompletion(s) ==
  LET r == live[s]
  IN /\ r # NoRun /\ ~Blocked(r) /\ run[r].status = "running"
     /\ \A c \in Calls : appr[<<r, c>>].effect # "executing"
     /\ collecting' = collecting \cup {[run |-> r, contract |-> task[run[r].task].contract]}
     /\ live' = [live EXCEPT ![s] = NoRun]
     /\ UNCHANGED <<db, waiters, gate, starting>>

(* verifyWorkbenchRun by contract, then applyWorkbenchDeliveryGate by what *)
(* the artifacts of the run amount to.                                     *)
Verdicts(contract) == IF contract = "chat" THEN {"passed", "failed"} ELSE Outcomes
Deliveries == {"ready", "pending", "missing"}
DeliveryGate(verdict, contract, delivery) ==
  CASE verdict = "failed" \/ contract = "uncommitted" \/ delivery = "missing" -> "failed"
    [] verdict = "passed" /\ contract # "uncommitted" /\ delivery = "pending"
         -> "acceptance_required"
    [] OTHER -> verdict

(* The run is re-checked after the await: *)
\* Mutant: the active run of the task is not compared.
StillActiveByStatus(r) == run[r].status = "running"
StillActive(r) == IsRunning(r)
\* Mutant: a run succeeds before the user accepts it.
ConcludedUnlessFailed(r, outcome) ==
  [run EXCEPT ![r] = [@ EXCEPT !.outcome = outcome,
     !.status = IF outcome # "failed" THEN "succeeded" ELSE "needs_review"]]
Concluded(r, outcome) ==
  [run EXCEPT ![r] = [@ EXCEPT !.outcome = outcome,
     !.status = IF outcome = "passed" THEN "succeeded" ELSE "needs_review"]]
FinishCompletion(c, verdict, delivery) ==
  LET r == c.run
      t == run[r].task
      outcome == DeliveryGate(verdict, c.contract, delivery)
  IN /\ c \in collecting /\ verdict \in Verdicts(c.contract)
     /\ collecting' = collecting \ {c}
     /\ IF StillActive(r)
          THEN /\ run' = Concluded(r, outcome)
               /\ task' = IF outcome = "passed" THEN MovedTask(t, "completed", NoRun)
                                                ELSE MovedTask(t, "needs_review", r)
               /\ promotions' = IF outcome = "passed" THEN [promotions EXCEPT ![r] = @ + 1]
                                                      ELSE promotions
               /\ gate' = Forgotten({r})
          ELSE UNCHANGED <<task, run, promotions, gate>>
     /\ UNCHANGED <<appr, waiters, adapter>>

(* acceptTask. *)
AcceptTask(t) ==
  LET r == task[t].active
  IN /\ task[t].status = "needs_review" /\ r # NoRun
     /\ run[r].outcome = "acceptance_required" /\ task[t].contract # "uncommitted"
     /\ CanMoveRun(r, "succeeded")
     /\ run' = Concluded(r, "passed")
     /\ task' = MovedTask(t, "completed", NoRun)
     /\ promotions' = [promotions EXCEPT ![r] = @ + 1]
     /\ UNCHANGED <<appr, memory, adapter>>

(* stopSession, the stop before a session is replaced or recreated, and    *)
(* the stop of a turn that settles with a run that is over.                *)
StopSession(s) ==
  /\ s \notin ExternalSessions
  /\ PauseRun(s) /\ AbortTurn(s)
  /\ UNCHANGED <<promotions, collecting>>

(* flushPendingError, failExternalWorkbenchRun: the turn failed. *)
TurnError(s) ==
  /\ live[s] # NoRun /\ ~Blocked(live[s])
  /\ FailRun(s)
  /\ live' = [live EXCEPT ![s] = NoRun]
  /\ UNCHANGED <<promotions, collecting, starting>>

(* continueSession of a user message: the prompt is rejected, and nothing  *)
(* ends the run.                                                           *)
PromptRejected(s) ==
  /\ InTurn(s, live[s]) /\ run[live[s]].trigger = "message"
  /\ live' = [live EXCEPT ![s] = NoRun]
  /\ UNCHANGED <<db, memory, starting>>

(* cancelTurn of an external lane: cancelRun of the lane's latest run. *)
CancelExternal(s, r) ==
  /\ s \in ExternalSessions /\ r \in RunsOf(s) /\ \A q \in RunsOf(s) : q <= r
  /\ run[r].status \in ActiveRun
  /\ run' = Moved(run, r, "cancelled")
  /\ task' = MovedTask(run[r].task, "cancelled", NoRun)
  /\ gate' = Forgotten({r})
  /\ live' = [live EXCEPT ![s] = NoRun]
  /\ UNCHANGED <<appr, promotions, waiters, collecting, starting>>

(* onSessionDeleted: stops, then deletes the rows.  A pause that throws    *)
(* leaves the session as StopSession leaves it.                            *)
DeleteSession(s) ==
  /\ ~PauseThrows(s, task, run)
  /\ RunsOf(s) # {}
  /\ task' = [t \in Tasks |-> IF TaskExists(t) /\ task[t].session = s
                                THEN [NoTaskRow EXCEPT !.status = "deleted"] ELSE task[t]]
  /\ run' = [r \in Runs |-> IF r \in RunsOf(s)
                              THEN [NoRunRow EXCEPT !.status = "deleted"] ELSE run[r]]
  /\ appr' = [a \in Keys |-> IF a[1] \in RunsOf(s) THEN NoApproval ELSE appr[a]]
  /\ promotions' = [r \in Runs |-> IF r \in RunsOf(s) THEN 0 ELSE promotions[r]]
  /\ waiters' = waiters \ PendingOf(s, appr)
  /\ gate' = Forgotten(TargetRuns(s, task, run))
  /\ live' = [live EXCEPT ![s] = NoRun]
  /\ starting' = starting \ RunsOf(s)
  /\ UNCHANGED collecting

-----------------------------------------------------------------------------
(***************************************************************************)
(* The process dies and starts again: recoverInterruptedState, before the  *)
(* IPC handlers are registered.  The channels are up by then; that a turn  *)
(* begins before the recovery is left out.  Queued runs are not            *)
(* recoverable.  A task takes its status from the first of its runs in the *)
(* order of updated_at, which the choice of first leaves open.             *)
(***************************************************************************)
Recoverable(t) == {r \in Runs : run[r].task = t /\ run[r].status \in {"running", "waiting_approval"}}
Uncertain(t)   == {r \in Runs : /\ RunExists(r) /\ run[r].task = t
                                /\ \E c \in Calls : appr[<<r, c>>].effect = "executing"}
RecoveryChoices(t) == IF Recoverable(t) # {} THEN Recoverable(t) ELSE Uncertain(t)
\* Mutant: a task with an interrupted effect is only paused.
RecoveredTaskPaused(t, r) == [task[t] EXCEPT !.active = r, !.status = "paused"]
RecoveredTask(t, r) ==
  [task[t] EXCEPT !.active = r,
     !.status = IF run[r].status = "waiting_approval" THEN "paused" ELSE "needs_review"]
Restart(first) ==
  /\ \A t \in Tasks : IF RecoveryChoices(t) # {} THEN first[t] \in RecoveryChoices(t)
                                                 ELSE \A r \in Runs : first[t] <= r
  /\ task' = [t \in Tasks |->
       IF task[t].status = "running" /\ RecoveryChoices(t) # {}
         THEN RecoveredTask(t, first[t]) ELSE task[t]]
  /\ run' = [r \in Runs |->
       CASE run[r].status = "waiting_approval" -> [run[r] EXCEPT !.status = "paused"]
         [] run[r].status = "running"          -> [run[r] EXCEPT !.status = "needs_review"]
         [] OTHER                              -> run[r]]
  /\ appr' = [a \in Keys |-> IF appr[a].effect = "executing"
                               THEN [appr[a] EXCEPT !.effect = "needs_review"] ELSE appr[a]]
  /\ waiters' = {} /\ collecting' = {}
  /\ gate' = [r \in Runs |-> FreshGate]
  /\ live' = [s \in Sessions |-> NoRun]
  /\ starting' = {}
  /\ UNCHANGED promotions

-----------------------------------------------------------------------------
Next ==
  \/ \E r \in Runs : BeginPreparedRun(r) \/ PreparedRunRejected(r)
  \/ \E s \in Sessions :
       \/ \E contract \in NewContracts, t \in Tasks, r \in Runs :
            BeginMessageRun(s, contract, t, r)
       \/ SetOutputContract(s) \/ GateDenied(s) \/ AuthorizeStale(s)
       \/ StartCompletion(s) \/ StopSession(s) \/ TurnError(s) \/ PromptRejected(s)
       \/ DeleteSession(s)
       \/ \E a \in Keys : AuthorizeAuto(s, a) \/ AuthorizeAsk(s, a)
       \/ \E r \in Runs : CancelExternal(s, r)
  \/ \E t \in Tasks, trigger \in {"resume", "retry"} :
       PrepareRunRejected(t, trigger) \/ \E r \in Runs : PrepareRun(t, trigger, r)
  \/ \E a \in Keys : Approve(a) \/ DenyInCard(a) \/ DenyInChat(a)
  \/ \E a \in Keys, effect \in {"succeeded", "failed"} : RecordToolResult(a, effect)
  \/ \E c \in collecting, verdict \in Outcomes, delivery \in Deliveries :
       FinishCompletion(c, verdict, delivery)
  \/ \E t \in Tasks : AcceptTask(t)
  \/ \E first \in [Tasks -> Runs] : Restart(first)

Spec == Init /\ [][Next]_vars

-----------------------------------------------------------------------------
(***************************************************************************)
(* Properties.                                                             *)
(***************************************************************************)

(* Every row is well formed, and a run is denied tool calls for want of an *)
(* output contract less often than the ceiling and its grace together      *)
(* allow: the run ends before the next denial (authorizeToolCall).         *)
TypeOK ==
  /\ task \in [Tasks -> TaskRow]
  /\ run \in [Runs -> RunRow]
  /\ appr \in [Keys -> Approval]
  /\ promotions \in [Runs -> Nat]
  /\ waiters \subseteq Keys
  /\ gate \in [Runs -> GateRow]
  /\ collecting \subseteq Completion
  /\ live \in [Sessions -> Runs \cup {NoRun}]
  /\ starting \subseteq Runs

(* A task and its active run never disagree, whatever is clicked, stopped, *)
(* failed, completed late or recovered after a crash: a running task has   *)
(* an active run under way, a paused task a paused one, an ended task      *)
(* none, and a run under way that is active belongs to a running task.     *)
Agreement(tk, rn) ==
  \A t \in Tasks : tk[t].status \notin NoRow =>
    LET r == tk[t].active
    IN /\ r # NoRun => rn[r].task = t /\ rn[r].status \notin NoRow
       /\ tk[t].status = "running" => r # NoRun /\ rn[r].status \in ActiveRun
       /\ tk[t].status = "paused" => r # NoRun /\ rn[r].status = "paused"
       /\ tk[t].status \in TerminalTask => r = NoRun
       /\ r # NoRun /\ rn[r].status \in ActiveRun => tk[t].status = "running"
TaskRunAgreement == Agreement(task, run)

(* A verified run is handed to the memory promotion exactly once, whether  *)
(* it passed by itself or was accepted, a run that did not pass never is,  *)
(* and a task is completed only by a run that passed.                      *)
PromotedOnce ==
  /\ \A r \in Runs : /\ promotions[r] \in {0, 1}
                     /\ promotions[r] = 1 <=> run[r].status = "succeeded"
                     /\ run[r].status = "succeeded" => run[r].outcome = "passed"
  /\ \A t \in Tasks : task[t].status = "completed" =>
       \E r \in Runs : run[r].task = t /\ run[r].status = "succeeded"

(* No side effect without consent, and none twice: an effect that started  *)
(* was approved, and whatever the user answers late, the turn reports late *)
(* or a restart recovers, a decision is final and an effect that left      *)
(* "executing" never returns to it (authorizeToolCall, respondToApproval,  *)
(* recordToolResult, recoverInterruptedState).                             *)
EffectAtMostOnce ==
  [][\A a \in Keys : RunExists(a[1])' =>
       /\ appr[a].decision \in {"approved", "denied", "expired"} =>
            appr'[a].decision = appr[a].decision
       /\ appr'[a].effect # "not_started" => appr'[a].decision = "approved"
       /\ appr[a].effect \in {"succeeded", "failed", "needs_review"} =>
            appr'[a].effect = appr[a].effect]_vars

(* How far a call has come: nothing is left of the calls of a deleted run. *)
Stage(a) ==
  IF run[a[1]].status = "deleted" THEN "gone"
  ELSE CASE appr[a].decision = "none"                  -> "unasked"
         [] appr[a].decision = "pending"               -> "asked"
         [] appr[a].decision \in {"denied", "expired"} -> "refused"
         [] OTHER                                      -> appr[a].effect

Consenting == INSTANCE ToolConsent WITH
  stage <- [a \in Keys |-> Stage(a)],
  awaited <- waiters

(* The calls live as the abstract specification of consent lets them:      *)
(* whatever is clicked late, stopped, superseded, deleted or recovered, an *)
(* effect begins only by the approval mode or by an answer somebody waits  *)
(* for, a refused or deleted call never begins, and a restart leaves       *)
(* every effect under way uncertain (authorizeToolCall, respondToApproval, *)
(* recordToolResult, recoverInterruptedState, deleteSession).              *)
ImplementsConsent == Consenting!ConsentSpec

(* A task superseded by a new message stays cancelled and silent: no late  *)
(* completion, click, dispatch or recovery revives it, and none of its     *)
(* runs is promoted afterwards.                                            *)
CancelledIsSilent ==
  [][\A t \in Tasks : (task[t].status = "cancelled" /\ TaskExists(t)') =>
       /\ task'[t] = task[t]
       /\ \A r \in Runs : run[r].task = t => promotions'[r] = promotions[r]]_vars

(* The inductive invariant of the proofs: also, an effect that started was *)
(* approved, a run that has not begun has no approvals, the denials of a   *)
(* run stay below the ceiling its grace leaves, and every run has a task.  *)
Consent ==
  \A a \in Keys :
    /\ appr[a].effect # "not_started" => appr[a].decision = "approved"
    /\ run[a[1]].status \in {"absent", "queued"} => appr[a] = NoApproval
BelowCeiling ==
  \A r \in Runs : gate[r].denials < IF gate[r].grace THEN DenialLimit + GraceDenials
                                                     ELSE DenialLimit
Owned == \A r \in Runs : RunExists(r) => run[r].task \in Tasks /\ TaskExists(run[r].task)
Inductive ==
  TypeOK /\ TaskRunAgreement /\ PromotedOnce /\ Consent /\ BelowCeiling /\ Owned

(***************************************************************************)
(* What holds when the task card is never outdated (StaleClicks = FALSE).  *)
(***************************************************************************)

(* A session has at most one open task: what stop, fail and approve act on *)
(* is what the user sees.                                                  *)
OneOpenTask == \A s \in Sessions : Cardinality(OpenTasks(s, task)) <= 1

(* A run that executes or waits is the active run of its task, and only    *)
(* such a run can be the run of a turn that still calls tools: no tool     *)
(* effect of an attempt that the ledger has given up.                      *)
NoOrphanRun ==
  /\ \A r \in Runs : run[r].status \in {"running", "waiting_approval"} =>
       task[run[r].task].active = r /\ task[run[r].task].status = "running"
  /\ \A s \in Sessions, r \in Runs :
       run[r].status \in {"running", "waiting_approval"} /\ SessionOf(r) = s
         => live[s] \in {r, NoRun}

(* Nobody waits in vain: an unresolved promise has a pending approval the  *)
(* user can still answer, its run waits for it, and a waiting run has its  *)
(* promise.                                                                *)
NobodyStranded ==
  /\ \A a \in waiters : /\ appr[a].decision = "pending"
                        /\ run[a[1]].status = "waiting_approval"
                        /\ task[run[a[1]].task].active = a[1]
  /\ \A r \in Runs : run[r].status = "waiting_approval" => Blocked(r)

(***************************************************************************)
(* What the tests and comments of the code say of it, and it does not do.  *)
(***************************************************************************)

(* ipc.test.ts: "resume startup failure returns the same task to paused    *)
(* instead of failing it", preparedRunFailure.test.ts: "a resume           *)
(* initialization rejection pauses the attempt".                           *)
ResumeFailurePauses ==
  [][\A r \in Runs :
       (/\ PreparedRunRejected(r) /\ run[r].trigger = "resume"
        /\ IsActiveTask(SessionOf(r), run[r].task, task)
        /\ task[run[r].task].active = r
        /\ run[r].status = "queued" /\ CaughtByObserver(r))
       => task'[run[r].task].status = "paused"]_vars

(* preparedRunFailure.ts: "A stopped or superseded attempt must never fail *)
(* its replacement."                                                       *)
FailureIsContained ==
  [][\A t \in Tasks : PrepareRunRejected(t, "retry")
       => \A u \in Tasks \ {t} : task'[u].status = "failed" => task[u].status = "failed"]_vars
=============================================================================
