------------------------- MODULE WorkbenchTaskProofs -------------------------
(***************************************************************************)
(* Proofs about WorkbenchTask, for every value of its constants.           *)
(***************************************************************************)
EXTENDS WorkbenchTask, TLAPS

(* A run that starts, or whose counters are forgotten, is below the ceiling. *)
LEMMA FreshGateType == FreshGate \in GateRow
BY ConstantsAssumption DEF ConstantsAssumption, FreshGate, GateRow

(* pauseRun keeps the rows well formed. *)
LEMMA PauseType ==
  ASSUME NEW s, NEW tk \in [Tasks -> TaskRow], NEW rn \in [Runs -> RunRow],
         NEW ap \in [Keys -> Approval], NEW ws \in SUBSET Keys, TypeOK,
         Pause(s, tk, rn, ap, ws)
  PROVE  /\ task' \in [Tasks -> TaskRow] /\ run' \in [Runs -> RunRow]
         /\ appr' \in [Keys -> Approval] /\ waiters' \subseteq Keys
         /\ gate' \in [Runs -> GateRow]
<1>1. CASE PauseThrows(s, tk, rn)
  BY <1>1 DEF Pause, TypeOK
<1>2. CASE ~PauseThrows(s, tk, rn)
  <2>1. task' \in [Tasks -> TaskRow]
    BY <1>2 DEF Pause, TaskRow, TaskStatuses
  <2>2. run' \in [Runs -> RunRow]
    BY <1>2 DEF Pause, RunRow, RunStatuses
  <2>3. appr' \in [Keys -> Approval]
    BY <1>2 DEF Pause, Expired, Approval
  <2>4. waiters' \subseteq Keys
    BY <1>2 DEF Pause
  <2>5. gate' \in [Runs -> GateRow]
    BY <1>2, FreshGateType DEF Pause, Forgotten, TypeOK
  <2>. QED BY <2>1, <2>2, <2>3, <2>4, <2>5
<1>. QED BY <1>1, <1>2

(* failRun keeps the rows well formed. *)
LEMMA FailType ==
  ASSUME NEW s, TypeOK, FailRun(s)
  PROVE  /\ task' \in [Tasks -> TaskRow] /\ run' \in [Runs -> RunRow]
         /\ appr' \in [Keys -> Approval] /\ waiters' \subseteq Keys
         /\ gate' \in [Runs -> GateRow]
<1>1. task' \in [Tasks -> TaskRow]
  BY DEF FailRun, TaskRow, TaskStatuses, TypeOK
<1>2. run' \in [Runs -> RunRow]
  BY DEF FailRun, RunRow, RunStatuses, TypeOK
<1>3. appr' \in [Keys -> Approval] /\ waiters' \subseteq Keys
  BY DEF FailRun, TypeOK
<1>4. gate' \in [Runs -> GateRow]
  BY FreshGateType DEF FailRun, Forgotten, TypeOK
<1>. QED BY <1>1, <1>2, <1>3, <1>4

-----------------------------------------------------------------------------
(* Type correctness. *)
LEMMA InitType == Init => TypeOK
BY FreshGateType, ConstantsAssumption
   DEF Init, TypeOK, NoTaskRow, TaskRow, NoRunRow, RunRow, NoApproval, Approval,
       Contracts, Triggers, NoRow

LEMMA StartType ==
  ASSUME TypeOK
  PROVE  /\ \A s \in Sessions, contract \in NewContracts, t \in Tasks, r \in Runs :
              BeginMessageRun(s, contract, t, r) => TypeOK'
         /\ \A t \in Tasks, trigger \in {"resume", "retry"} :
              /\ PrepareRunRejected(t, trigger) => TypeOK'
              /\ \A r \in Runs : PrepareRun(t, trigger, r) => TypeOK'
         /\ \A r \in Runs : /\ BeginPreparedRun(r) => TypeOK'
                            /\ PreparedRunRejected(r) => TypeOK'
<1>1. ASSUME NEW s \in Sessions, NEW contract \in NewContracts, NEW t \in Tasks,
             NEW r \in Runs, BeginMessageRun(s, contract, t, r)
      PROVE  TypeOK'
  <2>0. contract \in Contracts
    BY ConstantsAssumption DEF ConstantsAssumption, Contracts
  <2>1. task' \in [Tasks -> TaskRow]
    BY <1>1, <2>0 DEF BeginMessageRun, TypeOK, TaskRow, TaskStatuses
  <2>2. run' \in [Runs -> RunRow]
    BY <1>1 DEF BeginMessageRun, TypeOK, RunRow, RunStatuses, Triggers
  <2>3. appr' \in [Keys -> Approval] /\ waiters' \subseteq Keys
    BY <1>1 DEF BeginMessageRun, TypeOK, Approval, Expired
  <2>4. live' \in [Sessions -> Runs \cup {NoRun}]
    BY <1>1 DEF BeginMessageRun, TypeOK
  <2>. QED BY <1>1, <2>1, <2>2, <2>3, <2>4 DEF TypeOK, BeginMessageRun
<1>2. ASSUME NEW t \in Tasks, NEW r \in Runs, NEW trigger \in {"resume", "retry"}, PrepareRun(t, trigger, r)
      PROVE  TypeOK'
  <2>1. task' \in [Tasks -> TaskRow]
    BY <1>2 DEF PrepareRun, TypeOK, MovedTask, TaskRow, TaskStatuses
  <2>2. run' \in [Runs -> RunRow]
    BY <1>2 DEF PrepareRun, TypeOK, RunRow, RunStatuses, Triggers
  <2>3. appr' \in [Keys -> Approval]
    BY <1>2 DEF PrepareRun, TypeOK, Approval, Expired
  <2>. QED BY <1>2, <2>1, <2>2, <2>3 DEF TypeOK, PrepareRun, memory
<1>3. ASSUME NEW t \in Tasks, NEW trigger \in {"resume", "retry"}, PrepareRunRejected(t, trigger)
      PROVE  TypeOK'
  <2>1. PauseRun(task[t].session) \/ FailRun(task[t].session)
    BY <1>3 DEF PrepareRunRejected
  <2>2. /\ task' \in [Tasks -> TaskRow] /\ run' \in [Runs -> RunRow]
        /\ appr' \in [Keys -> Approval] /\ waiters' \subseteq Keys
        /\ gate' \in [Runs -> GateRow]
    BY <2>1, PauseType, FailType DEF PauseRun, TypeOK
  <2>. QED BY <1>3, <2>2 DEF TypeOK, PrepareRunRejected, adapter
<1>4. ASSUME NEW r \in Runs, BeginPreparedRun(r) PROVE TypeOK'
  <2>1. task' \in [Tasks -> TaskRow]
    BY <1>4 DEF BeginPreparedRun, TypeOK, MovedTask, TaskRow, TaskStatuses
  <2>2. run' \in [Runs -> RunRow]
    BY <1>4 DEF BeginPreparedRun, TypeOK, Moved, RunRow, RunStatuses
  <2>3. live' \in [Sessions -> Runs \cup {NoRun}]
    BY <1>4 DEF BeginPreparedRun, TypeOK
  <2>. QED BY <1>4, <2>1, <2>2, <2>3 DEF TypeOK, BeginPreparedRun, memory
<1>5. ASSUME NEW r \in Runs, PreparedRunRejected(r) PROVE TypeOK'
  <2>1. \/ PauseRun(SessionOf(r)) \/ FailRun(SessionOf(r))
        \/ UNCHANGED <<task, run, appr, waiters, gate>>
    BY <1>5 DEF PreparedRunRejected, CaughtByStartSession, CaughtByObserver
  <2>2. /\ task' \in [Tasks -> TaskRow] /\ run' \in [Runs -> RunRow]
        /\ appr' \in [Keys -> Approval] /\ waiters' \subseteq Keys
        /\ gate' \in [Runs -> GateRow]
    BY <2>1, PauseType, FailType DEF PauseRun, TypeOK
  <2>3. live' \in [Sessions -> Runs \cup {NoRun}]
    BY <1>5 DEF PreparedRunRejected, TypeOK
  <2>. QED BY <1>5, <2>2, <2>3 DEF TypeOK, PreparedRunRejected
<1>. QED BY <1>1, <1>2, <1>3, <1>4, <1>5

(* The turn is over or stopped. *)
LEMMA StopType ==
  ASSUME TypeOK, Owned, NEW s \in Sessions
  PROVE  /\ StopSession(s) => TypeOK'
         /\ TurnError(s) \/ AuthorizeStale(s) => TypeOK'
         /\ PromptRejected(s) => TypeOK'
         /\ \A r \in Runs : CancelExternal(s, r) => TypeOK'
         /\ DeleteSession(s) => TypeOK'
         /\ StartCompletion(s) => TypeOK'
<1>1. ASSUME StopSession(s) PROVE TypeOK'
  <2>1. /\ task' \in [Tasks -> TaskRow] /\ run' \in [Runs -> RunRow]
        /\ appr' \in [Keys -> Approval] /\ waiters' \subseteq Keys
        /\ gate' \in [Runs -> GateRow]
    BY <1>1, PauseType DEF StopSession, PauseRun, TypeOK
  <2>2. live' \in [Sessions -> Runs \cup {NoRun}] /\ starting' \subseteq Runs
    BY <1>1 DEF StopSession, AbortTurn, TypeOK
  <2>. QED BY <1>1, <2>1, <2>2 DEF StopSession, TypeOK
<1>2. ASSUME TurnError(s) \/ AuthorizeStale(s) PROVE TypeOK'
  <2>1. FailRun(s) /\ live' = [live EXCEPT ![s] = NoRun]
        /\ UNCHANGED <<promotions, collecting, starting>>
    BY <1>2 DEF TurnError, AuthorizeStale
  <2>2. /\ task' \in [Tasks -> TaskRow] /\ run' \in [Runs -> RunRow]
        /\ appr' \in [Keys -> Approval] /\ waiters' \subseteq Keys
        /\ gate' \in [Runs -> GateRow]
    BY <2>1, FailType
  <2>. QED BY <2>1, <2>2 DEF TypeOK
<1>3. ASSUME PromptRejected(s) PROVE TypeOK'
  BY <1>3 DEF PromptRejected, TypeOK, db, memory
<1>4. ASSUME NEW r \in Runs, CancelExternal(s, r) PROVE TypeOK'
  <2>1. task' \in [Tasks -> TaskRow]
    BY <1>4 DEF CancelExternal, TypeOK, MovedTask, TaskRow, TaskStatuses
  <2>2. run' \in [Runs -> RunRow]
    BY <1>4 DEF CancelExternal, TypeOK, Moved, RunRow, RunStatuses
  <2>3. gate' \in [Runs -> GateRow]
    BY <1>4, FreshGateType DEF CancelExternal, TypeOK, Forgotten
  <2>4. live' \in [Sessions -> Runs \cup {NoRun}]
    BY <1>4 DEF CancelExternal, TypeOK
  <2>. QED BY <1>4, <2>1, <2>2, <2>3, <2>4 DEF CancelExternal, TypeOK
<1>5. ASSUME DeleteSession(s) PROVE TypeOK'
  <2>1. task' \in [Tasks -> TaskRow]
    BY <1>5 DEF DeleteSession, TypeOK, NoTaskRow, TaskRow, NoRow, Contracts
  <2>2. run' \in [Runs -> RunRow]
    BY <1>5 DEF DeleteSession, TypeOK, NoRunRow, RunRow, NoRow, Triggers
  <2>3. appr' \in [Keys -> Approval]
    BY <1>5 DEF DeleteSession, TypeOK, NoApproval, Approval
  <2>4. gate' \in [Runs -> GateRow] /\ promotions' \in [Runs -> Nat]
    BY <1>5, FreshGateType DEF DeleteSession, TypeOK, Forgotten
  <2>5. live' \in [Sessions -> Runs \cup {NoRun}]
    BY <1>5 DEF DeleteSession, TypeOK
  <2>. QED BY <1>5, <2>1, <2>2, <2>3, <2>4, <2>5 DEF DeleteSession, TypeOK
<1>6. ASSUME StartCompletion(s) PROVE TypeOK'
  <2>1. live[s] \in Runs /\ task[run[live[s]].task].contract \in Contracts
    BY <1>6 DEF StartCompletion, TypeOK, Owned, RunExists, NoRow, TaskRow
  <2>. QED BY <1>6, <2>1 DEF StartCompletion, TypeOK, Completion, db
<1>. QED BY <1>1, <1>2, <1>3, <1>4, <1>5, <1>6

(* The rows a denial writes before the turn is stopped. *)
LEMMA DenialType ==
  ASSUME TypeOK, NEW a \in Keys
  PROVE  /\ Moved(run, a[1], "paused") \in [Runs -> RunRow]
         /\ MovedTask(run[a[1]].task, "paused", a[1]) \in [Tasks -> TaskRow]
<1>1. a[1] \in Runs
  BY DEF Keys
<1>2. Moved(run, a[1], "paused") \in [Runs -> RunRow]
  BY DEF Moved, TypeOK, RunRow, RunStatuses
<1>3. \A t : MovedTask(t, "paused", a[1]) \in [Tasks -> TaskRow]
  BY <1>1 DEF MovedTask, TypeOK, TaskRow, TaskStatuses
<1>. QED BY <1>2, <1>3

(* Tool calls and their approvals. *)
LEMMA ToolType ==
  ASSUME TypeOK, BelowCeiling
  PROVE  /\ \A s \in Sessions : /\ SetOutputContract(s) => TypeOK'
                                /\ GateDenied(s) => TypeOK'
                                /\ \A a \in Keys : /\ AuthorizeAuto(s, a) => TypeOK'
                                                   /\ AuthorizeAsk(s, a) => TypeOK'
         /\ \A a \in Keys : /\ Approve(a) => TypeOK'
                            /\ DenyInCard(a) => TypeOK'
                            /\ DenyInChat(a) => TypeOK'
         /\ \A a \in Keys, effect \in {"succeeded", "failed"} :
              RecordToolResult(a, effect) => TypeOK'
<1>0. \A a \in Keys, decision \in {"pending", "approved", "denied"},
         effect \in {"executing", "not_started"} :
        Decided(a, decision, effect) \in [Keys -> Approval]
  BY DEF Decided, TypeOK, Approval
<1>1. ASSUME NEW s \in Sessions, SetOutputContract(s) PROVE TypeOK'
  <2>. DEFINE t == run[live[s]].task
  <2>0. task' = [task EXCEPT ![t] = [@ EXCEPT !.contract = "committed"]]
    BY <1>1 DEF SetOutputContract
  <2>. HIDE DEF t
  <2>1. task' \in [Tasks -> TaskRow]
    BY <2>0 DEF TypeOK, TaskRow, Contracts
  <2>. QED BY <1>1, <2>1 DEF SetOutputContract, TypeOK, memory, adapter
<1>2. ASSUME NEW s \in Sessions, GateDenied(s) PROVE TypeOK'
  <2>. DEFINE r == live[s]
  <2>1. CASE gate[r].denials + 1 >= Ceiling(gate[r]) /\ gate[r].grace
    <3>1. FailRun(s) /\ live' = [live EXCEPT ![s] = NoRun]
          /\ UNCHANGED <<promotions, collecting, starting>>
      BY <1>2, <2>1 DEF GateDenied
    <3>2. /\ task' \in [Tasks -> TaskRow] /\ run' \in [Runs -> RunRow]
          /\ appr' \in [Keys -> Approval] /\ waiters' \subseteq Keys
          /\ gate' \in [Runs -> GateRow]
      BY <3>1, FailType
    <3>. QED BY <3>1, <3>2 DEF TypeOK
  <2>2. CASE ~(gate[r].denials + 1 >= Ceiling(gate[r]) /\ gate[r].grace)
    <3>. DEFINE new == [denials |-> gate[r].denials + 1,
                        grace |-> gate[r].denials + 1 >= Ceiling(gate[r]) \/ gate[r].grace]
    <3>1. r \in Runs
      BY <1>2 DEF GateDenied, InTurn, TypeOK
    <3>2. gate' = [gate EXCEPT ![r] = new] /\ UNCHANGED <<task, run, appr, waiters, live>>
          /\ UNCHANGED <<promotions, collecting, starting>>
      BY <1>2, <2>2 DEF GateDenied
    <3>3. gate[r].denials \in Nat /\ gate[r].grace \in BOOLEAN
      BY <3>1, ConstantsAssumption DEF TypeOK, GateRow, ConstantsAssumption
    <3>4. gate[r].denials + 1 \in 0..(DenialLimit + GraceDenials - 1)
      BY <2>2, <3>1, <3>3, ConstantsAssumption DEF BelowCeiling, Ceiling, ConstantsAssumption
    <3>5. new \in GateRow
      BY <3>3, <3>4 DEF GateRow
    <3>6. gate' \in [Runs -> GateRow]
      BY <3>2, <3>5 DEF TypeOK
    <3>. QED BY <3>2, <3>6 DEF TypeOK
  <2>. QED BY <2>1, <2>2
<1>3. ASSUME NEW s \in Sessions, NEW a \in Keys, AuthorizeAuto(s, a) PROVE TypeOK'
  BY <1>0, <1>3 DEF AuthorizeAuto, TypeOK, memory, adapter
<1>4. ASSUME NEW s \in Sessions, NEW a \in Keys, AuthorizeAsk(s, a) PROVE TypeOK'
  <2>1. run' \in [Runs -> RunRow]
    BY <1>4 DEF AuthorizeAsk, TypeOK, Moved, RunRow, RunStatuses
  <2>. QED BY <1>0, <1>4, <2>1 DEF AuthorizeAsk, TypeOK, adapter
<1>5. ASSUME NEW a \in Keys, Approve(a) PROVE TypeOK'
  <2>1. run' \in [Runs -> RunRow]
    BY <1>5 DEF Approve, TypeOK, Moved, RunRow, RunStatuses
  <2>. QED BY <1>0, <1>5, <2>1 DEF Approve, TypeOK, adapter
<1>7. ASSUME NEW a \in Keys, DenyInCard(a) PROVE TypeOK'
  BY <1>0, DenialType, <1>7 DEF DenyInCard, TypeOK, adapter
<1>8. ASSUME NEW a \in Keys, DenyInChat(a) PROVE TypeOK'
  <2>1. waiters \ {a} \in SUBSET Keys
    BY DEF TypeOK
  <2>2. /\ task' \in [Tasks -> TaskRow] /\ run' \in [Runs -> RunRow]
        /\ appr' \in [Keys -> Approval] /\ waiters' \subseteq Keys
        /\ gate' \in [Runs -> GateRow]
    BY <1>0, DenialType, <1>8, <2>1, PauseType DEF DenyInChat
  <2>3. live' \in [Sessions -> Runs \cup {NoRun}] /\ starting' \subseteq Runs
    BY <1>8 DEF DenyInChat, AbortTurn, TypeOK
  <2>. QED BY <1>8, <2>2, <2>3 DEF DenyInChat, TypeOK
<1>9. ASSUME NEW a \in Keys, NEW effect \in {"succeeded", "failed"}, RecordToolResult(a, effect) PROVE TypeOK'
  <2>1. appr' \in [Keys -> Approval]
    BY <1>9 DEF RecordToolResult, TypeOK, Approval
  <2>. QED BY <1>9, <2>1 DEF RecordToolResult, TypeOK, memory, adapter
<1>. QED BY <1>1, <1>2, <1>3, <1>4, <1>5, <1>7, <1>8, <1>9

(* Completion, acceptance and recovery. *)
LEMMA EndType ==
  ASSUME TypeOK
  PROVE  /\ \A c \in collecting, verdict \in Outcomes, delivery \in Deliveries :
              FinishCompletion(c, verdict, delivery) => TypeOK'
         /\ \A t \in Tasks : AcceptTask(t) => TypeOK'
         /\ \A first \in [Tasks -> Runs] : Restart(first) => TypeOK'
<1>1. ASSUME NEW c \in collecting, NEW verdict \in Outcomes, NEW delivery \in Deliveries,
             FinishCompletion(c, verdict, delivery)
      PROVE  TypeOK'
  <2>. DEFINE r == c.run
              outcome == DeliveryGate(verdict, c.contract, delivery)
  <2>1. r \in Runs /\ outcome \in Outcomes
    BY DEF TypeOK, Completion, DeliveryGate, Outcomes
  <2>2. \A t : /\ MovedTask(t, "completed", NoRun) \in [Tasks -> TaskRow]
               /\ MovedTask(t, "needs_review", r) \in [Tasks -> TaskRow]
    BY <2>1 DEF MovedTask, TypeOK, TaskRow, TaskStatuses
  <2>3. Concluded(r, outcome) \in [Runs -> RunRow]
    BY <2>1 DEF Concluded, TypeOK, RunRow, RunStatuses
  <2>4. Forgotten({r}) \in [Runs -> GateRow]
    BY FreshGateType DEF Forgotten, TypeOK
  <2>5. task' \in [Tasks -> TaskRow]
    BY <1>1, <2>2 DEF FinishCompletion, TypeOK
  <2>6. run' \in [Runs -> RunRow] /\ gate' \in [Runs -> GateRow]
    BY <1>1, <2>3, <2>4 DEF FinishCompletion, TypeOK
  <2>7. promotions' \in [Runs -> Nat]
    BY <1>1 DEF FinishCompletion, TypeOK
  <2>. QED BY <1>1, <2>5, <2>6, <2>7 DEF FinishCompletion, TypeOK, adapter
<1>2. ASSUME NEW t \in Tasks, AcceptTask(t) PROVE TypeOK'
  <2>1. \A r : Concluded(r, "passed") \in [Runs -> RunRow]
    BY DEF Concluded, TypeOK, RunRow, RunStatuses, Outcomes
  <2>2. MovedTask(t, "completed", NoRun) \in [Tasks -> TaskRow]
    BY DEF MovedTask, TypeOK, TaskRow, TaskStatuses
  <2>. DEFINE r == task[t].active
  <2>3. promotions' \in [Runs -> Nat]
    <3>1. r \in Runs
      BY <1>2 DEF AcceptTask, TypeOK, TaskRow
    <3>2. promotions' = [promotions EXCEPT ![r] = @ + 1]
      BY <1>2 DEF AcceptTask
    <3>. HIDE DEF r
    <3>. QED BY <3>1, <3>2 DEF TypeOK
  <2>4. run' \in [Runs -> RunRow] /\ task' \in [Tasks -> TaskRow]
    BY <1>2, <2>1, <2>2 DEF AcceptTask
  <2>. QED BY <1>2, <2>3, <2>4 DEF AcceptTask, TypeOK, memory, adapter
<1>3. ASSUME NEW first \in [Tasks -> Runs], Restart(first) PROVE TypeOK'
  <2>1. \A t \in Tasks : RecoveredTask(t, first[t]) \in TaskRow
    BY DEF RecoveredTask, TypeOK, TaskRow, TaskStatuses
  <2>2. task' \in [Tasks -> TaskRow]
    BY <1>3, <2>1 DEF Restart, TypeOK
  <2>3. \A r \in Runs : [run[r] EXCEPT !.status = "paused"] \in RunRow
                        /\ [run[r] EXCEPT !.status = "needs_review"] \in RunRow
    BY DEF TypeOK, RunRow, RunStatuses
  <2>4. run' \in [Runs -> RunRow]
    BY <1>3, <2>3 DEF Restart, TypeOK
  <2>5. appr' \in [Keys -> Approval]
    BY <1>3 DEF Restart, TypeOK, Approval
  <2>6. gate' \in [Runs -> GateRow]
    BY <1>3, FreshGateType DEF Restart
  <2>7. live' \in [Sessions -> Runs \cup {NoRun}]
    BY <1>3 DEF Restart
  <2>. QED BY <1>3, <2>2, <2>4, <2>5, <2>6, <2>7 DEF Restart, TypeOK
<1>. QED BY <1>1, <1>2, <1>3

LEMMA NextType == TypeOK /\ Owned /\ BelowCeiling /\ [Next]_vars => TypeOK'
<1>. SUFFICES ASSUME TypeOK, Owned, BelowCeiling, [Next]_vars PROVE TypeOK'
  OBVIOUS
<1>1. CASE UNCHANGED vars
  BY <1>1 DEF TypeOK, vars, db, memory, adapter
<1>2. CASE Next
  BY <1>2, StartType, StopType, ToolType, EndType DEF Next
<1>. QED BY <1>1, <1>2

-----------------------------------------------------------------------------
(***************************************************************************)
(* What every step does to the rows: most actions only change statuses,    *)
(* active runs and contracts of rows that exist.                           *)
(***************************************************************************)
RowsKept ==
  /\ \A r \in Runs : /\ run'[r].task = run[r].task
                     /\ run'[r].status \in NoRow <=> run[r].status \in NoRow
  /\ \A t \in Tasks : /\ task'[t].session = task[t].session
                      /\ task'[t].status \in NoRow <=> task[t].status \in NoRow

SameRows(tk, rn) ==
  /\ \A r \in Runs : /\ run'[r].task = rn[r].task
                     /\ run'[r].status \in NoRow <=> rn[r].status \in NoRow
  /\ \A t \in Tasks : /\ task'[t].session = tk[t].session
                      /\ task'[t].status \in NoRow <=> tk[t].status \in NoRow

LEMMA PauseSameRows ==
  ASSUME NEW s, NEW tk \in [Tasks -> TaskRow], NEW rn \in [Runs -> RunRow], NEW ap, NEW ws,
         Pause(s, tk, rn, ap, ws)
  PROVE  SameRows(tk, rn)
<1>1. CASE PauseThrows(s, tk, rn)
  BY <1>1 DEF Pause, SameRows
<1>2. CASE ~PauseThrows(s, tk, rn)
  <2>1. \A r \in TargetRuns(s, tk, rn) : rn[r].status \notin NoRow
    BY DEF TargetRuns, Target, ActiveRun, NoRow
  <2>2. \A t \in Tasks : Target(s, t, tk, rn) => tk[t].status \notin NoRow
    BY DEF Target, IsActiveTask, OpenTasks
  <2>3. \A r \in Runs : /\ run'[r].task = rn[r].task
                        /\ run'[r].status \in NoRow <=> rn[r].status \in NoRow
    BY <1>2, <2>1 DEF Pause, RunRow, NoRow
  <2>4. \A t \in Tasks : /\ task'[t].session = tk[t].session
                         /\ task'[t].status \in NoRow <=> tk[t].status \in NoRow
    BY <1>2, <2>2 DEF Pause, TaskRow, NoRow
  <2>. QED BY <2>3, <2>4 DEF SameRows
<1>. QED BY <1>1, <1>2

LEMMA PauseKeepsRows ==
  ASSUME TypeOK, NEW s, PauseRun(s) \/ FailRun(s)
  PROVE  RowsKept
<1>1. CASE PauseRun(s)
  BY <1>1, PauseSameRows DEF PauseRun, SameRows, RowsKept, TypeOK
<1>2. CASE FailRun(s)
  <2>1. \A r \in TargetRuns(s, task, run) : run[r].status \notin NoRow
    BY DEF TargetRuns, Target, ActiveRun, NoRow
  <2>2. \A t \in Tasks : Target(s, t, task, run) => task[t].status \notin NoRow
    BY DEF Target, IsActiveTask, OpenTasks
  <2>3. \A r \in Runs : /\ run'[r].task = run[r].task
                        /\ run'[r].status \in NoRow <=> run[r].status \in NoRow
    BY <1>2, <2>1 DEF FailRun, RunRow, NoRow, TypeOK
  <2>4. \A t \in Tasks : /\ task'[t].session = task[t].session
                         /\ task'[t].status \in NoRow <=> task[t].status \in NoRow
    BY <1>2, <2>2 DEF FailRun, TaskRow, NoRow, TypeOK
  <2>. QED BY <2>3, <2>4 DEF RowsKept
<1>. QED BY <1>1, <1>2

LEMMA OtherKeepRows ==
  ASSUME TypeOK, Owned
  PROVE  /\ \A t \in Tasks, trigger \in {"resume", "retry"} :
              PrepareRunRejected(t, trigger) => RowsKept
         /\ \A r \in Runs : /\ BeginPreparedRun(r) => RowsKept
                            /\ PreparedRunRejected(r) => RowsKept
         /\ \A s \in Sessions : /\ SetOutputContract(s) => RowsKept
                                /\ GateDenied(s) => RowsKept
                                /\ \A a \in Keys : /\ AuthorizeAuto(s, a) => RowsKept
                                                   /\ AuthorizeAsk(s, a) => RowsKept
         /\ \A a \in Keys : /\ Approve(a) => RowsKept
                            /\ DenyInCard(a) => RowsKept
                            /\ DenyInChat(a) => RowsKept
         /\ \A a \in Keys, effect \in {"succeeded", "failed"} :
              RecordToolResult(a, effect) => RowsKept
         /\ \A s \in Sessions : /\ StopSession(s) => RowsKept
                                /\ TurnError(s) => RowsKept
                                /\ AuthorizeStale(s) => RowsKept
                                /\ PromptRejected(s) => RowsKept
                                /\ \A r \in Runs : CancelExternal(s, r) => RowsKept
                                /\ StartCompletion(s) => RowsKept
         /\ \A c \in collecting, verdict \in Outcomes, delivery \in Deliveries :
              FinishCompletion(c, verdict, delivery) => RowsKept
         /\ \A t \in Tasks : AcceptTask(t) => RowsKept
         /\ \A first \in [Tasks -> Runs] : Restart(first) => RowsKept
<1>0. UNCHANGED <<task, run>> => RowsKept
  BY DEF RowsKept
<1>1. \A t \in Tasks, trigger \in {"resume", "retry"} :
        PrepareRunRejected(t, trigger) => RowsKept
  BY PauseKeepsRows DEF PrepareRunRejected
<1>2. \A r \in Runs : PreparedRunRejected(r) => RowsKept
  BY <1>0, PauseKeepsRows DEF PreparedRunRejected, CaughtByStartSession, CaughtByObserver
<1>3. ASSUME NEW r \in Runs, BeginPreparedRun(r) PROVE RowsKept
  BY <1>3 DEF BeginPreparedRun, RowsKept, TypeOK, TaskRow, RunRow, MovedTask, Moved, NoRow,
     CanMoveTask, CanMoveRun, TaskMoves, RunMoves
<1>4. ASSUME NEW s \in Sessions, SetOutputContract(s) PROVE RowsKept
  BY <1>4 DEF SetOutputContract, RowsKept, TypeOK, TaskRow
<1>5. ASSUME NEW s \in Sessions, GateDenied(s) PROVE RowsKept
  BY <1>0, <1>5, PauseKeepsRows DEF GateDenied
<1>6. ASSUME NEW s \in Sessions, NEW a \in Keys, AuthorizeAuto(s, a) \/ AuthorizeAsk(s, a)
      PROVE  RowsKept
  <2>1. CASE AuthorizeAuto(s, a)
    BY <1>0, <2>1 DEF AuthorizeAuto
  <2>2. CASE AuthorizeAsk(s, a)
    <3>1. a[1] \in Runs /\ run[a[1]].status = "running"
      BY <2>2 DEF AuthorizeAsk, MayAuthorize, IsRunning, Keys
    <3>2. run' = Moved(run, a[1], "waiting_approval") /\ task' = task
      BY <2>2 DEF AuthorizeAsk
    <3>. QED BY <3>1, <3>2 DEF Moved, RowsKept, TypeOK, RunRow, NoRow
  <2>. QED BY <1>6, <2>1, <2>2
<1>7. ASSUME NEW a \in Keys, Approve(a) PROVE RowsKept
  BY <1>7 DEF Approve, RowsKept, TypeOK, RunRow, Moved, NoRow, CanMoveRun, RunMoves, Keys
<1>8. ASSUME NEW a \in Keys, MayDeny(a),
             SameRows(MovedTask(run[a[1]].task, "paused", a[1]), Moved(run, a[1], "paused"))
      PROVE  RowsKept
  <2>. DEFINE r == a[1]
              t == run[r].task
              tk == MovedTask(t, "paused", r)
              rn == Moved(run, r, "paused")
  <2>1. r \in Runs /\ run[r].status \notin NoRow
    BY <1>8 DEF MayDeny, CanMoveRun, RunMoves, NoRow, Keys
  <2>2. t \in Tasks /\ task[t].status \notin NoRow
    BY <2>1 DEF Owned, RunExists, TaskExists
  <2>. HIDE DEF r, t
  <2>3. \A q \in Runs : /\ rn[q].task = run[q].task
                        /\ rn[q].status \in NoRow <=> run[q].status \in NoRow
    BY <2>1 DEF Moved, TypeOK, RunRow, NoRow
  <2>4. \A u \in Tasks : /\ tk[u].session = task[u].session
                         /\ tk[u].status \in NoRow <=> task[u].status \in NoRow
    BY <2>2 DEF MovedTask, TypeOK, TaskRow, NoRow
  <2>5. SameRows(tk, rn)
    BY <1>8 DEF r, t
  <2>. QED BY <2>3, <2>4, <2>5 DEF SameRows, RowsKept
<1>9. ASSUME NEW a \in Keys, DenyInCard(a) \/ DenyInChat(a) PROVE RowsKept
  <2>. DEFINE tk == MovedTask(run[a[1]].task, "paused", a[1])
              rn == Moved(run, a[1], "paused")
  <2>1. CASE DenyInCard(a)
    <3>1. MayDeny(a) /\ task' = tk /\ run' = rn
      BY <2>1 DEF DenyInCard
    <3>2. SameRows(tk, rn)
      BY <3>1 DEF SameRows
    <3>. QED BY <1>8, <3>1, <3>2
  <2>2. CASE DenyInChat(a)
    <3>1. tk \in [Tasks -> TaskRow] /\ rn \in [Runs -> RunRow]
      BY DenialType
    <3>2. \E s, ap, ws : Pause(s, tk, rn, ap, ws)
      BY <2>2 DEF DenyInChat
    <3>3. SameRows(tk, rn)
      BY <3>1, <3>2, PauseSameRows
    <3>. QED BY <1>8, <2>2, <3>3 DEF DenyInChat
  <2>. QED BY <1>9, <2>1, <2>2
<1>10. \A a \in Keys, effect \in {"succeeded", "failed"} :
        RecordToolResult(a, effect) => RowsKept
  BY <1>0 DEF RecordToolResult
<1>11. ASSUME NEW s \in Sessions PROVE
         (StopSession(s) \/ TurnError(s) \/ AuthorizeStale(s) \/ PromptRejected(s)
           \/ StartCompletion(s)) => RowsKept
  BY <1>0, PauseKeepsRows DEF StopSession, TurnError, AuthorizeStale, PromptRejected,
     StartCompletion, db
<1>12. ASSUME NEW s \in Sessions, NEW r \in Runs, CancelExternal(s, r) PROVE RowsKept
  BY <1>12 DEF CancelExternal, RowsKept, RunsOf, SessionOf, TypeOK, RunRow, TaskRow, Moved,
     MovedTask, NoRow, Owned, TaskExists, RunExists, ActiveRun
<1>13. ASSUME NEW c \in collecting, NEW verdict \in Outcomes, NEW delivery \in Deliveries,
              FinishCompletion(c, verdict, delivery)
       PROVE  RowsKept
  <2>. DEFINE r == c.run
              t == run[r].task
              outcome == DeliveryGate(verdict, c.contract, delivery)
  <2>1. CASE ~StillActive(r)
    BY <1>0, <1>13, <2>1 DEF FinishCompletion
  <2>2. CASE StillActive(r)
    <3>1. /\ run' = Concluded(r, outcome)
          /\ task' = MovedTask(t, "completed", NoRun) \/ task' = MovedTask(t, "needs_review", r)
      BY <1>13, <2>2 DEF FinishCompletion
    <3>2. r \in Runs /\ run[r].status = "running"
      BY <2>2 DEF StillActive, IsRunning, TypeOK, Completion
    <3>3. t \in Tasks /\ task[t].status \notin NoRow
      BY <3>2 DEF Owned, RunExists, TaskExists, NoRow
    <3>. HIDE DEF r, t, outcome
    <3>4. \A q \in Runs : /\ run'[q].task = run[q].task
                          /\ run'[q].status \in NoRow <=> run[q].status \in NoRow
      BY <3>1, <3>2 DEF Concluded, TypeOK, RunRow, NoRow
    <3>5. \A u \in Tasks : /\ task'[u].session = task[u].session
                           /\ task'[u].status \in NoRow <=> task[u].status \in NoRow
      <4>1. \A status, active : LET tk == MovedTask(t, status, active)
              IN /\ \A u \in Tasks : tk[u].session = task[u].session
                 /\ \A u \in Tasks \ {t} : tk[u] = task[u]
                 /\ tk[t].status = status
        BY <3>3 DEF MovedTask, TypeOK, TaskRow
      <4>. QED BY <3>1, <3>3, <4>1 DEF NoRow
    <3>. QED BY <3>4, <3>5 DEF RowsKept
  <2>. QED BY <2>1, <2>2
<1>14. ASSUME NEW t \in Tasks, AcceptTask(t) PROVE RowsKept
  <2>. DEFINE r == task[t].active
  <2>1. /\ task[t].status = "needs_review" /\ CanMoveRun(r, "succeeded")
        /\ run' = Concluded(r, "passed") /\ task' = MovedTask(t, "completed", NoRun)
    BY <1>14 DEF AcceptTask
  <2>. HIDE DEF r
  <2>2. run[r].status \notin NoRow
    BY <2>1 DEF CanMoveRun, RunMoves, NoRow
  <2>3. \A q \in Runs : /\ run'[q].task = run[q].task
                        /\ run'[q].status \in NoRow <=> run[q].status \in NoRow
    BY <2>1, <2>2 DEF Concluded, TypeOK, RunRow, NoRow
  <2>4. \A u \in Tasks : /\ task'[u].session = task[u].session
                         /\ task'[u].status \in NoRow <=> task[u].status \in NoRow
    BY <2>1 DEF MovedTask, TypeOK, TaskRow, NoRow
  <2>. QED BY <2>3, <2>4 DEF RowsKept
<1>15. ASSUME NEW first \in [Tasks -> Runs], Restart(first) PROVE RowsKept
  BY <1>15 DEF Restart, RecoveredTask, RowsKept, TypeOK, RunRow, TaskRow, NoRow
<1>. QED BY <1>1, <1>2, <1>3, <1>4, <1>5, <1>6, <1>7, <1>9, <1>10, <1>11, <1>12,
            <1>13, <1>14, <1>15

(* Every run has a task: rows appear and disappear together. *)
LEMMA NextOwned == TypeOK /\ Owned /\ [Next]_vars => Owned'
<1>. SUFFICES ASSUME TypeOK, Owned, [Next]_vars PROVE Owned'
  OBVIOUS
<1>1. RowsKept => Owned'
  BY DEF RowsKept, Owned, RunExists, TaskExists
<1>2. CASE UNCHANGED vars
  BY <1>2 DEF vars, db, Owned, RunExists, TaskExists
<1>3. ASSUME NEW s \in Sessions, NEW contract \in NewContracts, NEW t \in Tasks,
             NEW r \in Runs, BeginMessageRun(s, contract, t, r)
      PROVE  Owned'
  <2>1. \A u \in Tasks : TaskExists(u) => TaskExists(u)'
    BY <1>3 DEF BeginMessageRun, TaskExists, NoRow, TypeOK, TaskRow
  <2>2. TaskExists(t)'
    BY <1>3 DEF BeginMessageRun, TaskExists, NoRow
  <2>3. run'[r].task = t
    BY <1>3 DEF BeginMessageRun
  <2>4. \A q \in Runs \ {r} : run'[q].task = run[q].task /\ (RunExists(q)' => RunExists(q))
    BY <1>3 DEF BeginMessageRun, RunExists, NoRow, TypeOK, RunRow, SupersededRuns, ActiveRun
  <2>. QED BY <2>1, <2>2, <2>3, <2>4 DEF Owned
<1>4. ASSUME NEW t \in Tasks, NEW trigger \in {"resume", "retry"}, NEW r \in Runs,
             PrepareRun(t, trigger, r)
      PROVE  Owned'
  <2>1. \A u \in Tasks : TaskExists(u) => TaskExists(u)'
    BY <1>4 DEF PrepareRun, MovedTask, TaskExists, NoRow, TypeOK, TaskRow
  <2>2. TaskExists(t)' /\ run'[r].task = t
    BY <1>4, <2>1 DEF PrepareRun, TypeOK
  <2>3. \A q \in Runs \ {r} : run'[q] = run[q]
    BY <1>4 DEF PrepareRun, TypeOK
  <2>. QED BY <2>1, <2>2, <2>3 DEF Owned, RunExists
<1>5. ASSUME NEW s \in Sessions, DeleteSession(s) PROVE Owned'
  <2>1. ASSUME NEW q \in Runs, RunExists(q)' PROVE (run[q].task \in Tasks /\ TaskExists(run[q].task))'
    <3>1. q \notin RunsOf(s) /\ run'[q] = run[q] /\ RunExists(q)
      BY <1>5, <2>1 DEF DeleteSession, RunExists, NoRow, NoRunRow
    <3>2. run[q].task \in Tasks /\ TaskExists(run[q].task) /\ task[run[q].task].session # s
      BY <3>1 DEF Owned, RunsOf, SessionOf
    <3>3. task'[run[q].task] = task[run[q].task]
      BY <1>5, <3>2 DEF DeleteSession
    <3>. QED BY <3>1, <3>2, <3>3 DEF TaskExists
  <2>. QED BY <2>1 DEF Owned
<1>6. CASE Next
  BY <1>1, <1>3, <1>4, <1>5, <1>6, OtherKeepRows DEF Next
<1>. QED BY <1>2, <1>6

(* The counters of a run are reset or raised by one denial under the ceiling. *)
LEMMA ForgottenBelow ==
  ASSUME TypeOK, BelowCeiling, NEW R, gate' = Forgotten(R) \/ gate' = gate
  PROVE  BelowCeiling'
BY ConstantsAssumption
   DEF BelowCeiling, Forgotten, FreshGate, ConstantsAssumption, TypeOK, GateRow

LEMMA PauseBelow ==
  ASSUME TypeOK, BelowCeiling, NEW s,
         FailRun(s) \/ \E tk, rn, ap, ws : Pause(s, tk, rn, ap, ws)
  PROVE  BelowCeiling'
<1>1. \E R : gate' = Forgotten(R) \/ gate' = gate
  BY DEF Pause, FailRun
<1>. QED BY <1>1, ForgottenBelow

LEMMA NextBelow == TypeOK /\ BelowCeiling /\ [Next]_vars => BelowCeiling'
<1>. SUFFICES ASSUME TypeOK, BelowCeiling, [Next]_vars PROVE BelowCeiling'
  OBVIOUS
<1>1. \A R : gate' = Forgotten(R) => BelowCeiling'
  BY ForgottenBelow
<1>2. UNCHANGED gate => BelowCeiling'
  BY DEF BelowCeiling
<1>3. ASSUME NEW s, PauseRun(s) \/ FailRun(s) PROVE BelowCeiling'
  BY <1>3, PauseBelow DEF PauseRun
<1>4. \A s \in Sessions : (TurnError(s) \/ AuthorizeStale(s) \/ StopSession(s)) => BelowCeiling'
  BY <1>3 DEF TurnError, AuthorizeStale, StopSession
<1>5. \A t \in Tasks, trigger \in {"resume", "retry"} :
        PrepareRunRejected(t, trigger) => BelowCeiling'
  BY <1>3 DEF PrepareRunRejected
<1>6. \A r \in Runs : PreparedRunRejected(r) => BelowCeiling'
  BY <1>2, <1>3 DEF PreparedRunRejected, CaughtByStartSession, CaughtByObserver
<1>7. \A a \in Keys : DenyInChat(a) => BelowCeiling'
  BY PauseBelow DEF DenyInChat
<1>8. ASSUME NEW s \in Sessions, GateDenied(s) PROVE BelowCeiling'
  <2>. DEFINE r == live[s]
  <2>1. CASE gate[r].denials + 1 >= Ceiling(gate[r]) /\ gate[r].grace
    BY <1>3, <1>8, <2>1 DEF GateDenied
  <2>2. CASE ~(gate[r].denials + 1 >= Ceiling(gate[r]) /\ gate[r].grace)
    <3>. DEFINE new == [denials |-> gate[r].denials + 1,
                        grace |-> gate[r].denials + 1 >= Ceiling(gate[r]) \/ gate[r].grace]
    <3>1. r \in Runs
      BY <1>8 DEF GateDenied, InTurn, TypeOK
    <3>2. gate' = [gate EXCEPT ![r] = new]
      BY <1>8, <2>2 DEF GateDenied
    <3>3. gate[r].denials \in Nat /\ gate[r].grace \in BOOLEAN
      BY <3>1, ConstantsAssumption DEF TypeOK, GateRow, ConstantsAssumption
    <3>4. new.denials < IF new.grace THEN DenialLimit + GraceDenials ELSE DenialLimit
      <4>. DEFINE d == gate[r].denials
                  g == gate[r].grace
      <4>1. d < IF g THEN DenialLimit + GraceDenials ELSE DenialLimit
        BY <3>1 DEF BelowCeiling
      <4>2. Ceiling(gate[r]) = IF g THEN DenialLimit + GraceDenials ELSE DenialLimit
        BY DEF Ceiling
      <4>3. d \in Nat /\ g \in BOOLEAN
        BY <3>3
      <4>4. ~(d + 1 >= Ceiling(gate[r]) /\ g)
        BY <2>2
      <4>5. /\ new.denials = d + 1
            /\ (d + 1 >= Ceiling(gate[r]) \/ g) => new.grace
            /\ ~(d + 1 >= Ceiling(gate[r]) \/ g) => ~new.grace
        OBVIOUS
      <4>. HIDE DEF r, new, d, g
      <4>6. CASE g
        <5>1. new.grace /\ ~(d + 1 >= Ceiling(gate[r])) /\ Ceiling(gate[r]) = DenialLimit + GraceDenials
          BY <4>2, <4>4, <4>5, <4>6
        <5>. QED BY <4>3, <4>5, <5>1, ConstantsAssumption DEF ConstantsAssumption
      <4>7. CASE ~g
        <5>1. d < DenialLimit /\ Ceiling(gate[r]) = DenialLimit
          BY <4>1, <4>2, <4>7
        <5>2. d + 1 < DenialLimit + GraceDenials
          BY <4>3, <5>1, ConstantsAssumption DEF ConstantsAssumption
        <5>3. ~new.grace => d + 1 < DenialLimit
          BY <4>3, <4>5, <5>1, ConstantsAssumption DEF ConstantsAssumption
        <5>. QED BY <4>5, <5>2, <5>3
      <4>. QED BY <4>6, <4>7
    <3>. HIDE DEF r, new
    <3>. QED BY <3>1, <3>2, <3>4 DEF BelowCeiling, TypeOK
  <2>. QED BY <2>1, <2>2
<1>9. \A s \in Sessions : /\ StartCompletion(s) => BelowCeiling'
                          /\ PromptRejected(s) => BelowCeiling'
                          /\ SetOutputContract(s) => BelowCeiling'
                          /\ DeleteSession(s) => BelowCeiling'
                          /\ \A r \in Runs : CancelExternal(s, r) => BelowCeiling'
                          /\ \A a \in Keys : /\ AuthorizeAuto(s, a) => BelowCeiling'
                                             /\ AuthorizeAsk(s, a) => BelowCeiling'
                          /\ \A contract, t, r : BeginMessageRun(s, contract, t, r)
                                                   => BelowCeiling'
  BY <1>1, <1>2 DEF StartCompletion, PromptRejected, SetOutputContract, DeleteSession,
     CancelExternal, AuthorizeAuto, AuthorizeAsk, BeginMessageRun, memory
<1>10. /\ \A r \in Runs : BeginPreparedRun(r) => BelowCeiling'
       /\ \A t, trigger, r : PrepareRun(t, trigger, r) => BelowCeiling'
       /\ \A a \in Keys : /\ Approve(a) => BelowCeiling'
                          /\ DenyInCard(a) => BelowCeiling'
                          /\ \A effect : RecordToolResult(a, effect) => BelowCeiling'
       /\ \A t \in Tasks : AcceptTask(t) => BelowCeiling'
  BY <1>2 DEF BeginPreparedRun, PrepareRun, Approve, DenyInCard, RecordToolResult, AcceptTask,
     memory
<1>11. ASSUME NEW c, NEW verdict, NEW delivery, FinishCompletion(c, verdict, delivery)
       PROVE  BelowCeiling'
  BY <1>1, <1>2, <1>11 DEF FinishCompletion
<1>12. ASSUME NEW first, Restart(first) PROVE BelowCeiling'
  <2>1. gate' = Forgotten(Runs)
    BY <1>12 DEF Restart, Forgotten
  <2>. QED BY <1>1, <2>1
<1>13. CASE Next
  BY <1>4, <1>5, <1>6, <1>7, <1>8, <1>9, <1>10, <1>11, <1>12, <1>13 DEF Next
<1>. QED BY <1>2, <1>13 DEF vars, memory

LEMMA InitOwned == Init => Owned /\ BelowCeiling
BY ConstantsAssumption DEF Init, Owned, RunExists, NoRow, NoRunRow, BelowCeiling, FreshGate,
   ConstantsAssumption

(* Every reachable state is well formed.  TypeOK is not inductive alone: a *)
(* completion reads the task of its run, which Owned says exists, and the  *)
(* range of the denial counters needs BelowCeiling.                        *)
TypeInv == TypeOK /\ Owned /\ BelowCeiling

THEOREM TypeInvariant == Spec => []TypeInv
<1>1. Init => TypeInv
  BY InitType, InitOwned DEF TypeInv
<1>2. TypeInv /\ [Next]_vars => TypeInv'
  BY NextType, NextOwned, NextBelow DEF TypeInv
<1>. QED BY <1>1, <1>2, PTL DEF Spec

(* Rows, counters and the running turns keep their types, and the denials  *)
(* of a run for want of an output contract stay below the ceiling that     *)
(* authorizeToolCall ends the run at, for any limit and grace.             *)
THEOREM TypeCorrect == Spec => []TypeOK
BY TypeInvariant, PTL DEF TypeInv
=============================================================================
