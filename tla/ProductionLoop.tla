---------------------------- MODULE ProductionLoop ----------------------------
(***************************************************************************)
(* The production workflow of one task and the agent loop that drives it   *)
(* (src/main/productionLoop, src/main/libs/agentEngine/piAgentLoop.ts and  *)
(* the agent_end handling of piRuntimeAdapter.ts).                         *)
(*                                                                         *)
(* The language model calls the production_loop and agent_loop tools in    *)
(* any order, several of them at once, and starts reviewers whose answers  *)
(* come late.  When it ends an iteration, the controller either sends it   *)
(* back to work or lets the turn settle, which verifies the run.  The next *)
(* message begins a run that takes the plan over.                          *)
(*                                                                         *)
(* progressVersion is kept as two facts: a successful tool result was      *)
(* observed at the current version, and the version has changed since the  *)
(* last recovery.  Left out: what a plan says, its artifacts, the          *)
(* downstream workflows, the limit on observed results.                    *)
(*                                                                         *)
(* A definition marked Mutant is the one after it with a fault, which      *)
(* nothing uses.                                                           *)
(***************************************************************************)
EXTENDS Integers

CONSTANTS
    Items,             \* items of the plan
    Reviewers,         \* tool calls that run the production reviewer
    NoCall,
    PrototypeRequired, \* the contract asks for a prototype
    StaleLimit,        \* MAX_STALE_PRODUCTION_ITERATIONS
    MaxIterations,     \* AGENT_LOOP_MAX_ITERATIONS
    MaxStarts,         \* bound: agent_loop start calls of the model
    MaxRuns            \* bound: runs of the task

ASSUME ItemAssumption == Items # {} /\ NoCall \notin Reviewers /\ PrototypeRequired \in BOOLEAN

ASSUME LimitAssumption == StaleLimit \in Nat \ {0} /\ MaxIterations \in Nat \ {0, 1}

ASSUME BoundAssumption == MaxStarts \in Nat /\ MaxRuns \in Nat \ {0}

VARIABLES
    active,       \* the controller holds a workflow: the run is not dormant
    state,        \* the persisted workflow; of the previous run while dormant
    skipAllowed,  \* the run may declare the workflow unnecessary
    loop,         \* the agent loop
    turn,         \* where the turn is
    reviewer,     \* what each reviewer works on
    starts, runs  \* counters of the bounds

productionVars == <<active, state, skipAllowed, loop, turn, reviewer, starts, runs>>

----------------------------------------------------------------------------
(* Types *)

Phase == {"explore", "plan", "execute", "inspect", "critique", "revise", "deliver"}

Status == {"active", "waiting_critic", "needs_revision", "ready_to_deliver", "completed"}

ItemStatus == {"pending", "in_progress", "completed", "blocked"}

\* "none" for every item: there is no plan yet.
Plan == [Items -> ItemStatus \cup {"none"}]

Verdict == {"none", "pass", "revise", "skipped"}

State == [phase : Phase, status : Status, skip : BOOLEAN, prototyped : BOOLEAN,
          items : Plan, evidence : BOOLEAN, progressed : BOOLEAN,
          stale : 0..StaleLimit, reason : BOOLEAN, verdict : Verdict,
          call : Reviewers \cup {NoCall}]

\* passes is 0 for a loop without a fixed length.
Loop == [active : BOOLEAN, passes : 0..1, step : 0..MaxIterations,
         next : BOOLEAN, wrapUp : BOOLEAN]

\* "settling": the iteration ended and may still be continued by a compaction.
Turn == {"running", "settling", "review", "done", "stopped"}

\* A reviewer works for the current critique request, for none or for an older one.
Review == {"idle", "current", "other"}

----------------------------------------------------------------------------
(* Helpers *)

Live == turn \in {"running", "settling"}

AllCompleted(s) == \A i \in Items : s.items[i] = "completed"

Planned(s) == \A i \in Items : s.items[i] # "none"

\* resolveInitialPhase
InitialPhase(s) ==
    IF Planned(s) THEN "execute"
    ELSE IF PrototypeRequired /\ ~ s.prototyped THEN "explore" ELSE "plan"

\* beginRun: the plan and the prototypes are taken over, nothing else.
Begun(s) ==
    [s EXCEPT !.phase = InitialPhase(s), !.status = "active", !.skip = FALSE,
              !.items = [i \in Items |-> IF s.items[i] = "in_progress" THEN "pending"
                                         ELSE s.items[i]],
              !.evidence = FALSE, !.progressed = FALSE, !.stale = 0,
              !.reason = FALSE, !.verdict = "none", !.call = NoCall]

\* activate: the first production action of a dormant run begins it.
Activated == IF active THEN state ELSE Begun(state)

\* progressVersion += 1
Changed(s) == [s EXCEPT !.evidence = FALSE, !.progressed = TRUE]

\* recordRecovery
Recovered(s) ==
    [s EXCEPT !.stale = IF s.progressed THEN 0
                        ELSE IF @ < StaleLimit THEN @ + 1 ELSE StaleLimit,
              !.progressed = FALSE]

\* What onAgentEnd lets finish.
MayFinish ==
    \/ ~ active
    \/ state.skip
    \/ state.status = "completed"
    \/ state.status = "ready_to_deliver" /\ state.reason

NewLoop(passes) ==
    [active |-> TRUE, passes |-> passes, step |-> 0, next |-> FALSE, wrapUp |-> FALSE]

\* finish and stop
ClosedLoop(l) == [l EXCEPT !.active = FALSE, !.next = FALSE]

----------------------------------------------------------------------------
(* The production_loop tool *)

Blank ==
    [phase |-> "plan", status |-> "active", skip |-> FALSE, prototyped |-> FALSE,
     items |-> [i \in Items |-> "none"], evidence |-> FALSE, progressed |-> FALSE,
     stale |-> 0, reason |-> FALSE, verdict |-> "none", call |-> NoCall]

\* startRun: the workflow is begun at once for a goal and for a task that
\* requires it, and deferred otherwise.
StartRun(s) ==
    \/ active' = FALSE /\ state' = s /\ skipAllowed' = TRUE
    \/ active' = TRUE /\ state' = Begun(s) /\ skipAllowed' \in BOOLEAN

Init ==
    /\ \/ active = FALSE /\ state = Blank /\ skipAllowed = TRUE
       \/ active = TRUE /\ state = Begun(Blank) /\ skipAllowed \in BOOLEAN
    /\ loop = NewLoop(0)
    /\ turn = "running"
    /\ reviewer = [r \in Reviewers |-> "idle"]
    /\ starts = 0
    /\ runs = 1

\* An action that may begin the workflow: it is begun even if the action is
\* then refused.
Acting(allowed, s) ==
    /\ Live
    /\ active' = TRUE
    /\ state' = IF allowed THEN s ELSE Activated
    /\ UNCHANGED <<skipAllowed, loop, turn, starts, runs>>

RecordPrototype ==
    /\ Acting(Activated.phase = "explore" /\ ~ Activated.skip,
              Changed([Activated EXCEPT !.prototyped = TRUE]))
    /\ UNCHANGED reviewer

CommitPlan ==
    /\ Acting(/\ ~ Activated.skip
              /\ \/ Activated.phase = "plan"
                 \/ Activated.phase = "explore" /\ (PrototypeRequired => Activated.prototyped),
              Changed([Activated EXCEPT !.phase = "execute",
                                        !.items = [i \in Items |-> "pending"]]))
    /\ UNCHANGED reviewer

\* skip_workflow: a second skip changes nothing.
SkipWorkflow ==
    /\ skipAllowed
    /\ Acting(Activated.phase \in {"explore", "plan"} /\ ~ Activated.skip,
              Changed([Activated EXCEPT !.skip = TRUE, !.status = "completed"]))
    /\ UNCHANGED reviewer

\* mutate: the actions that need a workflow that was not skipped.
Mutate(s) ==
    /\ Live
    /\ active
    /\ ~ state.skip
    /\ state' = s
    /\ UNCHANGED <<active, skipAllowed, loop, turn, starts, runs>>

\* Mutant: the phase is not looked at.
UpdatePlanItemAnytime(i, status) ==
    /\ Planned(state)
    /\ state.items[i] # status
    /\ Mutate(Changed([state EXCEPT !.items[i] = status]))
    /\ UNCHANGED reviewer

UpdatePlanItem(i, status) ==
    /\ state.phase \in {"execute", "revise"}
    /\ state.items[i] # status
    /\ Mutate(Changed([state EXCEPT !.items[i] = status]))
    /\ UNCHANGED reviewer

\* Deterministic verifiers must refer to a result observed at this version.
StartInspection ==
    /\ AllCompleted(state)
    /\ state.evidence
    /\ state.phase \in {"execute", "inspect", "revise"}
    /\ Mutate(Changed([state EXCEPT !.phase = "inspect"]))
    /\ UNCHANGED reviewer

\* requestCritique: what a reviewer does for an earlier request is void.
RequestCritique ==
    /\ state.phase \in {"inspect", "critique"}
    /\ Mutate(Changed([state EXCEPT !.phase = "critique", !.status = "waiting_critic",
                                    !.verdict = "none", !.call = NoCall]))
    /\ reviewer' = [r \in Reviewers |-> IF reviewer[r] = "idle" THEN "idle" ELSE "other"]

\* requestCritique in lightweight mode, with skipCritique.
SkipCritique ==
    /\ state.phase \in {"inspect", "critique"}
    /\ Mutate(Changed([state EXCEPT !.phase = "deliver", !.status = "ready_to_deliver",
                                    !.verdict = "skipped", !.call = NoCall]))
    /\ reviewer' = [r \in Reviewers |-> IF reviewer[r] = "idle" THEN "idle" ELSE "other"]

RecordRevision ==
    /\ state.phase = "revise"
    /\ Mutate(Changed([state EXCEPT !.status = "active"]))
    /\ UNCHANGED reviewer

\* recordToolResult: any tool that succeeds leaves evidence.
ToolResult ==
    /\ Live
    /\ active
    /\ state' = [state EXCEPT !.evidence = TRUE]
    /\ UNCHANGED <<active, skipAllowed, loop, turn, reviewer, starts, runs>>

----------------------------------------------------------------------------
(* Reviewers *)

\* recordSubagentStart: only a reviewer of the critique phase is waited for.
StartReviewer(r) ==
    /\ Live
    /\ reviewer[r] = "idle"
    /\ state.call # r
    /\ IF active /\ state.phase = "critique"
       THEN /\ state' = [state EXCEPT !.call = r]
            /\ reviewer' = [reviewer EXCEPT ![r] = "current"]
       ELSE /\ state' = state
            /\ reviewer' = [reviewer EXCEPT ![r] = "other"]
    /\ UNCHANGED <<active, skipAllowed, loop, turn, starts, runs>>

Verdicts(s) ==
    {Changed([s EXCEPT !.phase = "deliver", !.status = "ready_to_deliver", !.verdict = "pass"]),
     Changed([s EXCEPT !.phase = "revise", !.status = "needs_revision", !.verdict = "revise"]),
     Changed([s EXCEPT !.call = NoCall])}

\* Mutant: the result is not matched with the reviewer that is waited for.
ReviewerResultAny(r) ==
    /\ Live
    /\ reviewer[r] # "idle"
    /\ reviewer' = [reviewer EXCEPT ![r] = "idle"]
    /\ IF active /\ state.phase = "critique"
       THEN state' \in Verdicts(state)
       ELSE state' \in {state, [state EXCEPT !.evidence = active]}
    /\ UNCHANGED <<active, skipAllowed, loop, turn, starts, runs>>

\* recordSubagentResult: it passes, asks for a revision, as a failed or unreadable
\* one does, or timed out.  Any other reviewer is an ordinary tool.
ReviewerResult(r) ==
    /\ Live
    /\ reviewer[r] # "idle"
    /\ reviewer' = [reviewer EXCEPT ![r] = "idle"]
    /\ IF active /\ state.call = r
       THEN state' \in Verdicts(state)
       ELSE state' \in {state, [state EXCEPT !.evidence = active]}
    /\ UNCHANGED <<active, skipAllowed, loop, turn, starts, runs>>

----------------------------------------------------------------------------
(* The agent_loop tool *)

\* start: a loop that runs is replaced, with or without a workflow.
LoopStart(passes) ==
    /\ Live
    /\ starts < MaxStarts
    /\ starts' = starts + 1
    /\ loop' = NewLoop(passes)
    /\ UNCHANGED <<active, state, skipAllowed, turn, reviewer, runs>>

\* next: the last pass closes the loop.
LoopNext ==
    /\ Live
    /\ loop.active
    /\ loop' = IF loop.passes > 0 /\ loop.step + 1 >= loop.passes THEN ClosedLoop(loop)
               ELSE [loop EXCEPT !.next = TRUE]
    /\ UNCHANGED <<active, state, skipAllowed, turn, reviewer, starts, runs>>

\* done, with requestCompletion.
LoopDone ==
    /\ Live
    /\ loop.active
    /\ active
    /\ ~ state.skip
    /\ state' = IF state.status = "ready_to_deliver" THEN [state EXCEPT !.reason = TRUE]
                ELSE Recovered(state)
    /\ UNCHANGED <<active, skipAllowed, loop, turn, reviewer, starts, runs>>

----------------------------------------------------------------------------
(* The end of an iteration and of the turn *)

\* Mutant: no wrap-up for a loop with a workflow.
NextIterationUncapped(l) == [l EXCEPT !.step = IF @ <= MaxIterations THEN @ + 1 ELSE @,
                                      !.next = FALSE]

\* The next iteration, the last allowed one as the wrap-up.
NextIteration(l) == [l EXCEPT !.step = @ + 1, !.next = FALSE,
                              !.wrapUp = l.step + 1 >= MaxIterations - 1]

\* agent_end of a loop that is over or may finish.
EndTurn ==
    /\ Live
    /\ ~ loop.active \/ MayFinish
    /\ turn' = "settling"
    /\ loop' = ClosedLoop(loop)
    /\ UNCHANGED <<active, state, skipAllowed, reviewer, starts, runs>>

\* agent_end of a loop that must go on: a missing signal counts as a recovery,
\* no progress for too long stops the session, and the end of the wrap-up
\* closes the loop.
EndIteration ==
    /\ Live
    /\ loop.active
    /\ ~ MayFinish
    /\ state' = IF loop.next THEN state ELSE Recovered(state)
    /\ \/ /\ loop.wrapUp
          /\ loop' = ClosedLoop(NextIteration(loop))
          /\ turn' = "settling"
       \/ /\ ~ loop.wrapUp
          /\ state'.stale < StaleLimit
          /\ loop' = NextIteration(loop)
          /\ turn' = "running"
       \/ /\ ~ loop.wrapUp
          /\ state'.stale >= StaleLimit
          /\ loop' = ClosedLoop(NextIteration(loop))
          /\ turn' = "stopped"
    /\ UNCHANGED <<active, skipAllowed, reviewer, starts, runs>>

AgentEnd == EndTurn \/ EndIteration

\* Mutant: the outcome is recorded whatever the workflow says.
VerifiedAnyway(s, outcome) ==
    IF outcome = "passed" THEN [s EXCEPT !.status = "completed"] ELSE s

\* recordVerificationResult
Verified(s, outcome) ==
    IF ~ active \/ s.status # "ready_to_deliver" \/ ~ s.reason THEN s
    ELSE IF outcome = "passed" THEN [s EXCEPT !.status = "completed"]
    ELSE IF outcome = "failed"
    THEN [s EXCEPT !.phase = "revise", !.status = "needs_revision",
                   !.verdict = "none", !.call = NoCall, !.reason = FALSE]
    ELSE s

\* agent_settled: the run is verified, which completes the task or leaves it
\* for review.  What verification finds is left open.
Settle ==
    /\ turn = "settling"
    /\ \E outcome \in {"passed", "failed", "acceptance_required"} :
          /\ state' = Verified(state, outcome)
          /\ turn' = IF outcome = "passed" THEN "done" ELSE "review"
    /\ reviewer' = [r \in Reviewers |-> "idle"]
    /\ UNCHANGED <<active, skipAllowed, loop, starts, runs>>

\* acceptTask
Accept ==
    /\ turn = "review"
    /\ state' = Verified(state, "passed")
    /\ turn' = "done"
    /\ UNCHANGED <<active, skipAllowed, loop, reviewer, starts, runs>>

\* The session is stopped: its reviewers are aborted.
Stop ==
    /\ Live
    /\ turn' = "stopped"
    /\ loop' = ClosedLoop(loop)
    /\ reviewer' = [r \in Reviewers |-> "idle"]
    /\ UNCHANGED <<active, state, skipAllowed, starts, runs>>

\* The next message of an open task: a loop that still runs is kept.
NewMessage ==
    /\ turn \in {"review", "stopped"}
    /\ runs < MaxRuns
    /\ runs' = runs + 1
    /\ turn' = "running"
    /\ StartRun(state)
    /\ loop' = IF loop.active THEN loop ELSE NewLoop(0)
    /\ UNCHANGED <<reviewer, starts>>

----------------------------------------------------------------------------

ProductionTool ==
    \/ RecordPrototype \/ CommitPlan \/ SkipWorkflow
    \/ \E i \in Items, status \in ItemStatus : UpdatePlanItem(i, status)
    \/ StartInspection \/ RequestCritique \/ SkipCritique \/ RecordRevision
    \/ ToolResult

Next ==
    \/ ProductionTool
    \/ \E r \in Reviewers : StartReviewer(r) \/ ReviewerResult(r)
    \/ \E passes \in 0..1 : LoopStart(passes)
    \/ LoopNext \/ LoopDone
    \/ AgentEnd \/ Settle \/ Accept \/ Stop \/ NewMessage

Spec == Init /\ [][Next]_productionVars

\* The language model may call tools for long, but it ends each iteration, since
\* every tool has a time limit; the runtime, or its fallback timer, then settles
\* the turn.
Fairness == WF_productionVars(AgentEnd) /\ WF_productionVars(Settle)

FairSpec == Spec /\ Fairness

----------------------------------------------------------------------------
(* Properties *)

TypeOK ==
    /\ active \in BOOLEAN
    /\ state \in State
    /\ skipAllowed \in BOOLEAN
    /\ loop \in Loop
    /\ turn \in Turn
    /\ reviewer \in [Reviewers -> Review]
    /\ starts \in 0..MaxStarts
    /\ runs \in 1..MaxRuns

\* A workflow is ready to deliver only with a plan whose items are all completed
\* and after the critique of this run: no order of tool calls, late reviewer or
\* new run brings an unreviewed or reopened plan to delivery (startInspection,
\* recordCriticResult, skipCritique, beginRun).
ReadyIsReviewed ==
    active /\ state.status = "ready_to_deliver" =>
        /\ state.phase = "deliver"
        /\ AllCompleted(state)
        /\ state.verdict \in {"pass", "skipped"}

\* The reviewer whose verdict is waited for was started for the current request:
\* a reviewer of an earlier request cannot pass the work (requestCritique,
\* recordSubagentStart, recordSubagentResult).
VerdictIsCurrent ==
    [][state'.verdict = "pass" /\ state.verdict # "pass" =>
          \E r \in Reviewers : reviewer[r] = "current" /\ reviewer'[r] = "idle"]_productionVars

\* A workflow is completed only when it was skipped before its plan or when its
\* reviewed delivery was requested and then verified or accepted (skipWorkflow,
\* recordDeliveryRequest, recordVerificationResult).
CompletedIsDelivered ==
    active /\ state.status = "completed" =>
        IF state.skip THEN state.phase \in {"explore", "plan"}
        ELSE /\ state.phase = "deliver"
             /\ AllCompleted(state)
             /\ state.verdict \in {"pass", "skipped"}
             /\ state.reason
             /\ turn = "done"

\* A turn ends although the model never delivers, as long as it does not start
\* the agent loop anew for ever (MAX_STALE_PRODUCTION_ITERATIONS and
\* AGENT_LOOP_MAX_ITERATIONS).
TurnEnds == Live ~> ~ Live

\* A turn with an active workflow ends with its delivery, unless the iteration
\* limit closes the loop (comment of verifyWorkbenchRun).
EnforcedBeforeAgentEnd ==
    [][EndTurn /\ active /\ turn = "running" => state.skip \/ state.reason]_productionVars

=============================================================================
