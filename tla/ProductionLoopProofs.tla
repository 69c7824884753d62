------------------------- MODULE ProductionLoopProofs -------------------------
(***************************************************************************)
(* Proofs about ProductionLoop, for every value of its constants.          *)
(***************************************************************************)
EXTENDS ProductionLoop, TLAPS

----------------------------------------------------------------------------
(* The inductive invariant *)

\* What holds of the persisted workflow whether or not this run has begun it.
Reviewed(s) ==
    /\ s.status = "ready_to_deliver" => s.phase = "deliver" /\ s.verdict \in {"pass", "skipped"}
    /\ s.phase \in {"inspect", "critique", "deliver"} => AllCompleted(s)
    /\ s.skip => s.phase \in {"explore", "plan"} /\ s.status = "completed"
    /\ s.status = "completed" /\ ~ s.skip =>
          s.phase = "deliver" /\ s.verdict \in {"pass", "skipped"} /\ s.reason

\* A completed delivery ends the turn, and no run follows it.
Delivered == state.status = "completed" /\ ~ state.skip => turn = "done"

\* The reviewer that is waited for works on the current request.
Awaited ==
    \A r \in Reviewers :
        state.call = r /\ reviewer[r] # "idle" =>
            reviewer[r] = "current" /\ state.phase = "critique"

\* Only the wrap-up iteration is the last one.
LoopBounded ==
    loop.active => /\ loop.step < MaxIterations
                   /\ ~ loop.wrapUp => loop.step < MaxIterations - 1

IInv == TypeOK /\ Reviewed(state) /\ Delivered /\ Awaited /\ LoopBounded

----------------------------------------------------------------------------
(* Helpers *)

\* beginRun makes a well-formed workflow that is neither ready nor completed.
LEMMA BegunState ==
  ASSUME NEW s \in State
  PROVE  /\ Begun(s) \in State
         /\ Reviewed(Begun(s))
         /\ Begun(s).status = "active" /\ Begun(s).call = NoCall
         /\ ~ Begun(s).skip
<1>1. InitialPhase(s) \in {"execute", "explore", "plan"}
  BY DEF InitialPhase
<1>2. [i \in Items |-> IF s.items[i] = "in_progress" THEN "pending" ELSE s.items[i]] \in Plan
  BY DEF State, Plan, ItemStatus
<1>3. Begun(s) \in State
  <2>1. 0 \in 0..StaleLimit
    BY LimitAssumption
  <2>. QED BY <1>1, <1>2, <2>1 DEF Begun, State, Phase, Status, Verdict
<1>4. /\ Begun(s).status = "active" /\ Begun(s).call = NoCall /\ ~ Begun(s).skip
      /\ Begun(s).phase \in {"execute", "explore", "plan"}
  BY <1>1 DEF Begun, State
<1>. QED BY <1>3, <1>4 DEF Reviewed

LEMMA BlankState ==
  /\ Blank \in State /\ Reviewed(Blank)
  /\ Blank.status = "active" /\ ~ Blank.skip /\ Blank.call = NoCall
<1>1. [i \in Items |-> "none"] \in Plan
  BY DEF Plan
<1>2. 0 \in 0..StaleLimit
  BY LimitAssumption
<1>. QED BY <1>1, <1>2 DEF Blank, State, Phase, Status, Verdict, Reviewed

\* progressVersion += 1 leaves everything the invariant speaks of.
LEMMA ChangedState ==
  ASSUME NEW s \in State
  PROVE  /\ Changed(s) \in State
         /\ Changed(s).phase = s.phase /\ Changed(s).status = s.status
         /\ Changed(s).skip = s.skip /\ Changed(s).items = s.items
         /\ Changed(s).verdict = s.verdict /\ Changed(s).reason = s.reason
         /\ Changed(s).call = s.call
BY DEF Changed, State

\* recordRecovery counts up to its limit and changes nothing else.
LEMMA RecoveredState ==
  ASSUME NEW s \in State
  PROVE  /\ Recovered(s) \in State
         /\ Recovered(s).phase = s.phase /\ Recovered(s).status = s.status
         /\ Recovered(s).skip = s.skip /\ Recovered(s).items = s.items
         /\ Recovered(s).verdict = s.verdict /\ Recovered(s).reason = s.reason
         /\ Recovered(s).call = s.call
<1>1. s.stale \in 0..StaleLimit
  BY DEF State
<1>2. (IF s.progressed THEN 0 ELSE IF s.stale < StaleLimit THEN s.stale + 1 ELSE StaleLimit)
        \in 0..StaleLimit
  BY <1>1, LimitAssumption
<1>. QED BY <1>2 DEF Recovered, State

\* Two workflows that agree on what Reviewed looks at.
LEMMA ReviewedAgrees ==
  ASSUME NEW s, NEW u, Reviewed(s),
         u.phase = s.phase, u.status = s.status, u.skip = s.skip, u.items = s.items,
         u.verdict = s.verdict, u.reason = s.reason
  PROVE  Reviewed(u)
BY DEF Reviewed, AllCompleted

LEMMA ActivatedState ==
  ASSUME IInv
  PROVE  /\ Activated \in State
         /\ Reviewed(Activated)
         /\ Activated.status = "completed" /\ ~ Activated.skip => turn = "done"
         /\ \A r \in Reviewers :
               Activated.call = r /\ reviewer[r] # "idle" =>
                   reviewer[r] = "current" /\ Activated.phase = "critique"
<1>1. state \in State
  BY DEF IInv, TypeOK
<1>. QED BY <1>1, BegunState, ItemAssumption DEF Activated, IInv, Delivered, Awaited

----------------------------------------------------------------------------
(* Steps that leave the turn and the agent loop alone *)

LEMMA KeptTurn ==
  ASSUME IInv, UNCHANGED <<skipAllowed, loop, turn, starts, runs>>,
         active' \in BOOLEAN, state' \in State, Reviewed(state'),
         state'.status = "completed" /\ ~ state'.skip => turn = "done",
         reviewer' \in [Reviewers -> Review], Awaited'
  PROVE  IInv'
BY DEF IInv, TypeOK, Delivered, LoopBounded

\* An action that begins the workflow, and is perhaps refused.
LEMMA ActingKeeps ==
  ASSUME IInv, NEW allowed \in BOOLEAN, NEW s \in State, Acting(allowed, s), UNCHANGED reviewer,
         allowed => /\ Reviewed(s)
                    /\ s.call = Activated.call
                    /\ Activated.phase = "critique" => s.phase = "critique"
                    /\ s.status = "completed" /\ ~ s.skip => Activated.status = "completed" /\ ~ Activated.skip
  PROVE  IInv'
<1>1. state' \in State /\ Reviewed(state') /\ active' \in BOOLEAN
  BY ActivatedState DEF Acting
<1>2. state'.status = "completed" /\ ~ state'.skip => turn = "done"
  BY ActivatedState DEF Acting
<1>3. Awaited'
  BY ActivatedState DEF Acting, Awaited
<1>4. reviewer' \in [Reviewers -> Review]
  BY DEF IInv, TypeOK
<1>. QED BY <1>1, <1>2, <1>3, <1>4, KeptTurn DEF Acting

LEMMA RecordPrototypeKeeps ==
  ASSUME IInv, RecordPrototype
  PROVE  IInv'
<1> DEFINE s == [Activated EXCEPT !.prototyped = TRUE]
<1> DEFINE allowed == Activated.phase = "explore" /\ ~ Activated.skip
<1>1. /\ s \in State /\ s.phase = Activated.phase /\ s.status = Activated.status
      /\ s.skip = Activated.skip /\ s.items = Activated.items /\ s.verdict = Activated.verdict
      /\ s.reason = Activated.reason /\ s.call = Activated.call
  BY ActivatedState DEF State
<1>2. Reviewed(s)
  BY <1>1, ActivatedState, ReviewedAgrees
<1>3. Acting(allowed, Changed(s)) /\ UNCHANGED reviewer /\ allowed \in BOOLEAN
  BY DEF RecordPrototype
<1> HIDE DEF s, allowed
<1>4. /\ Changed(s) \in State /\ Reviewed(Changed(s)) /\ Changed(s).call = s.call
      /\ Changed(s).phase = s.phase /\ Changed(s).status = s.status /\ Changed(s).skip = s.skip
  BY <1>1, <1>2, ChangedState, ReviewedAgrees
<1>. QED BY <1>1, <1>3, <1>4, ActingKeeps

LEMMA CommitPlanKeeps ==
  ASSUME IInv, CommitPlan
  PROVE  IInv'
<1> DEFINE s == [Activated EXCEPT !.phase = "execute", !.items = [i \in Items |-> "pending"]]
<1> DEFINE allowed == /\ ~ Activated.skip
                      /\ \/ Activated.phase = "plan"
                         \/ Activated.phase = "explore" /\ (PrototypeRequired => Activated.prototyped)
<1>0. [i \in Items |-> "pending"] \in Plan
  BY DEF Plan, ItemStatus
<1>1. /\ s \in State /\ s.phase = "execute" /\ s.status = Activated.status
      /\ s.skip = Activated.skip /\ s.call = Activated.call
  BY <1>0, ActivatedState DEF State, Phase
<1>2. Acting(allowed, Changed(s)) /\ UNCHANGED reviewer
  BY DEF CommitPlan
<1>a. allowed \in BOOLEAN
  OBVIOUS
<1>3. allowed => /\ Activated.phase \in {"plan", "explore"} /\ ~ Activated.skip
                 /\ Activated.status \notin {"ready_to_deliver", "completed"}
  BY ActivatedState DEF Reviewed
<1> HIDE DEF s, allowed
<1>4. /\ Changed(s) \in State /\ Changed(s).call = s.call
      /\ Changed(s).phase = s.phase /\ Changed(s).status = s.status /\ Changed(s).skip = s.skip
  BY <1>1, ChangedState
<1>5. allowed => Reviewed(Changed(s))
  BY <1>1, <1>3, <1>4 DEF Reviewed
<1>. QED BY <1>1, <1>2, <1>a, <1>3, <1>4, <1>5, ActingKeeps

LEMMA SkipWorkflowKeeps ==
  ASSUME IInv, SkipWorkflow
  PROVE  IInv'
<1> DEFINE s == [Activated EXCEPT !.skip = TRUE, !.status = "completed"]
<1> DEFINE allowed == Activated.phase \in {"explore", "plan"} /\ ~ Activated.skip
<1>1. /\ s \in State /\ s.phase = Activated.phase /\ s.status = "completed"
      /\ s.skip /\ s.call = Activated.call
  BY ActivatedState DEF State, Status
<1>2. Acting(allowed, Changed(s)) /\ UNCHANGED reviewer /\ allowed \in BOOLEAN
  BY DEF SkipWorkflow
<1>3. allowed => Activated.phase \in {"explore", "plan"}
  OBVIOUS
<1> HIDE DEF s, allowed
<1>4. /\ Changed(s) \in State /\ Changed(s).call = s.call
      /\ Changed(s).phase = s.phase /\ Changed(s).status = s.status /\ Changed(s).skip = s.skip
  BY <1>1, ChangedState
<1>5. allowed => Reviewed(Changed(s))
  BY <1>1, <1>3, <1>4 DEF Reviewed
<1>. QED BY <1>1, <1>2, <1>3, <1>4, <1>5, ActingKeeps

\* The tools that need a workflow.
LEMMA MutateKeeps ==
  ASSUME IInv, NEW s \in State, Mutate(s), Reviewed(s), s.status # "completed",
         reviewer' \in [Reviewers -> Review],
         \A r \in Reviewers : s.call = r /\ reviewer'[r] # "idle" =>
             reviewer'[r] = "current" /\ s.phase = "critique"
  PROVE  IInv'
<1>1. Awaited' /\ state' \in State /\ active' \in BOOLEAN /\ Reviewed(state')
  BY DEF Mutate, Awaited, IInv, TypeOK
<1>. QED BY <1>1, KeptTurn DEF Mutate

\* A live turn has no completed delivery behind it.
LEMMA LiveNotCompleted ==
  ASSUME IInv, Live, ~ state.skip
  PROVE  state.status # "completed"
BY DEF IInv, Delivered, Live

LEMMA UpdatePlanItemKeeps ==
  ASSUME IInv, NEW i \in Items, NEW status \in ItemStatus, UpdatePlanItem(i, status)
  PROVE  IInv'
<1> DEFINE s == [state EXCEPT !.items[i] = status]
<1>0. state \in State /\ Live /\ ~ state.skip
  BY DEF IInv, TypeOK, UpdatePlanItem, Mutate
<1>1. [state.items EXCEPT ![i] = status] \in Plan
  BY <1>0 DEF State, Plan
<1>2. /\ s \in State /\ s.phase = state.phase /\ s.status = state.status
      /\ s.skip = state.skip /\ s.call = state.call
  BY <1>0, <1>1 DEF State
<1>3. Mutate(Changed(s)) /\ UNCHANGED reviewer /\ state.phase \in {"execute", "revise"}
  BY DEF UpdatePlanItem
<1> HIDE DEF s
<1>4. /\ Changed(s) \in State /\ Changed(s).call = s.call
      /\ Changed(s).phase = s.phase /\ Changed(s).status = s.status /\ Changed(s).skip = s.skip
  BY <1>2, ChangedState
<1>5. state.status \notin {"ready_to_deliver", "completed"}
  BY <1>0, <1>3, LiveNotCompleted DEF IInv, Reviewed
<1>6. Reviewed(Changed(s))
  BY <1>0, <1>2, <1>3, <1>4, <1>5 DEF Reviewed
<1>7. \A r \in Reviewers : Changed(s).call = r /\ reviewer'[r] # "idle" =>
          reviewer'[r] = "current" /\ Changed(s).phase = "critique"
  BY <1>2, <1>3, <1>4 DEF IInv, Awaited
<1>. QED BY <1>2, <1>3, <1>4, <1>5, <1>6, <1>7, MutateKeeps DEF IInv, TypeOK

LEMMA StartInspectionKeeps ==
  ASSUME IInv, StartInspection
  PROVE  IInv'
<1> DEFINE s == [state EXCEPT !.phase = "inspect"]
<1>0. state \in State /\ Live /\ ~ state.skip /\ AllCompleted(state)
      /\ state.phase \in {"execute", "inspect", "revise"}
  BY DEF IInv, TypeOK, StartInspection, Mutate
<1>2. /\ s \in State /\ s.phase = "inspect" /\ s.status = state.status
      /\ s.skip = state.skip /\ s.call = state.call /\ s.items = state.items
  BY <1>0 DEF State, Phase
<1>3. Mutate(Changed(s)) /\ UNCHANGED reviewer
  BY DEF StartInspection
<1> HIDE DEF s
<1>4. /\ Changed(s) \in State /\ Changed(s).call = s.call /\ Changed(s).items = s.items
      /\ Changed(s).phase = s.phase /\ Changed(s).status = s.status /\ Changed(s).skip = s.skip
  BY <1>2, ChangedState
<1>5. state.status \notin {"ready_to_deliver", "completed"}
  BY <1>0, LiveNotCompleted DEF IInv, Reviewed
<1>6. Reviewed(Changed(s))
  BY <1>0, <1>2, <1>4, <1>5 DEF Reviewed, AllCompleted
<1>7. \A r \in Reviewers : Changed(s).call = r /\ reviewer'[r] # "idle" =>
          reviewer'[r] = "current" /\ Changed(s).phase = "critique"
  BY <1>0, <1>2, <1>3, <1>4 DEF IInv, Awaited
<1>. QED BY <1>2, <1>3, <1>4, <1>5, <1>6, <1>7, MutateKeeps DEF IInv, TypeOK

LEMMA RequestCritiqueKeeps ==
  ASSUME IInv, RequestCritique
  PROVE  IInv'
<1> DEFINE s == [state EXCEPT !.phase = "critique", !.status = "waiting_critic",
                              !.verdict = "none", !.call = NoCall]
<1>0. state \in State /\ Live /\ ~ state.skip /\ AllCompleted(state)
  BY DEF IInv, TypeOK, RequestCritique, Mutate, Reviewed
<1>2. /\ s \in State /\ s.phase = "critique" /\ s.status = "waiting_critic"
      /\ s.skip = state.skip /\ s.call = NoCall /\ s.items = state.items
  BY <1>0 DEF State, Phase, Status, Verdict
<1>3. /\ Mutate(Changed(s))
      /\ reviewer' = [r \in Reviewers |-> IF reviewer[r] = "idle" THEN "idle" ELSE "other"]
  BY DEF RequestCritique
<1> HIDE DEF s
<1>4. /\ Changed(s) \in State /\ Changed(s).call = s.call /\ Changed(s).items = s.items
      /\ Changed(s).phase = s.phase /\ Changed(s).status = s.status /\ Changed(s).skip = s.skip
  BY <1>2, ChangedState
<1>5. Reviewed(Changed(s))
  BY <1>0, <1>2, <1>4 DEF Reviewed, AllCompleted
<1>6. reviewer' \in [Reviewers -> Review]
  BY <1>3 DEF Review
<1>7. \A r \in Reviewers : Changed(s).call # r
  BY <1>2, <1>4, ItemAssumption
<1>. QED BY <1>2, <1>3, <1>4, <1>5, <1>6, <1>7, MutateKeeps

LEMMA SkipCritiqueKeeps ==
  ASSUME IInv, SkipCritique
  PROVE  IInv'
<1> DEFINE s == [state EXCEPT !.phase = "deliver", !.status = "ready_to_deliver",
                              !.verdict = "skipped", !.call = NoCall]
<1>0. state \in State /\ Live /\ ~ state.skip /\ AllCompleted(state)
  BY DEF IInv, TypeOK, SkipCritique, Mutate, Reviewed
<1>2. /\ s \in State /\ s.phase = "deliver" /\ s.status = "ready_to_deliver"
      /\ s.skip = state.skip /\ s.call = NoCall /\ s.items = state.items /\ s.verdict = "skipped"
  BY <1>0 DEF State, Phase, Status, Verdict
<1>3. /\ Mutate(Changed(s))
      /\ reviewer' = [r \in Reviewers |-> IF reviewer[r] = "idle" THEN "idle" ELSE "other"]
  BY DEF SkipCritique
<1> HIDE DEF s
<1>4. /\ Changed(s) \in State /\ Changed(s).call = s.call /\ Changed(s).items = s.items
      /\ Changed(s).phase = s.phase /\ Changed(s).status = s.status /\ Changed(s).skip = s.skip
      /\ Changed(s).verdict = s.verdict
  BY <1>2, ChangedState
<1>5. Reviewed(Changed(s))
  BY <1>0, <1>2, <1>4 DEF Reviewed, AllCompleted
<1>6. reviewer' \in [Reviewers -> Review]
  BY <1>3 DEF Review
<1>7. \A r \in Reviewers : Changed(s).call # r
  BY <1>2, <1>4, ItemAssumption
<1>. QED BY <1>2, <1>3, <1>4, <1>5, <1>6, <1>7, MutateKeeps

LEMMA RecordRevisionKeeps ==
  ASSUME IInv, RecordRevision
  PROVE  IInv'
<1> DEFINE s == [state EXCEPT !.status = "active"]
<1>0. state \in State /\ Live /\ ~ state.skip /\ state.phase = "revise"
  BY DEF IInv, TypeOK, RecordRevision, Mutate
<1>2. /\ s \in State /\ s.phase = "revise" /\ s.status = "active"
      /\ s.skip = state.skip /\ s.call = state.call
  BY <1>0 DEF State, Status
<1>3. Mutate(Changed(s)) /\ UNCHANGED reviewer
  BY DEF RecordRevision
<1> HIDE DEF s
<1>4. /\ Changed(s) \in State /\ Changed(s).call = s.call
      /\ Changed(s).phase = s.phase /\ Changed(s).status = s.status /\ Changed(s).skip = s.skip
  BY <1>2, ChangedState
<1>5. Reviewed(Changed(s))
  BY <1>0, <1>2, <1>4 DEF Reviewed
<1>6. \A r \in Reviewers : Changed(s).call = r /\ reviewer'[r] # "idle" =>
          reviewer'[r] = "current" /\ Changed(s).phase = "critique"
  BY <1>0, <1>2, <1>3, <1>4 DEF IInv, Awaited
<1>. QED BY <1>2, <1>3, <1>4, <1>5, <1>6, MutateKeeps DEF IInv, TypeOK

\* A state that differs from the workflow in its evidence, its counter of
\* recoveries or the reviewer it waits for.
LEMMA SameWorkflow ==
  ASSUME IInv, UNCHANGED <<skipAllowed, loop, turn, starts, runs, active>>,
         state' \in State, reviewer' \in [Reviewers -> Review], Awaited',
         state'.phase = state.phase, state'.status = state.status, state'.skip = state.skip,
         state'.items = state.items, state'.verdict = state.verdict, state'.reason = state.reason
  PROVE  IInv'
<1>1. Reviewed(state')
  BY ReviewedAgrees DEF IInv
<1>. QED BY <1>1, KeptTurn DEF IInv, TypeOK, Delivered

LEMMA ToolResultKeeps ==
  ASSUME IInv, ToolResult
  PROVE  IInv'
<1>1. /\ state' \in State /\ state'.call = state.call
      /\ state'.phase = state.phase /\ state'.status = state.status /\ state'.skip = state.skip
      /\ state'.items = state.items /\ state'.verdict = state.verdict /\ state'.reason = state.reason
  BY DEF IInv, TypeOK, ToolResult, State
<1>2. Awaited' /\ reviewer' \in [Reviewers -> Review]
  BY <1>1 DEF IInv, Awaited, TypeOK, ToolResult
<1>. QED BY <1>1, <1>2, SameWorkflow DEF ToolResult

----------------------------------------------------------------------------
(* Reviewers *)

LEMMA StartReviewerKeeps ==
  ASSUME IInv, NEW r \in Reviewers, StartReviewer(r)
  PROVE  IInv'
<1>0. state \in State /\ reviewer \in [Reviewers -> Review]
  BY DEF IInv, TypeOK
<1>1. CASE active /\ state.phase = "critique"
  <2>1. state' = [state EXCEPT !.call = r] /\ reviewer' = [reviewer EXCEPT ![r] = "current"]
    BY <1>1 DEF StartReviewer
  <2>2. /\ state' \in State /\ state'.call = r
        /\ state'.phase = state.phase /\ state'.status = state.status /\ state'.skip = state.skip
        /\ state'.items = state.items /\ state'.verdict = state.verdict /\ state'.reason = state.reason
    BY <1>0, <2>1 DEF State
  <2>3. reviewer' \in [Reviewers -> Review] /\ reviewer'[r] = "current"
    BY <1>0, <2>1 DEF Review
  <2>4. Awaited'
    BY <1>1, <2>2, <2>3 DEF Awaited
  <2>. QED BY <2>2, <2>3, <2>4, SameWorkflow DEF StartReviewer
<1>2. CASE ~ (active /\ state.phase = "critique")
  <2>1. state' = state /\ reviewer' = [reviewer EXCEPT ![r] = "other"] /\ state.call # r
    BY <1>2 DEF StartReviewer
  <2>2. reviewer' \in [Reviewers -> Review]
    BY <1>0, <2>1 DEF Review
  <2>3. Awaited'
    BY <1>0, <2>1 DEF IInv, Awaited
  <2>. QED BY <1>0, <2>1, <2>2, <2>3, SameWorkflow DEF StartReviewer
<1>. QED BY <1>1, <1>2

\* The three ways a verdict of the reviewer in the critique phase ends.
LEMMA VerdictsReviewed ==
  ASSUME NEW s \in State, Reviewed(s), s.phase = "critique", NEW u \in Verdicts(s)
  PROVE  /\ u \in State /\ Reviewed(u) /\ u.status # "completed" /\ u.call \in {s.call, NoCall}
         /\ u.phase = "critique" \/ u.call = s.call
<1> DEFINE passed == [s EXCEPT !.phase = "deliver", !.status = "ready_to_deliver", !.verdict = "pass"]
           revise == [s EXCEPT !.phase = "revise", !.status = "needs_revision", !.verdict = "revise"]
           timedOut == [s EXCEPT !.call = NoCall]
<1>0. ~ s.skip /\ AllCompleted(s) /\ s.status \notin {"ready_to_deliver", "completed"}
  BY DEF Reviewed, State
<1>1. u \in {Changed(passed), Changed(revise), Changed(timedOut)}
  BY DEF Verdicts
<1>2. /\ passed \in State /\ passed.phase = "deliver" /\ passed.status = "ready_to_deliver"
      /\ passed.verdict = "pass" /\ passed.skip = s.skip /\ passed.items = s.items /\ passed.call = s.call
  BY DEF State, Phase, Status, Verdict
<1>3. /\ revise \in State /\ revise.phase = "revise" /\ revise.status = "needs_revision"
      /\ revise.skip = s.skip /\ revise.call = s.call
  BY DEF State, Phase, Status, Verdict
<1>4. /\ timedOut \in State /\ timedOut.phase = "critique" /\ timedOut.status = s.status
      /\ timedOut.skip = s.skip /\ timedOut.items = s.items /\ timedOut.call = NoCall
  BY DEF State
<1> HIDE DEF passed, revise, timedOut
<1>5. CASE u = Changed(passed)
  BY <1>0, <1>2, <1>5, ChangedState DEF Reviewed, AllCompleted
<1>6. CASE u = Changed(revise)
  BY <1>0, <1>3, <1>6, ChangedState DEF Reviewed
<1>7. CASE u = Changed(timedOut)
  BY <1>0, <1>4, <1>7, ChangedState DEF Reviewed, AllCompleted
<1>. QED BY <1>1, <1>5, <1>6, <1>7

LEMMA ReviewerResultKeeps ==
  ASSUME IInv, NEW r \in Reviewers, ReviewerResult(r)
  PROVE  IInv'
<1>0. state \in State /\ Reviewed(state) /\ reviewer \in [Reviewers -> Review]
  BY DEF IInv, TypeOK
<1>1. /\ reviewer' = [reviewer EXCEPT ![r] = "idle"] /\ reviewer[r] # "idle"
      /\ UNCHANGED <<active, skipAllowed, loop, turn, starts, runs>> /\ Live
  BY DEF ReviewerResult
<1>2. reviewer' \in [Reviewers -> Review] /\ reviewer'[r] = "idle"
  BY <1>0, <1>1 DEF Review
<1>3. CASE active /\ state.call = r
  <2>1. state.phase = "critique" /\ state' \in Verdicts(state)
    BY <1>1, <1>3 DEF ReviewerResult, IInv, Awaited
  <2>2. /\ state' \in State /\ Reviewed(state') /\ state'.status # "completed"
        /\ state'.call \in {r, NoCall}
    BY <1>0, <1>3, <2>1, VerdictsReviewed
  <2>3. Awaited'
    BY <1>2, <2>2, ItemAssumption DEF Awaited
  <2>. QED BY <1>1, <1>2, <2>2, <2>3, KeptTurn DEF IInv, TypeOK
<1>4. CASE ~ (active /\ state.call = r)
  <2>1. state' \in {state, [state EXCEPT !.evidence = active]} /\ active \in BOOLEAN
    BY <1>4 DEF ReviewerResult, IInv, TypeOK
  <2>2. /\ state' \in State /\ state'.call = state.call
        /\ state'.phase = state.phase /\ state'.status = state.status /\ state'.skip = state.skip
        /\ state'.items = state.items /\ state'.verdict = state.verdict /\ state'.reason = state.reason
    BY <1>0, <2>1 DEF State
  <2>3. Awaited'
    BY <1>0, <1>1, <2>2 DEF IInv, Awaited
  <2>. QED BY <1>1, <1>2, <2>2, <2>3, SameWorkflow
<1>. QED BY <1>3, <1>4

----------------------------------------------------------------------------
(* The agent loop *)

LEMMA NewLoopType ==
  ASSUME NEW passes \in 0..1
  PROVE  /\ NewLoop(passes) \in Loop
         /\ NewLoop(passes).step < MaxIterations - 1
<1>1. 0 \in 0..MaxIterations /\ 0 < MaxIterations - 1
  BY LimitAssumption
<1>. QED BY <1>1 DEF NewLoop, Loop

LEMMA ClosedLoopType ==
  ASSUME NEW l \in Loop
  PROVE  ClosedLoop(l) \in Loop /\ ~ ClosedLoop(l).active
BY DEF ClosedLoop, Loop

\* The next iteration stays within the limit, as the wrap-up when it is the last.
LEMMA NextIterationType ==
  ASSUME NEW l \in Loop, l.step < MaxIterations, ~ l.wrapUp => l.step < MaxIterations - 1
  PROVE  /\ NextIteration(l) \in Loop
         /\ ~ l.wrapUp => /\ NextIteration(l).step < MaxIterations
                          /\ ~ NextIteration(l).wrapUp => NextIteration(l).step < MaxIterations - 1
<1>1. l.step \in 0..MaxIterations /\ MaxIterations \in Nat
  BY LimitAssumption DEF Loop
<1>2. l.step + 1 \in 0..MaxIterations
  BY <1>1
<1>3. (l.step + 1 >= MaxIterations - 1) \in BOOLEAN
  OBVIOUS
<1>4. /\ NextIteration(l) \in Loop
      /\ NextIteration(l).step = l.step + 1
      /\ NextIteration(l).wrapUp = (l.step + 1 >= MaxIterations - 1)
  BY <1>2, <1>3 DEF NextIteration, Loop
<1>5. ~ l.wrapUp => l.step + 1 < MaxIterations
  BY <1>1
<1>6. ~ (l.step + 1 >= MaxIterations - 1) => l.step + 1 < MaxIterations - 1
  BY <1>1
<1>. QED BY <1>4, <1>5, <1>6

LEMMA LoopStartKeeps ==
  ASSUME IInv, NEW passes \in 0..1, LoopStart(passes)
  PROVE  IInv'
<1>1. loop' \in Loop /\ loop'.step < MaxIterations - 1
  BY NewLoopType DEF LoopStart
<1>2. loop'.step < MaxIterations
  BY <1>1, LimitAssumption DEF Loop
<1>3. starts' \in 0..MaxStarts
  BY BoundAssumption DEF LoopStart, IInv, TypeOK
<1>. QED BY <1>1, <1>2, <1>3 DEF LoopStart, IInv, TypeOK, Delivered, Awaited, LoopBounded

LEMMA LoopNextKeeps ==
  ASSUME IInv, LoopNext
  PROVE  IInv'
<1>1. loop \in Loop /\ loop.active
  BY DEF IInv, TypeOK, LoopNext
<1>2. loop' = ClosedLoop(loop) \/ loop' = [loop EXCEPT !.next = TRUE]
  BY DEF LoopNext
<1>3. loop' \in Loop /\ LoopBounded'
  <2>1. CASE loop' = ClosedLoop(loop)
    BY <1>1, <2>1, ClosedLoopType DEF LoopBounded
  <2>2. CASE loop' = [loop EXCEPT !.next = TRUE]
    BY <1>1, <2>2 DEF IInv, LoopBounded, Loop
  <2>. QED BY <1>2, <2>1, <2>2
<1>. QED BY <1>3 DEF LoopNext, IInv, TypeOK, Delivered, Awaited

LEMMA LoopDoneKeeps ==
  ASSUME IInv, LoopDone
  PROVE  IInv'
<1>0. state \in State /\ Reviewed(state) /\ Live /\ ~ state.skip /\ state.status # "completed"
  BY LiveNotCompleted DEF IInv, TypeOK, LoopDone
<1>1. /\ state' \in State /\ state'.call = state.call
      /\ state'.phase = state.phase /\ state'.status = state.status /\ state'.skip = state.skip
      /\ state'.items = state.items /\ state'.verdict = state.verdict
  <2>1. CASE state.status = "ready_to_deliver"
    <3>1. state' = [state EXCEPT !.reason = TRUE]
      BY <2>1 DEF LoopDone
    <3>. QED BY <1>0, <3>1 DEF State
  <2>2. CASE state.status # "ready_to_deliver"
    BY <1>0, <2>2, RecoveredState DEF LoopDone
  <2>. QED BY <2>1, <2>2
<1>2. Reviewed(state')
  BY <1>0, <1>1 DEF Reviewed, AllCompleted
<1>3. Awaited' /\ reviewer' \in [Reviewers -> Review] /\ active' \in BOOLEAN
  BY <1>1 DEF IInv, Awaited, TypeOK, LoopDone
<1>. QED BY <1>0, <1>1, <1>2, <1>3, KeptTurn DEF LoopDone

----------------------------------------------------------------------------
(* The end of an iteration and of the turn *)

LEMMA EndTurnKeeps ==
  ASSUME IInv, EndTurn
  PROVE  IInv'
<1>1. loop' \in Loop /\ ~ loop'.active
  BY ClosedLoopType DEF EndTurn, IInv, TypeOK
<1>2. turn # "done" /\ turn' = "settling" /\ state' = state
  BY DEF EndTurn, Live
<1>. QED BY <1>1, <1>2 DEF EndTurn, IInv, TypeOK, Turn, Delivered, Awaited, LoopBounded

LEMMA EndIterationKeeps ==
  ASSUME IInv, EndIteration
  PROVE  IInv'
<1>0. /\ state \in State /\ loop \in Loop /\ loop.active /\ turn # "done" /\ ~ MayFinish
  BY DEF IInv, TypeOK, EndIteration, Live
<1>1. state' = state \/ state' = Recovered(state)
  BY DEF EndIteration
<1>2. /\ state' \in State /\ state'.call = state.call
      /\ state'.phase = state.phase /\ state'.status = state.status /\ state'.skip = state.skip
      /\ state'.items = state.items /\ state'.verdict = state.verdict /\ state'.reason = state.reason
  BY <1>0, <1>1, RecoveredState
<1>3. Reviewed(state') /\ Delivered'
  BY <1>0, <1>2, ReviewedAgrees DEF IInv, MayFinish, Delivered
<1>4. /\ NextIteration(loop) \in Loop
      /\ ~ loop.wrapUp => /\ NextIteration(loop).step < MaxIterations
                          /\ ~ NextIteration(loop).wrapUp => NextIteration(loop).step < MaxIterations - 1
  BY <1>0, NextIterationType DEF IInv, LoopBounded
<1>5. \/ loop' = ClosedLoop(NextIteration(loop)) /\ turn' \in {"settling", "stopped"}
      \/ ~ loop.wrapUp /\ loop' = NextIteration(loop) /\ turn' = "running"
  BY DEF EndIteration
<1>6. loop' \in Loop /\ LoopBounded' /\ turn' \in Turn
  BY <1>4, <1>5, ClosedLoopType DEF LoopBounded, Turn
<1>7. Awaited'
  BY <1>2 DEF IInv, Awaited, EndIteration
<1>. QED BY <1>2, <1>3, <1>6, <1>7 DEF EndIteration, IInv, TypeOK

\* Verification completes only a reviewed delivery that was requested.
LEMMA VerifiedState ==
  ASSUME NEW s \in State, Reviewed(s), NEW outcome \in {"passed", "failed", "acceptance_required"}
  PROVE  /\ Verified(s, outcome) \in State /\ Reviewed(Verified(s, outcome))
         /\ Verified(s, outcome).skip = s.skip
         /\ Verified(s, outcome).status = "completed" => s.status = "completed" \/ outcome = "passed"
         /\ Verified(s, outcome).call # NoCall =>
               Verified(s, outcome).call = s.call /\ Verified(s, outcome).phase = s.phase
<1>1. CASE ~ active \/ s.status # "ready_to_deliver" \/ ~ s.reason
  BY <1>1 DEF Verified
<1>2. CASE ~ (~ active \/ s.status # "ready_to_deliver" \/ ~ s.reason)
  <2>0. ~ s.skip /\ s.phase = "deliver" /\ s.verdict \in {"pass", "skipped"} /\ AllCompleted(s) /\ s.reason
    BY <1>2 DEF Reviewed, State
  <2>1. CASE outcome = "passed"
    <3> DEFINE u == [s EXCEPT !.status = "completed"]
    <3>1. Verified(s, outcome) = u
      BY <1>2, <2>1 DEF Verified
    <3>2. /\ u \in State /\ u.status = "completed" /\ u.phase = s.phase /\ u.skip = s.skip
          /\ u.items = s.items /\ u.verdict = s.verdict /\ u.reason = s.reason /\ u.call = s.call
      BY DEF State, Status
    <3> HIDE DEF u
    <3>3. Reviewed(u)
      BY <2>0, <3>2 DEF Reviewed, AllCompleted
    <3>. QED BY <2>1, <3>1, <3>2, <3>3
  <2>2. CASE outcome = "failed"
    <3> DEFINE u == [s EXCEPT !.phase = "revise", !.status = "needs_revision",
                              !.verdict = "none", !.call = NoCall, !.reason = FALSE]
    <3>1. Verified(s, outcome) = u
      BY <1>2, <2>2 DEF Verified
    <3>2. /\ u \in State /\ u.status = "needs_revision" /\ u.phase = "revise" /\ u.skip = s.skip
          /\ u.call = NoCall
      BY DEF State, Status, Phase, Verdict
    <3> HIDE DEF u
    <3>3. Reviewed(u)
      BY <2>0, <3>2 DEF Reviewed
    <3>. QED BY <3>1, <3>2, <3>3
  <2>3. CASE outcome = "acceptance_required"
    BY <1>2, <2>3 DEF Verified
  <2>. QED BY <2>1, <2>2, <2>3
<1>. QED BY <1>1, <1>2

LEMMA SettleKeeps ==
  ASSUME IInv, Settle
  PROVE  IInv'
<1>0. state \in State /\ Reviewed(state) /\ turn # "done"
  BY DEF IInv, TypeOK, Settle
<1>1. PICK outcome \in {"passed", "failed", "acceptance_required"} :
          /\ state' = Verified(state, outcome)
          /\ turn' = IF outcome = "passed" THEN "done" ELSE "review"
  BY DEF Settle
<1>2. state' \in State /\ Reviewed(state') /\ turn' \in Turn
  BY <1>0, <1>1, VerifiedState DEF Turn
<1>3. Delivered'
  BY <1>0, <1>1, VerifiedState DEF IInv, Delivered
<1>4. reviewer' \in [Reviewers -> Review] /\ Awaited'
  BY DEF Settle, Review, Awaited
<1>. QED BY <1>2, <1>3, <1>4 DEF Settle, IInv, TypeOK, LoopBounded

LEMMA AcceptKeeps ==
  ASSUME IInv, Accept
  PROVE  IInv'
<1>0. state \in State /\ Reviewed(state)
  BY DEF IInv, TypeOK
<1>1. state' \in State /\ Reviewed(state') /\ turn' = "done"
  BY <1>0, VerifiedState DEF Accept
<1>2. Awaited'
  BY <1>0, VerifiedState, ItemAssumption DEF Accept, IInv, Awaited
<1>. QED BY <1>1, <1>2 DEF Accept, IInv, TypeOK, Turn, Delivered, LoopBounded

LEMMA StopKeeps ==
  ASSUME IInv, Stop
  PROVE  IInv'
<1>1. loop' \in Loop /\ ~ loop'.active
  BY ClosedLoopType DEF Stop, IInv, TypeOK
<1>2. turn # "done" /\ turn' = "stopped" /\ state' = state
  BY DEF Stop, Live
<1>3. reviewer' \in [Reviewers -> Review] /\ Awaited'
  BY DEF Stop, Review, Awaited
<1>. QED BY <1>1, <1>2, <1>3 DEF Stop, IInv, TypeOK, Turn, Delivered, LoopBounded

LEMMA NewMessageKeeps ==
  ASSUME IInv, NewMessage
  PROVE  IInv'
<1>0. state \in State /\ Reviewed(state) /\ turn # "done" /\ turn' = "running"
  BY DEF IInv, TypeOK, NewMessage
<1>1. state' = state \/ state' = Begun(state)
  BY DEF NewMessage, StartRun
<1>2. active' \in BOOLEAN /\ skipAllowed' \in BOOLEAN
  BY DEF NewMessage, StartRun
<1>3. state' \in State /\ Reviewed(state') /\ Delivered'
  BY <1>0, <1>1, BegunState DEF IInv, Delivered
<1>4. Awaited'
  BY <1>0, <1>1, BegunState, ItemAssumption DEF NewMessage, IInv, Awaited
<1>5. loop' \in Loop /\ LoopBounded'
  <2>1. CASE loop' = loop
    BY <2>1 DEF IInv, TypeOK, LoopBounded
  <2>2. CASE loop' = NewLoop(0)
    <3>1. loop' \in Loop /\ loop'.step < MaxIterations - 1
      BY <2>2, NewLoopType
    <3>2. loop'.step < MaxIterations
      BY <3>1, LimitAssumption DEF Loop
    <3>. QED BY <3>1, <3>2 DEF LoopBounded
  <2>. QED BY <2>1, <2>2 DEF NewMessage
<1>6. runs' \in 1..MaxRuns
  BY BoundAssumption DEF NewMessage, IInv, TypeOK
<1>. QED BY <1>0, <1>2, <1>3, <1>4, <1>5, <1>6 DEF NewMessage, IInv, TypeOK, Turn

----------------------------------------------------------------------------
(* The invariant holds *)

LEMMA InitKeeps == Init => IInv
<1> SUFFICES ASSUME Init PROVE IInv
  OBVIOUS
<1>1. state = Blank \/ state = Begun(Blank)
  BY DEF Init
<1>2. /\ state \in State /\ Reviewed(state) /\ ~ state.skip
      /\ state.status = "active" /\ state.call = NoCall
  BY <1>1, BlankState, BegunState
<1>3. loop \in Loop /\ loop.step < MaxIterations - 1 /\ loop.step < MaxIterations
  <2>1. loop \in Loop /\ loop.step < MaxIterations - 1
    BY NewLoopType DEF Init
  <2>. QED BY <2>1, LimitAssumption DEF Loop
<1>4. reviewer \in [Reviewers -> Review]
  BY DEF Init, Review
<1>5. starts \in 0..MaxStarts /\ runs \in 1..MaxRuns
  BY BoundAssumption DEF Init
<1>. QED BY <1>2, <1>3, <1>4, <1>5, ItemAssumption
         DEF Init, IInv, TypeOK, Turn, Delivered, Awaited, LoopBounded

LEMMA NextKeeps ==
  ASSUME IInv, [Next]_productionVars
  PROVE  IInv'
<1>1. CASE ProductionTool
  BY <1>1, RecordPrototypeKeeps, CommitPlanKeeps, SkipWorkflowKeeps, UpdatePlanItemKeeps,
     StartInspectionKeeps, RequestCritiqueKeeps, SkipCritiqueKeeps, RecordRevisionKeeps,
     ToolResultKeeps DEF ProductionTool
<1>2. CASE \E r \in Reviewers : StartReviewer(r) \/ ReviewerResult(r)
  BY <1>2, StartReviewerKeeps, ReviewerResultKeeps
<1>3. CASE (\E passes \in 0..1 : LoopStart(passes)) \/ LoopNext \/ LoopDone
  BY <1>3, LoopStartKeeps, LoopNextKeeps, LoopDoneKeeps
<1>4. CASE AgentEnd \/ Settle \/ Accept \/ Stop \/ NewMessage
  BY <1>4, EndTurnKeeps, EndIterationKeeps, SettleKeeps, AcceptKeeps, StopKeeps, NewMessageKeeps
     DEF AgentEnd
<1>5. CASE UNCHANGED productionVars
  BY <1>5 DEF productionVars, IInv, TypeOK, Reviewed, AllCompleted, Delivered, Awaited, LoopBounded
<1>. QED BY <1>1, <1>2, <1>3, <1>4, <1>5 DEF Next

LEMMA Invariance == Spec => []IInv
<1>1. Init => IInv
  BY InitKeeps
<1>2. IInv /\ [Next]_productionVars => IInv'
  BY NextKeeps
<1>. QED BY <1>1, <1>2, PTL DEF Spec

(* Every reachable state is well typed; the counter of recoveries and the     *)
(* iterations of the agent loop stay within their limits (recordRecovery,     *)
(* handleAgentEnd).                                                           *)
THEOREM TypeCorrect == Spec => []TypeOK
<1>1. IInv => TypeOK
  BY DEF IInv
<1>. QED BY <1>1, Invariance, PTL

(* Nothing unreviewed or unfinished is ever ready to deliver, for any plan,   *)
(* any reviewers and any order of the tool calls (startInspection,            *)
(* recordCriticResult, skipCritique).                                         *)
THEOREM OnlyReviewedWorkIsReady == Spec => []ReadyIsReviewed
<1>1. IInv => ReadyIsReviewed
  BY DEF IInv, Reviewed, ReadyIsReviewed
<1>. QED BY <1>1, Invariance, PTL

(* A workflow is completed only by its skip, or by the verification or the    *)
(* acceptance of a reviewed delivery that was requested                       *)
(* (recordVerificationResult, skipWorkflow).                                  *)
THEOREM OnlyDeliveriesComplete == Spec => []CompletedIsDelivered
<1>1. IInv => CompletedIsDelivered
  BY DEF IInv, Reviewed, Delivered, CompletedIsDelivered
<1>. QED BY <1>1, Invariance, PTL

----------------------------------------------------------------------------
(* Verdicts *)

\* Only the result of a reviewer passes the review.
LEMMA OthersNeverPass ==
  ASSUME IInv, Next, ~ \E r \in Reviewers : ReviewerResult(r), state'.verdict = "pass"
  PROVE  state.verdict = "pass"
<1>0. state \in State
  BY DEF IInv, TypeOK
<1>1. Begun(state).verdict = "none"
  BY <1>0 DEF Begun, State
<1>2. Activated.verdict = "pass" => state.verdict = "pass"
  BY <1>1 DEF Activated
<1>3. CASE RecordPrototype \/ CommitPlan \/ SkipWorkflow
  <2>1. state'.verdict = Activated.verdict
    BY <1>3, ActivatedState DEF RecordPrototype, CommitPlan, SkipWorkflow, Acting, Changed, State
  <2>. QED BY <1>2, <2>1
<1>4. CASE \/ \E i \in Items, status \in ItemStatus : UpdatePlanItem(i, status)
           \/ StartInspection \/ RecordRevision \/ ToolResult
  BY <1>0, <1>4 DEF UpdatePlanItem, StartInspection, RecordRevision, ToolResult, Mutate, Changed, State
<1>5. CASE RequestCritique \/ SkipCritique
  BY <1>0, <1>5 DEF RequestCritique, SkipCritique, Mutate, Changed, State
<1>6. CASE \E r \in Reviewers : StartReviewer(r)
  BY <1>0, <1>6 DEF StartReviewer, State
<1>7. CASE (\E passes \in 0..1 : LoopStart(passes)) \/ LoopNext \/ EndTurn \/ Stop
  BY <1>7 DEF LoopStart, LoopNext, EndTurn, Stop
<1>8. CASE LoopDone \/ EndIteration
  <2>1. state' \in {state, [state EXCEPT !.reason = TRUE], Recovered(state)}
    BY <1>8 DEF LoopDone, EndIteration
  <2>2. [state EXCEPT !.reason = TRUE].verdict = state.verdict
    BY <1>0 DEF State
  <2>. QED BY <1>0, <2>1, <2>2, RecoveredState
<1>9. CASE Settle \/ Accept
  <2>1. PICK outcome \in {"passed", "failed", "acceptance_required"} : state' = Verified(state, outcome)
    BY <1>9 DEF Settle, Accept
  <2>. QED BY <1>0, <2>1 DEF Verified, State
<1>10. CASE NewMessage
  BY <1>1, <1>10 DEF NewMessage, StartRun
<1>. QED BY <1>3, <1>4, <1>5, <1>6, <1>7, <1>8, <1>9, <1>10 DEF Next, ProductionTool, AgentEnd

LEMMA PassIsCurrent ==
  ASSUME IInv, [Next]_productionVars, state'.verdict = "pass", state.verdict # "pass"
  PROVE  \E r \in Reviewers : reviewer[r] = "current" /\ reviewer'[r] = "idle"
<1>1. Next
  BY DEF productionVars
<1>2. PICK r \in Reviewers : ReviewerResult(r)
  BY <1>1, OthersNeverPass
<1>3. active /\ state.call = r
  <2>1. SUFFICES ASSUME ~ (active /\ state.call = r) PROVE FALSE
    OBVIOUS
  <2>2. state' \in {state, [state EXCEPT !.evidence = active]} /\ state \in State
    BY <1>2, <2>1 DEF ReviewerResult, IInv, TypeOK
  <2>. QED BY <2>2 DEF State
<1>4. reviewer[r] = "current" /\ reviewer' = [reviewer EXCEPT ![r] = "idle"]
  BY <1>2, <1>3 DEF ReviewerResult, IInv, Awaited
<1>. QED BY <1>4 DEF IInv, TypeOK

(* A review is passed only by a reviewer started for the current request: one *)
(* of an earlier request or round never passes the work (requestCritique,     *)
(* recordSubagentStart, recordSubagentResult).                                *)
THEOREM OldReviewersNeverPass == Spec => VerdictIsCurrent
<1>1. IInv /\ [Next]_productionVars =>
        (state'.verdict = "pass" /\ state.verdict # "pass" =>
            \E r \in Reviewers : reviewer[r] = "current" /\ reviewer'[r] = "idle")
  BY PassIsCurrent
<1>. QED BY <1>1, Invariance, PTL DEF Spec, VerdictIsCurrent

=============================================================================
