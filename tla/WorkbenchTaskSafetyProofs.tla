----------------------- MODULE WorkbenchTaskSafetyProofs -----------------------
(***************************************************************************)
(* The safety properties of WorkbenchTask, for every value of its          *)
(* constants: consent for effects, agreement of tasks and runs, promotion  *)
(* of verified runs, silence of cancelled tasks, and the implementation of *)
(* ToolConsent.                                                            *)
(***************************************************************************)
EXTENDS WorkbenchTaskProofs

(***************************************************************************)
(* Consent.  What a step may do to an approval: x becomes y.               *)
(***************************************************************************)
Early == {"absent", "queued"}

Settles(x, y) ==
  /\ x.decision \in {"approved", "denied", "expired"} => y.decision = x.decision
  /\ y.effect # "not_started" => y.decision = "approved"
  /\ x.effect \in {"succeeded", "failed", "needs_review"} => y.effect = x.effect

(* No approval appears on a run that has not begun. *)
ConsentStep ==
  \A a \in Keys : /\ Settles(appr[a], appr'[a])
                  /\ run[a[1]].status \in Early => appr'[a] = NoApproval

(* Approvals only expire while they are pending. *)
LEMMA ExpirySettles ==
  ASSUME TypeOK, Consent, NEW K,
         \A a \in K \cap Keys : appr[a].decision = "pending", appr' = Expired(appr, K)
  PROVE  ConsentStep
<1>1. ASSUME NEW a \in Keys PROVE Settles(appr[a], appr'[a])
  <2>1. CASE a \in K
    <3>1. appr'[a] = [appr[a] EXCEPT !.decision = "expired"] /\ appr[a].decision = "pending"
      BY <2>1 DEF Expired
    <3>2. appr[a].effect = "not_started"
      BY <3>1 DEF Consent
    <3>. QED BY <3>1, <3>2 DEF Settles, TypeOK, Approval
  <2>2. CASE a \notin K
    BY <2>2 DEF Expired, Settles, Consent
  <2>. QED BY <2>1, <2>2
<1>2. ASSUME NEW a \in Keys, run[a[1]].status \in Early PROVE appr'[a] = NoApproval
  <2>1. appr[a] = NoApproval
    BY <1>2 DEF Consent, Early
  <2>2. a \notin K
    BY <2>1 DEF NoApproval
  <2>. QED BY <2>1, <2>2 DEF Expired
<1>. QED BY <1>1, <1>2 DEF ConsentStep

LEMMA SameSettles ==
  ASSUME TypeOK, Consent, UNCHANGED appr
  PROVE  ConsentStep
BY DEF ConsentStep, Settles, Consent, Early

(* A call is decided once: before, nobody asked or the user has not answered. *)
LEMMA DecisionSettles ==
  ASSUME TypeOK, Consent, NEW a \in Keys, NEW decision, NEW effect,
         effect = "not_started" \/ decision = "approved",
         appr[a].decision \in {"none", "pending"}, run[a[1]].status \notin Early,
         appr' = Decided(a, decision, effect)
  PROVE  ConsentStep
<1>1. appr'[a] = [decision |-> decision, effect |-> effect]
  BY DEF Decided, TypeOK
<1>2. \A b \in Keys \ {a} : appr'[b] = appr[b]
  BY DEF Decided, TypeOK
<1>3. Settles(appr[a], appr'[a])
  <2>1. appr[a].effect = "not_started"
    BY DEF Consent
  <2>. QED BY <1>1, <2>1 DEF Settles
<1>4. \A b \in Keys \ {a} : Settles(appr[b], appr'[b])
  BY <1>2 DEF Settles, Consent
<1>5. \A b \in Keys : run[b[1]].status \in Early => appr'[b] = NoApproval
  BY <1>2 DEF Consent, Early
<1>. QED BY <1>3, <1>4, <1>5 DEF ConsentStep

LEMMA PauseSettles ==
  ASSUME TypeOK, Consent, NEW s, PauseRun(s) \/ FailRun(s)
  PROVE  ConsentStep
<1>1. CASE UNCHANGED appr
  BY <1>1, SameSettles
<1>2. CASE appr' = Expired(appr, PendingOf(s, appr))
  <2>1. \A a \in PendingOf(s, appr) \cap Keys : appr[a].decision = "pending"
    BY DEF PendingOf
  <2>. QED BY <1>2, <2>1, ExpirySettles
<1>. QED BY <1>1, <1>2 DEF PauseRun, Pause, FailRun

(* Runs that have not begun were not there or queued before. *)
EarlyKept == \A r \in Runs : run'[r].status \in Early => run[r].status \in Early

(* The approval is decided, and then those still pending expire. *)
LEMMA DenialSettles ==
  ASSUME TypeOK, Consent, NEW a \in Keys, DenyInChat(a)
  PROVE  ConsentStep
<1>. DEFINE ap == Decided(a, "denied", "not_started")
            s == SessionOf(a[1])
<1>1. appr[a].decision = "pending"
  BY DEF DenyInChat, MayDeny, Answerable
<1>2. appr' = ap \/ appr' = Expired(ap, PendingOf(s, ap))
  BY DEF DenyInChat, Pause
<1>3. ap[a] = [decision |-> "denied", effect |-> "not_started"] /\ a \notin PendingOf(s, ap)
  BY DEF Decided, TypeOK, PendingOf
<1>4. appr'[a] = ap[a]
  BY <1>2, <1>3 DEF Expired
<1>5. \A b \in Keys \ {a} : ap[b] = appr[b]
  BY DEF Decided, TypeOK
<1>. HIDE DEF ap, s
<1>6. \A b \in Keys \ {a} : \/ appr'[b] = appr[b]
                            \/ /\ appr'[b] = [appr[b] EXCEPT !.decision = "expired"]
                               /\ appr[b].decision = "pending"
  BY <1>2, <1>5 DEF Expired, PendingOf
<1>7. Settles(appr[a], appr'[a])
  BY <1>1, <1>3, <1>4 DEF Settles, Consent
<1>8. \A b \in Keys \ {a} : Settles(appr[b], appr'[b])
  BY <1>6 DEF Settles, Consent, TypeOK, Approval
<1>9. ASSUME NEW b \in Keys, run[b[1]].status \in Early PROVE appr'[b] = NoApproval
  <2>1. appr[b] = NoApproval
    BY <1>9 DEF Consent, Early
  <2>2. b # a /\ appr[b].decision # "pending"
    BY <1>1, <2>1 DEF NoApproval
  <2>. QED BY <1>6, <2>1, <2>2
<1>. QED BY <1>7, <1>8, <1>9 DEF ConsentStep

(* Every step but the deletion of a session and recovery settles approvals. *)
LEMMA StepSettles ==
  ASSUME TypeOK, Consent
  PROVE  /\ \A s, contract, t, r : BeginMessageRun(s, contract, t, r) => ConsentStep
         /\ \A t, trigger, r : PrepareRun(t, trigger, r) => ConsentStep
         /\ \A t, trigger : PrepareRunRejected(t, trigger) => ConsentStep
         /\ \A r : BeginPreparedRun(r) \/ PreparedRunRejected(r) => ConsentStep
         /\ \A s : /\ SetOutputContract(s) \/ GateDenied(s) \/ AuthorizeStale(s) => ConsentStep
                   /\ \A a \in Keys : AuthorizeAuto(s, a) \/ AuthorizeAsk(s, a) => ConsentStep
         /\ \A a \in Keys : Approve(a) \/ DenyInCard(a) \/ DenyInChat(a) => ConsentStep
         /\ \A a \in Keys : \A effect : RecordToolResult(a, effect) => ConsentStep
         /\ \A s : /\ StartCompletion(s) \/ StopSession(s) \/ TurnError(s) => ConsentStep
                   /\ PromptRejected(s) \/ (\E r : CancelExternal(s, r)) => ConsentStep
         /\ \A c, verdict, delivery : FinishCompletion(c, verdict, delivery) => ConsentStep
         /\ \A t : AcceptTask(t) => ConsentStep
         /\ \A first : Restart(first) => ConsentStep
<1>1. ASSUME NEW s, NEW contract, NEW t, NEW r, BeginMessageRun(s, contract, t, r)
      PROVE  ConsentStep
  <2>. DEFINE expired == IF Superseded(s) = {} THEN {} ELSE PendingOf(s, appr)
  <2>1. appr' = Expired(appr, expired)
    BY <1>1 DEF BeginMessageRun
  <2>2. \A a \in expired \cap Keys : appr[a].decision = "pending"
    BY DEF PendingOf
  <2>. QED BY <2>1, <2>2, ExpirySettles
<1>2. ASSUME NEW t, NEW trigger, NEW r, PrepareRun(t, trigger, r) PROVE ConsentStep
  <2>. DEFINE expired == {a \in PendingOf(task[t].session, appr) : a[1] = task[t].active}
  <2>1. appr' = Expired(appr, expired)
    BY <1>2 DEF PrepareRun
  <2>2. \A a \in expired \cap Keys : appr[a].decision = "pending"
    BY DEF PendingOf
  <2>. QED BY <2>1, <2>2, ExpirySettles
<1>3. \A s : PauseRun(s) \/ FailRun(s) => ConsentStep
  BY PauseSettles
<1>4. \A t, trigger : PrepareRunRejected(t, trigger) => ConsentStep
  BY <1>3 DEF PrepareRunRejected
<1>5. \A r : BeginPreparedRun(r) \/ PreparedRunRejected(r) => ConsentStep
  BY <1>3, SameSettles
     DEF BeginPreparedRun, PreparedRunRejected, CaughtByStartSession, CaughtByObserver
<1>6. \A s : /\ SetOutputContract(s) \/ GateDenied(s) \/ AuthorizeStale(s) => ConsentStep
             /\ StartCompletion(s) \/ StopSession(s) \/ TurnError(s) => ConsentStep
             /\ PromptRejected(s) \/ (\E r : CancelExternal(s, r)) => ConsentStep
  BY <1>3, SameSettles DEF SetOutputContract, GateDenied, AuthorizeStale, StartCompletion,
     StopSession, TurnError, PromptRejected, CancelExternal, db
<1>7. ASSUME NEW s, NEW a \in Keys, AuthorizeAuto(s, a) \/ AuthorizeAsk(s, a)
      PROVE  ConsentStep
  <2>1. appr[a].decision = "none" /\ run[a[1]].status \notin Early
    BY <1>7 DEF AuthorizeAuto, AuthorizeAsk, MayAuthorize, IsRunning, Early
  <2>2. appr' = Decided(a, "approved", "executing") \/ appr' = Decided(a, "pending", "not_started")
    BY <1>7 DEF AuthorizeAuto, AuthorizeAsk
  <2>. QED BY <2>1, <2>2, DecisionSettles
<1>8. ASSUME NEW a \in Keys, Approve(a) \/ DenyInCard(a) PROVE ConsentStep
  <2>1. appr[a].decision = "pending"
    BY <1>8 DEF Approve, DenyInCard, MayDeny, Answerable
  <2>2. run[a[1]].status \notin Early
    BY <2>1 DEF Consent, NoApproval, Early
  <2>3. appr' = Decided(a, "approved", "executing") \/ appr' = Decided(a, "denied", "not_started")
    BY <1>8 DEF Approve, DenyInCard
  <2>. QED BY <2>1, <2>2, <2>3, DecisionSettles
<1>9. ASSUME NEW a \in Keys, NEW effect, RecordToolResult(a, effect) PROVE ConsentStep
  <2>1. appr[a].effect = "executing" /\ appr' = [appr EXCEPT ![a] = [@ EXCEPT !.effect = effect]]
    BY <1>9 DEF RecordToolResult
  <2>2. appr[a].decision = "approved" /\ run[a[1]].status \notin Early
    BY <2>1 DEF Consent, NoApproval, Early
  <2>3. /\ appr'[a].decision = "approved"
        /\ \A b \in Keys \ {a} : appr'[b] = appr[b]
    BY <2>1, <2>2 DEF TypeOK, Approval
  <2>4. Settles(appr[a], appr'[a])
    BY <2>1, <2>2, <2>3 DEF Settles
  <2>5. \A b \in Keys \ {a} : Settles(appr[b], appr'[b])
    BY <2>3 DEF Settles, Consent
  <2>6. \A b \in Keys : run[b[1]].status \in Early => appr'[b] = NoApproval
    BY <2>2, <2>3 DEF Consent, Early
  <2>. QED BY <2>4, <2>5, <2>6 DEF ConsentStep
<1>10. /\ \A c, verdict, delivery : FinishCompletion(c, verdict, delivery) => ConsentStep
       /\ \A t : AcceptTask(t) => ConsentStep
  BY SameSettles DEF FinishCompletion, AcceptTask
<1>11. ASSUME NEW first, Restart(first) PROVE ConsentStep
  <2>1. \A a \in Keys : appr'[a] = IF appr[a].effect = "executing"
                                     THEN [appr[a] EXCEPT !.effect = "needs_review"] ELSE appr[a]
    BY <1>11 DEF Restart
  <2>2. \A a \in Keys : Settles(appr[a], appr'[a])
    BY <2>1 DEF Settles, Consent, TypeOK, Approval
  <2>3. ASSUME NEW a \in Keys, run[a[1]].status \in Early PROVE appr'[a] = NoApproval
    <3>1. appr[a] = NoApproval
      BY <2>3 DEF Consent, Early
    <3>2. appr[a].effect # "executing"
      BY <3>1 DEF NoApproval
    <3>. QED BY <2>1, <3>1, <3>2
  <2>. QED BY <2>2, <2>3 DEF ConsentStep
<1>12. \A s : /\ SetOutputContract(s) \/ GateDenied(s) \/ AuthorizeStale(s) => ConsentStep
              /\ \A a \in Keys : AuthorizeAuto(s, a) \/ AuthorizeAsk(s, a) => ConsentStep
  BY <1>6, <1>7
<1>13. \A a \in Keys : Approve(a) \/ DenyInCard(a) \/ DenyInChat(a) => ConsentStep
  BY <1>8, DenialSettles
<1>14. \A s : /\ StartCompletion(s) \/ StopSession(s) \/ TurnError(s) => ConsentStep
              /\ PromptRejected(s) \/ (\E r : CancelExternal(s, r)) => ConsentStep
  BY <1>6
<1>15. /\ \A s, contract, t, r : BeginMessageRun(s, contract, t, r) => ConsentStep
       /\ \A t, trigger, r : PrepareRun(t, trigger, r) => ConsentStep
       /\ \A t, trigger : PrepareRunRejected(t, trigger) => ConsentStep
  BY <1>1, <1>2, <1>4
<1>16. /\ \A a \in Keys : \A effect : RecordToolResult(a, effect) => ConsentStep
       /\ \A first : Restart(first) => ConsentStep
  BY <1>9, <1>11
<1>. QED BY <1>5, <1>10, <1>12, <1>13, <1>14, <1>15, <1>16

(* A run that has begun, or has ended, is never early again. *)
LEMMA PauseEarly ==
  ASSUME TypeOK, NEW s, PauseRun(s) \/ FailRun(s)
  PROVE  EarlyKept
<1>1. \A r \in Runs : \/ run'[r] = run[r]
                      \/ run'[r] = [run[r] EXCEPT !.status = "paused"]
                      \/ run'[r] = [run[r] EXCEPT !.status = "failed"]
  BY DEF PauseRun, Pause, FailRun
<1>2. \A r \in Runs : run[r] \in RunRow
  BY DEF TypeOK
<1>. QED BY <1>1, <1>2 DEF EarlyKept, Early, RunRow

LEMMA MovedEarly ==
  ASSUME TypeOK, NEW r \in Runs, NEW status, status \notin Early,
         run' = Moved(run, r, status)
  PROVE  EarlyKept
BY DEF EarlyKept, Early, Moved, TypeOK, RunRow

LEMMA DenialEarly ==
  ASSUME TypeOK, NEW a \in Keys, DenyInChat(a)
  PROVE  EarlyKept
<1>. DEFINE rn == Moved(run, a[1], "paused")
<1>1. \A r \in Runs : /\ rn[r] = IF r = a[1] THEN [run[r] EXCEPT !.status = "paused"] ELSE run[r]
                      /\ run'[r] = rn[r] \/ run'[r] = [rn[r] EXCEPT !.status = "paused"]
  <2>1. a[1] \in Runs
    BY DEF Keys
  <2>2. \A r \in Runs : rn[r] = IF r = a[1] THEN [run[r] EXCEPT !.status = "paused"] ELSE run[r]
    BY <2>1 DEF Moved, TypeOK
  <2>3. \A r \in Runs : run'[r] = rn[r] \/ run'[r] = [rn[r] EXCEPT !.status = "paused"]
    BY DEF DenyInChat, Pause
  <2>. QED BY <2>2, <2>3
<1>. HIDE DEF rn
<1>2. ASSUME NEW r \in Runs, run'[r].status \in Early PROVE run[r].status \in Early
  <2>1. run[r] \in RunRow
    BY DEF TypeOK
  <2>2. rn[r].status \in Early
    BY <1>1, <1>2, <2>1 DEF Early, RunRow
  <2>. QED BY <1>1, <2>1, <2>2 DEF Early, RunRow
<1>. QED BY <1>2 DEF EarlyKept

LEMMA NextEarly ==
  ASSUME TypeOK, Next
  PROVE  EarlyKept
<1>1. CASE \E r \in Runs : BeginPreparedRun(r) \/ PreparedRunRejected(r)
  <2>. PICK r \in Runs : BeginPreparedRun(r) \/ PreparedRunRejected(r)
    BY <1>1
  <2>1. CASE BeginPreparedRun(r)
    BY <2>1, MovedEarly DEF BeginPreparedRun, Early
  <2>2. CASE PreparedRunRejected(r)
    BY <2>2, PauseEarly
       DEF PreparedRunRejected, CaughtByStartSession, CaughtByObserver, EarlyKept
  <2>. QED BY <2>1, <2>2
<1>2. CASE \E s \in Sessions, contract \in NewContracts, t \in Tasks, r \in Runs :
             BeginMessageRun(s, contract, t, r)
  <2>. PICK s \in Sessions, contract \in NewContracts, t \in Tasks, r \in Runs :
              BeginMessageRun(s, contract, t, r)
    BY <1>2
  <2>1. \A q \in Runs : \/ run'[q].status = "running"
                        \/ run'[q] = run[q]
                        \/ run'[q] = [run[q] EXCEPT !.status = "cancelled"]
    BY DEF BeginMessageRun
  <2>2. \A q \in Runs : run[q] \in RunRow
    BY DEF TypeOK
  <2>. QED BY <2>1, <2>2 DEF EarlyKept, Early, RunRow
<1>3. CASE \E s \in Sessions : \/ SetOutputContract(s) \/ GateDenied(s) \/ AuthorizeStale(s)
                               \/ StartCompletion(s) \/ TurnError(s) \/ PromptRejected(s)
                               \/ StopSession(s)
  BY <1>3, PauseEarly DEF SetOutputContract, GateDenied, AuthorizeStale, StartCompletion,
     StopSession, TurnError, PromptRejected, db, EarlyKept
<1>4. CASE \E s \in Sessions : DeleteSession(s)
  BY <1>4 DEF DeleteSession, EarlyKept, Early
<1>5. CASE \E s \in Sessions, a \in Keys : AuthorizeAuto(s, a) \/ AuthorizeAsk(s, a)
  <2>. PICK s \in Sessions, a \in Keys : AuthorizeAuto(s, a) \/ AuthorizeAsk(s, a)
    BY <1>5
  <2>1. a[1] \in Runs
    BY DEF Keys
  <2>. QED BY <2>1, MovedEarly DEF AuthorizeAuto, AuthorizeAsk, Early, EarlyKept
<1>6. CASE \E s \in Sessions, r \in Runs : CancelExternal(s, r)
  BY <1>6, MovedEarly DEF CancelExternal, Early
<1>7. CASE \E t \in Tasks, trigger \in {"resume", "retry"} :
             PrepareRunRejected(t, trigger) \/ \E r \in Runs : PrepareRun(t, trigger, r)
  <2>1. \A t, trigger : PrepareRunRejected(t, trigger) => EarlyKept
    BY PauseEarly DEF PrepareRunRejected
  <2>2. \A t, trigger, r : PrepareRun(t, trigger, r) => EarlyKept
    BY DEF PrepareRun, NextRun, EarlyKept, Early, TypeOK
  <2>. QED BY <1>7, <2>1, <2>2
<1>8. CASE \E a \in Keys : Approve(a) \/ DenyInCard(a) \/ DenyInChat(a)
  <2>. PICK a \in Keys : Approve(a) \/ DenyInCard(a) \/ DenyInChat(a)
    BY <1>8
  <2>1. a[1] \in Runs
    BY DEF Keys
  <2>. QED BY <2>1, MovedEarly, DenialEarly DEF Approve, DenyInCard, Early
<1>9. CASE \E a \in Keys, effect \in {"succeeded", "failed"} : RecordToolResult(a, effect)
  BY <1>9 DEF RecordToolResult, EarlyKept
<1>10. CASE \E c \in collecting, verdict \in Outcomes, delivery \in Deliveries :
              FinishCompletion(c, verdict, delivery)
  <2>. PICK c \in collecting, verdict \in Outcomes, delivery \in Deliveries :
              FinishCompletion(c, verdict, delivery)
    BY <1>10
  <2>1. run' = run \/ \E outcome : run' = Concluded(c.run, outcome)
    BY DEF FinishCompletion
  <2>2. \A q \in Runs : \/ run'[q] = run[q]
                        \/ run'[q].status \in {"succeeded", "needs_review"}
    <3>1. CASE run' = run
      BY <3>1
    <3>2. ASSUME NEW outcome, run' = Concluded(c.run, outcome)
          PROVE  \A q \in Runs : \/ run'[q] = run[q]
                                 \/ run'[q].status \in {"succeeded", "needs_review"}
      BY <3>2 DEF Concluded, TypeOK, RunRow
    <3>. QED BY <2>1, <3>1, <3>2
  <2>. QED BY <2>2 DEF EarlyKept, Early
<1>11. CASE \E t \in Tasks : AcceptTask(t)
  BY <1>11 DEF AcceptTask, Concluded, EarlyKept, Early, TypeOK, RunRow, TaskRow
<1>12. CASE \E first \in [Tasks -> Runs] : Restart(first)
  BY <1>12 DEF Restart, EarlyKept, Early, TypeOK, RunRow
<1>. QED
  BY <1>1, <1>2, <1>3, <1>4, <1>5, <1>6, <1>7, <1>8, <1>9, <1>10, <1>11, <1>12 DEF Next

LEMMA NextConsentStep ==
  ASSUME TypeOK, Consent, Next, ~(\E s \in Sessions : DeleteSession(s))
  PROVE  ConsentStep
<1>1. /\ (\E r \in Runs : BeginPreparedRun(r) \/ PreparedRunRejected(r)) => ConsentStep
      /\ (\E s \in Sessions, contract \in NewContracts, t \in Tasks, r \in Runs :
            BeginMessageRun(s, contract, t, r)) => ConsentStep
      /\ (\E s \in Sessions : \/ SetOutputContract(s) \/ GateDenied(s) \/ AuthorizeStale(s)
                              \/ StartCompletion(s) \/ StopSession(s) \/ TurnError(s)
                              \/ PromptRejected(s) \/ \E r \in Runs : CancelExternal(s, r))
           => ConsentStep
      /\ (\E s \in Sessions, a \in Keys : AuthorizeAuto(s, a) \/ AuthorizeAsk(s, a))
           => ConsentStep
  BY StepSettles
<1>2. /\ (\E t \in Tasks, trigger \in {"resume", "retry"} :
            PrepareRunRejected(t, trigger) \/ \E r \in Runs : PrepareRun(t, trigger, r))
           => ConsentStep
      /\ (\E a \in Keys : Approve(a) \/ DenyInCard(a) \/ DenyInChat(a)) => ConsentStep
      /\ (\E a \in Keys, effect \in {"succeeded", "failed"} : RecordToolResult(a, effect))
           => ConsentStep
      /\ (\E c \in collecting, verdict \in Outcomes, delivery \in Deliveries :
            FinishCompletion(c, verdict, delivery)) => ConsentStep
      /\ (\E t \in Tasks : AcceptTask(t)) => ConsentStep
      /\ (\E first \in [Tasks -> Runs] : Restart(first)) => ConsentStep
  BY StepSettles
<1>. QED BY <1>1, <1>2 DEF Next

(* The deletion of a session removes the approvals of its runs. *)
LEMMA DeleteConsent ==
  ASSUME TypeOK, Consent, NEW s \in Sessions, DeleteSession(s)
  PROVE  \A a \in Keys : /\ appr'[a] = appr[a] \/ appr'[a] = NoApproval
                         /\ RunExists(a[1])' => appr'[a] = appr[a]
<1>1. \A a \in Keys : appr'[a] = IF a[1] \in RunsOf(s) THEN NoApproval ELSE appr[a]
  BY DEF DeleteSession
<1>2. \A r \in RunsOf(s) : r \in Runs /\ run'[r].status = "deleted"
  BY DEF DeleteSession, RunsOf, NoRunRow
<1>3. \A r \in RunsOf(s) : ~RunExists(r)'
  BY <1>2 DEF RunExists, NoRow
<1>. QED BY <1>1, <1>3

LEMMA NextConsent ==
  ASSUME TypeOK, Consent, Next
  PROVE  Consent'
<1>1. EarlyKept
  BY NextEarly
<1>2. CASE \E s \in Sessions : DeleteSession(s)
  <2>1. \A a \in Keys : appr'[a] = appr[a] \/ appr'[a] = NoApproval
    BY <1>2, DeleteConsent
  <2>2. \A a \in Keys : a[1] \in Runs
    BY DEF Keys
  <2>. QED BY <1>1, <2>1, <2>2 DEF Consent, EarlyKept, Early, NoApproval
<1>3. CASE ConsentStep
  <2>1. \A a \in Keys : a[1] \in Runs
    BY DEF Keys
  <2>. QED BY <1>1, <1>3, <2>1 DEF Consent, ConsentStep, Settles, EarlyKept, Early
<1>. QED BY <1>2, <1>3, NextConsentStep

LEMMA InitConsent == Init => Consent
BY DEF Init, Consent, NoApproval

(* Consent, with the types, is an invariant: an effect that started was    *)
(* approved, and a run that has not begun has no approvals.                *)
THEOREM ConsentInvariant == Spec => []Consent
<1>1. Init => Consent
  BY InitConsent
<1>2. TypeOK /\ Consent /\ [Next]_vars => Consent'
  <2>1. TypeOK /\ Consent /\ Next => Consent'
    BY NextConsent
  <2>2. Consent /\ UNCHANGED vars => Consent'
    BY DEF vars, db, Consent, Keys
  <2>. QED BY <2>1, <2>2
<1>. QED BY <1>1, <1>2, TypeCorrect, PTL DEF Spec

(* Consent for effects, for every number of tasks, runs, sessions and      *)
(* calls: no tool effect starts without an approval, a decision is final,  *)
(* and an effect that ended never starts again.                            *)
THEOREM ConsentForEffects == Spec => EffectAtMostOnce
<1>. DEFINE Once ==
       \A a \in Keys : RunExists(a[1])' =>
         /\ appr[a].decision \in {"approved", "denied", "expired"} =>
              appr'[a].decision = appr[a].decision
         /\ appr'[a].effect # "not_started" => appr'[a].decision = "approved"
         /\ appr[a].effect \in {"succeeded", "failed", "needs_review"} =>
              appr'[a].effect = appr[a].effect
<1>1. TypeOK /\ Consent /\ Next => Once
  <2>. SUFFICES ASSUME TypeOK, Consent, Next PROVE Once
    OBVIOUS
  <2>1. CASE \E s \in Sessions : DeleteSession(s)
    BY <2>1, DeleteConsent DEF Consent
  <2>2. CASE ConsentStep
    BY <2>2 DEF ConsentStep, Settles
  <2>. QED BY <2>1, <2>2, NextConsentStep
<1>2. TypeOK /\ Consent /\ [Next]_vars => [Once]_vars
  BY <1>1
<1>. QED BY <1>2, TypeCorrect, ConsentInvariant, PTL DEF Spec, EffectAtMostOnce

-----------------------------------------------------------------------------
(***************************************************************************)
(* Agreement of tasks and runs.  What it says of one task, with row x.     *)
(***************************************************************************)
Agrees(t, x, rn) ==
  x.status \notin NoRow =>
    /\ x.active # NoRun => rn[x.active].task = t /\ rn[x.active].status \notin NoRow
    /\ x.status = "running" => x.active # NoRun /\ rn[x.active].status \in ActiveRun
    /\ x.status = "paused" => x.active # NoRun /\ rn[x.active].status = "paused"
    /\ x.status \in TerminalTask => x.active = NoRun
    /\ x.active # NoRun /\ rn[x.active].status \in ActiveRun => x.status = "running"

LEMMA AgreementByTask ==
  ASSUME NEW tk, NEW rn
  PROVE  Agreement(tk, rn) <=> \A t \in Tasks : Agrees(t, tk[t], rn)
BY DEF Agreement, Agrees

(* A task whose row and whose active run stay the same still agrees. *)
LEMMA AgreesKept ==
  ASSUME NEW t, NEW x, NEW rn, NEW rn2, Agrees(t, x, rn),
         x.active # NoRun /\ x.status \notin NoRow => rn2[x.active] = rn[x.active]
  PROVE  Agrees(t, x, rn2)
BY DEF Agrees

ActiveInRange(tk) == \A t \in Tasks : tk[t].active \in Runs \cup {NoRun}

(* A step about one task and one run of it, or a new one. *)
LEMMA OneTask ==
  ASSUME NEW tk, NEW rn, NEW tk2, NEW rn2, NEW t \in Tasks, NEW r \in Runs,
         Agreement(tk, rn), ActiveInRange(tk),
         run[r].task = t \/ run[r].status \in NoRow, rn[r] = run[r],
         \A u \in Tasks \ {t} : tk2[u] = tk[u],
         \A q \in Runs \ {r} : rn2[q] = rn[q],
         Agrees(t, tk2[t], rn2)
  PROVE  Agreement(tk2, rn2)
<1>1. ASSUME NEW u \in Tasks \ {t} PROVE Agrees(u, tk2[u], rn2)
  <2>1. Agrees(u, tk[u], rn)
    BY AgreementByTask
  <2>2. tk[u].active # NoRun /\ tk[u].status \notin NoRow
          => tk[u].active \in Runs /\ tk[u].active # r
    BY <2>1 DEF Agrees, ActiveInRange
  <2>3. Agrees(u, tk[u], rn2)
    BY <2>1, <2>2, AgreesKept
  <2>. QED BY <2>3
<1>2. \A u \in Tasks : Agrees(u, tk2[u], rn2)
  BY <1>1
<1>. QED BY <1>2, AgreementByTask

(* The pause and the failure of the run of a session, over any rows. *)
LEMMA PauseAgrees ==
  ASSUME NEW s, NEW tk, NEW rn, NEW ap, NEW ws, Agreement(tk, rn), ActiveInRange(tk),
         \A t \in Tasks : tk[t] \in TaskRow, \A r \in Runs : rn[r] \in RunRow,
         Pause(s, tk, rn, ap, ws)
  PROVE  Agreement(task', run')
<1>1. CASE task' = tk /\ run' = rn
  BY <1>1
<1>2. CASE /\ task' = [t \in Tasks |-> IF Target(s, t, tk, rn)
                                         THEN [tk[t] EXCEPT !.status = "paused"] ELSE tk[t]]
           /\ run' = [r \in Runs |-> IF r \in TargetRuns(s, tk, rn)
                                       THEN [rn[r] EXCEPT !.status = "paused"] ELSE rn[r]]
  <2>. SUFFICES ASSUME NEW t \in Tasks PROVE Agrees(t, task'[t], run')
    BY AgreementByTask
  <2>1. Agrees(t, tk[t], rn)
    BY AgreementByTask
  <2>2. CASE Target(s, t, tk, rn)
    <3>1. /\ tk[t].active \in Runs /\ tk[t].active # NoRun
          /\ rn[tk[t].active].status \in ActiveRun /\ tk[t].status \notin NoRow
      BY <2>2 DEF Target, ActiveInRange, IsActiveTask, OpenTasks
    <3>2. task'[t] = [tk[t] EXCEPT !.status = "paused"]
      BY <1>2, <2>2
    <3>3. tk[t].active \in TargetRuns(s, tk, rn)
      BY <2>2, <3>1 DEF TargetRuns
    <3>4. run'[tk[t].active] = [rn[tk[t].active] EXCEPT !.status = "paused"]
      BY <1>2, <3>1, <3>3
    <3>5. task'[t].status = "paused" /\ task'[t].active = tk[t].active
      BY <3>2 DEF TaskRow
    <3>6. /\ run'[tk[t].active].status = "paused"
          /\ run'[tk[t].active].task = rn[tk[t].active].task
      BY <3>1, <3>4 DEF RunRow
    <3>7. rn[tk[t].active].task = t
      BY <2>1, <3>1 DEF Agrees
    <3>. QED BY <3>1, <3>5, <3>6, <3>7 DEF Agrees, NoRow, ActiveRun, TerminalTask
  <2>3. CASE ~Target(s, t, tk, rn)
    <3>1. task'[t] = tk[t]
      BY <1>2, <2>3
    <3>2. ASSUME tk[t].active # NoRun, tk[t].status \notin NoRow
          PROVE  run'[tk[t].active] = rn[tk[t].active]
      <4>1. tk[t].active \in Runs /\ rn[tk[t].active].task = t
        BY <2>1, <3>2 DEF Agrees, ActiveInRange
      <4>2. tk[t].active \notin TargetRuns(s, tk, rn)
        <5>1. SUFFICES ASSUME NEW u \in Tasks, Target(s, u, tk, rn), tk[u].active = tk[t].active
                       PROVE  FALSE
          BY DEF TargetRuns
        <5>2. tk[u].status \notin NoRow /\ tk[u].active # NoRun
          BY <5>1 DEF Target, IsActiveTask, OpenTasks
        <5>3. rn[tk[u].active].task = u
          BY <5>2, AgreementByTask DEF Agrees
        <5>. QED BY <2>3, <4>1, <5>1, <5>3
      <4>. QED BY <1>2, <4>1, <4>2
    <3>. QED BY <2>1, <3>1, <3>2, AgreesKept
  <2>. QED BY <2>2, <2>3
<1>. QED BY <1>1, <1>2 DEF Pause

LEMMA RowTypes ==
  ASSUME TypeOK
  PROVE  /\ ActiveInRange(task)
         /\ \A t \in Tasks : task[t] \in TaskRow
         /\ \A r \in Runs : run[r] \in RunRow
BY DEF TypeOK, TaskRow, ActiveInRange

LEMMA PauseRunAgrees ==
  ASSUME TypeOK, TaskRunAgreement, NEW s, PauseRun(s)
  PROVE  TaskRunAgreement'
BY RowTypes, PauseAgrees DEF PauseRun, TaskRunAgreement

LEMMA FailRunAgrees ==
  ASSUME TypeOK, TaskRunAgreement, NEW s, FailRun(s)
  PROVE  TaskRunAgreement'
<1>. SUFFICES ASSUME NEW t \in Tasks PROVE Agrees(t, task'[t], run')
  BY AgreementByTask DEF TaskRunAgreement
<1>1. Agrees(t, task[t], run)
  BY AgreementByTask DEF TaskRunAgreement
<1>2. CASE Target(s, t, task, run)
  <2>1. task'[t] = [task[t] EXCEPT !.status = "failed", !.active = NoRun]
    BY <1>2 DEF FailRun
  <2>2. task'[t].status = "failed" /\ task'[t].active = NoRun
    BY <2>1, RowTypes DEF TaskRow
  <2>. QED BY <2>2 DEF Agrees, TerminalTask
<1>3. CASE ~Target(s, t, task, run)
  <2>1. task'[t] = task[t]
    BY <1>3 DEF FailRun
  <2>2. ASSUME task[t].active # NoRun, task[t].status \notin NoRow
        PROVE  run'[task[t].active] = run[task[t].active]
    <3>1. task[t].active \in Runs /\ run[task[t].active].task = t
      BY <1>1, <2>2, RowTypes DEF Agrees, ActiveInRange
    <3>2. task[t].active \notin TargetRuns(s, task, run)
      <4>1. SUFFICES ASSUME NEW u \in Tasks, Target(s, u, task, run),
                            task[u].active = task[t].active
                     PROVE  FALSE
        BY DEF TargetRuns
      <4>2. task[u].status \notin NoRow /\ task[u].active # NoRun
        BY <4>1 DEF Target, IsActiveTask, OpenTasks
      <4>3. run[task[u].active].task = u
        BY <4>2, AgreementByTask DEF Agrees, TaskRunAgreement
      <4>. QED BY <1>3, <3>1, <4>1, <4>3
    <3>. QED BY <3>1, <3>2 DEF FailRun
  <2>. QED BY <1>1, <2>1, <2>2, AgreesKept
<1>. QED BY <1>2, <1>3

(* A step about one task t and its run r, stated over the ledger. *)
LEMMA OneTaskStep ==
  ASSUME TypeOK, TaskRunAgreement, NEW t \in Tasks, NEW r \in Runs,
         run[r].task = t \/ run[r].status \in NoRow,
         \A u \in Tasks \ {t} : task'[u] = task[u],
         \A q \in Runs \ {r} : run'[q] = run[q],
         Agrees(t, task'[t], run')
  PROVE  TaskRunAgreement'
BY OneTask, RowTypes DEF TaskRunAgreement

(* The forms a step about one task takes. *)
LEMMA RunningAgrees ==
  ASSUME TypeOK, TaskRunAgreement, NEW t \in Tasks, NEW r \in Runs, NEW status \in ActiveRun,
         NEW trigger,
         run[r].task = t \/ run[r].status \in NoRow,
         task' = MovedTask(t, "running", r),
         \/ run' = [run EXCEPT ![r] = [status |-> status, task |-> t,
                                       trigger |-> trigger, outcome |-> "none"]]
         \/ run' = Moved(run, r, status) /\ run[r].task = t
  PROVE  TaskRunAgreement'
<1>1. task'[t].status = "running" /\ task'[t].active = r
  BY RowTypes DEF MovedTask, TypeOK, TaskRow
<1>2. run'[r].status = status /\ run'[r].task = t
  BY RowTypes DEF Moved, TypeOK, RunRow
<1>3. Agrees(t, task'[t], run')
  BY <1>1, <1>2 DEF Agrees, NoRow, ActiveRun, TerminalTask, NoRun, Runs
<1>4. \A u \in Tasks \ {t} : task'[u] = task[u]
  BY DEF MovedTask, TypeOK
<1>5. \A q \in Runs \ {r} : run'[q] = run[q]
  BY DEF Moved, TypeOK
<1>. QED BY <1>3, <1>4, <1>5, OneTaskStep

LEMMA EndedAgrees ==
  ASSUME TypeOK, TaskRunAgreement, NEW t \in Tasks, NEW r \in Runs, NEW status \in TerminalTask,
         run[r].task = t,
         task' = MovedTask(t, status, NoRun),
         \A q \in Runs \ {r} : run'[q] = run[q]
  PROVE  TaskRunAgreement'
<1>1. task'[t].status = status /\ task'[t].active = NoRun
  BY RowTypes DEF MovedTask, TypeOK, TaskRow
<1>2. Agrees(t, task'[t], run')
  BY <1>1 DEF Agrees, TerminalTask
<1>3. \A u \in Tasks \ {t} : task'[u] = task[u]
  BY DEF MovedTask, TypeOK
<1>. QED BY <1>2, <1>3, OneTaskStep

(* The task row stays, and its active run remains one under way. *)
LEMMA UnderWayAgrees ==
  ASSUME TypeOK, TaskRunAgreement, NEW r \in Runs, NEW status \in ActiveRun,
         run[r].task \in Tasks, run[r].status \in ActiveRun,
         task' = task, run' = Moved(run, r, status)
  PROVE  TaskRunAgreement'
<1>. DEFINE t == run[r].task
<1>1. run'[r].status = status /\ run'[r].task = t
  BY RowTypes DEF Moved, TypeOK, RunRow
<1>2. \A q \in Runs \ {r} : run'[q] = run[q]
  BY DEF Moved, TypeOK
<1>3. Agrees(t, task[t], run)
  BY AgreementByTask DEF TaskRunAgreement
<1>4. Agrees(t, task[t], run')
  <2>1. CASE task[t].active = r
    BY <1>1, <1>3, <2>1 DEF Agrees, ActiveRun, NoRow
  <2>2. CASE task[t].active # r
    <3>1. task[t].active # NoRun => run'[task[t].active] = run[task[t].active]
      BY <1>2, <2>2, RowTypes DEF ActiveInRange
    <3>. QED BY <1>3, <3>1, AgreesKept
  <2>. QED BY <2>1, <2>2
<1>. QED BY <1>2, <1>4, OneTaskStep

LEMMA MessageRunAgrees ==
  ASSUME TypeOK, TaskRunAgreement, NEW s \in Sessions, NEW contract, NEW t \in Tasks,
         NEW r \in Runs, BeginMessageRun(s, contract, t, r)
  PROVE  TaskRunAgreement'
<1>. SUFFICES ASSUME NEW u \in Tasks PROVE Agrees(u, task'[u], run')
  BY AgreementByTask DEF TaskRunAgreement
<1>1. run[r].status = "absent" /\ run'[r] = [status |-> "running", task |-> t,
                                             trigger |-> "message", outcome |-> "none"]
  BY DEF BeginMessageRun, NextRun
<1>2. Agrees(u, task[u], run)
  BY AgreementByTask DEF TaskRunAgreement
<1>3. CASE u = t
  <2>1. task'[t].status = "running" /\ task'[t].active = r
    BY DEF BeginMessageRun
  <2>. QED BY <1>1, <1>3, <2>1 DEF Agrees, NoRow, ActiveRun, TerminalTask, Runs, NoRun
<1>4. CASE u # t /\ u \in Superseded(s)
  <2>1. task'[u] = [task[u] EXCEPT !.status = "cancelled", !.active = NoRun]
    BY <1>4 DEF BeginMessageRun
  <2>2. task'[u].status = "cancelled" /\ task'[u].active = NoRun
    BY <2>1, RowTypes DEF TaskRow
  <2>. QED BY <2>2 DEF Agrees, TerminalTask
<1>5. CASE u # t /\ u \notin Superseded(s)
  <2>1. task'[u] = task[u]
    BY <1>5 DEF BeginMessageRun
  <2>2. ASSUME task[u].active # NoRun, task[u].status \notin NoRow
        PROVE  run'[task[u].active] = run[task[u].active]
    <3>1. /\ task[u].active \in Runs /\ run[task[u].active].task = u
          /\ task[u].active # r
      BY <1>1, <1>2, <2>2, RowTypes DEF Agrees, ActiveInRange, NoRow
    <3>2. task[u].active \notin SupersededRuns(s)
      <4>1. SUFFICES ASSUME NEW w \in Superseded(s), task[w].active = task[u].active
                     PROVE  FALSE
        BY DEF SupersededRuns
      <4>2. w \in Tasks /\ task[w].status \notin NoRow
        BY <4>1 DEF Superseded, IsActiveTask, OpenTasks
      <4>3. run[task[w].active].task = w
        BY <2>2, <4>1, <4>2, AgreementByTask DEF Agrees, TaskRunAgreement
      <4>. QED BY <1>5, <3>1, <4>1, <4>3
    <3>. QED BY <3>1, <3>2 DEF BeginMessageRun
  <2>. QED BY <1>2, <2>1, <2>2, AgreesKept
<1>. QED BY <1>3, <1>4, <1>5

LEMMA PrepareAgrees ==
  ASSUME TypeOK, TaskRunAgreement, NEW t \in Tasks, NEW trigger, NEW r \in Runs,
         PrepareRun(t, trigger, r)
  PROVE  TaskRunAgreement'
<1>1. run[r].status \in NoRow
  BY DEF PrepareRun, NextRun, NoRow
<1>2. /\ run' = [run EXCEPT ![r] = [status |-> "queued", task |-> t,
                                    trigger |-> trigger, outcome |-> "none"]]
      /\ task' = MovedTask(t, "running", r)
  BY DEF PrepareRun
<1>3. "queued" \in ActiveRun
  BY DEF ActiveRun
<1>. QED BY <1>1, <1>2, <1>3, RunningAgrees

LEMMA OwnedTask ==
  ASSUME Owned, NEW r \in Runs, run[r].status \in ActiveRun \cup {"paused"}
  PROVE  run[r].task \in Tasks /\ task[run[r].task].status \notin NoRow
BY DEF Owned, RunExists, TaskExists, NoRow, ActiveRun

LEMMA MayRun ==
  ASSUME NEW r \in Runs, CanMoveRun(r, "running"), run[r] \in RunRow
  PROVE  run[r].status \in ActiveRun
BY DEF CanMoveRun, RunMoves, ActiveRun, RunRow, RunStatuses, NoRow

LEMMA BeginPreparedAgrees ==
  ASSUME TypeOK, Owned, TaskRunAgreement, NEW r \in Runs, BeginPreparedRun(r)
  PROVE  TaskRunAgreement'
<1>1. run[r].status \in ActiveRun
  BY MayRun, RowTypes DEF BeginPreparedRun
<1>2. run[r].task \in Tasks
  BY <1>1, OwnedTask
<1>3. "running" \in ActiveRun
  BY DEF ActiveRun
<1>4. task' = MovedTask(run[r].task, "running", r) /\ run' = Moved(run, r, "running")
  BY DEF BeginPreparedRun
<1>. QED BY <1>2, <1>3, <1>4, RunningAgrees

LEMMA AskAgrees ==
  ASSUME TypeOK, Owned, TaskRunAgreement, NEW a \in Keys,
         \/ \E s \in Sessions : AuthorizeAsk(s, a)
         \/ Approve(a)
  PROVE  TaskRunAgreement'
<1>1. a[1] \in Runs
  BY DEF Keys
<1>2. run[a[1]].status \in ActiveRun
  <2>1. CASE Approve(a)
    BY <1>1, <2>1, MayRun, RowTypes DEF Approve
  <2>2. CASE \E s \in Sessions : AuthorizeAsk(s, a)
    BY <2>2 DEF AuthorizeAsk, MayAuthorize, IsRunning, ActiveRun
  <2>. QED BY <2>1, <2>2
<1>3. run[a[1]].task \in Tasks
  BY <1>1, <1>2, OwnedTask
<1>4. /\ task' = task
      /\ run' = Moved(run, a[1], "waiting_approval") \/ run' = Moved(run, a[1], "running")
  BY DEF AuthorizeAsk, Approve
<1>5. "waiting_approval" \in ActiveRun /\ "running" \in ActiveRun
  BY DEF ActiveRun
<1>. QED BY <1>1, <1>2, <1>3, <1>4, <1>5, UnderWayAgrees

(* The rows a denial writes, before the chat stops the turn. *)
DeniedTask(a) == MovedTask(run[a[1]].task, "paused", a[1])
DeniedRun(a) == Moved(run, a[1], "paused")

LEMMA DeniedRowsAgree ==
  ASSUME TypeOK, Owned, TaskRunAgreement, NEW a \in Keys, MayDeny(a)
  PROVE  /\ Agreement(DeniedTask(a), DeniedRun(a))
         /\ ActiveInRange(DeniedTask(a))
         /\ \A t \in Tasks : DeniedTask(a)[t] \in TaskRow
         /\ \A r \in Runs : DeniedRun(a)[r] \in RunRow
<1>. DEFINE r == a[1]
            t == run[r].task
<1>1. r \in Runs
  BY DEF Keys
<1>2. run[r].status \in ActiveRun \cup {"paused"}
  BY <1>1, RowTypes DEF MayDeny, CanMoveRun, RunMoves, ActiveRun, RunRow, RunStatuses, NoRow
<1>3. t \in Tasks
  BY <1>1, <1>2, OwnedTask
<1>. DEFINE tk == DeniedTask(a)
            rn == DeniedRun(a)
<1>4. /\ tk[t] = [task[t] EXCEPT !.status = "paused", !.active = r]
      /\ \A u \in Tasks \ {t} : tk[u] = task[u]
  BY <1>1, <1>3 DEF DeniedTask, MovedTask, TypeOK
<1>5. /\ rn[r] = [run[r] EXCEPT !.status = "paused"]
      /\ \A q \in Runs \ {r} : rn[q] = run[q]
  BY <1>1 DEF DeniedRun, Moved, TypeOK
<1>6. task[t] \in TaskRow /\ run[r] \in RunRow
  BY <1>1, <1>3, RowTypes
<1>. HIDE DEF tk, rn, t, r
<1>7. tk[t].status = "paused" /\ tk[t].active = r /\ tk[t] \in TaskRow
  BY <1>1, <1>4, <1>6 DEF TaskRow, TaskStatuses
<1>8. rn[r].status = "paused" /\ rn[r].task = run[r].task /\ rn[r] \in RunRow
  BY <1>5, <1>6 DEF RunRow, RunStatuses
<1>9. Agrees(t, tk[t], rn)
  <2>1. r # NoRun
    BY <1>1 DEF Runs, NoRun
  <2>2. rn[r].task = t
    BY <1>8 DEF t
  <2>. QED BY <1>7, <1>8, <2>1, <2>2 DEF Agrees, NoRow, ActiveRun, TerminalTask
<1>10. Agreement(tk, rn)
  <2>1. run[r].task = t
    BY DEF t
  <2>2. Agrees(t, task[t], run)
    BY <1>3, AgreementByTask DEF TaskRunAgreement
  <2>. QED BY <1>1, <1>3, <1>4, <1>5, <1>9, <2>1, RowTypes, OneTask DEF TaskRunAgreement
<1>11. \A u \in Tasks : tk[u] \in TaskRow
  BY <1>4, <1>7, RowTypes
<1>12. \A q \in Runs : rn[q] \in RunRow
  BY <1>5, <1>8, RowTypes
<1>13. ActiveInRange(tk)
  BY <1>11 DEF ActiveInRange, TaskRow
<1>. QED BY <1>10, <1>11, <1>12, <1>13 DEF tk, rn

LEMMA DenialAgrees ==
  ASSUME TypeOK, Owned, TaskRunAgreement, NEW a \in Keys, DenyInCard(a) \/ DenyInChat(a)
  PROVE  TaskRunAgreement'
<1>1. MayDeny(a)
  BY DEF DenyInCard, DenyInChat
<1>2. CASE DenyInCard(a)
  BY <1>1, <1>2, DeniedRowsAgree DEF DenyInCard, DeniedTask, DeniedRun, TaskRunAgreement
<1>3. CASE DenyInChat(a)
  <2>1. Pause(SessionOf(a[1]), DeniedTask(a), DeniedRun(a),
              Decided(a, "denied", "not_started"), waiters \ {a})
    BY <1>3 DEF DenyInChat, DeniedTask, DeniedRun
  <2>. QED BY <1>1, <2>1, DeniedRowsAgree, PauseAgrees DEF TaskRunAgreement
<1>. QED BY <1>2, <1>3

LEMMA OutputAgrees ==
  ASSUME TypeOK, Owned, TaskRunAgreement, NEW s \in Sessions, SetOutputContract(s)
  PROVE  TaskRunAgreement'
<1>. SUFFICES ASSUME NEW t \in Tasks PROVE Agrees(t, task'[t], run')
  BY AgreementByTask DEF TaskRunAgreement
<1>1. Agrees(t, task[t], run)
  BY AgreementByTask DEF TaskRunAgreement
<1>2. task'[t].status = task[t].status /\ task'[t].active = task[t].active /\ run' = run
  BY RowTypes DEF SetOutputContract, TypeOK, TaskRow
<1>. QED BY <1>1, <1>2 DEF Agrees

LEMMA FinishAgrees ==
  ASSUME TypeOK, Owned, TaskRunAgreement, NEW c \in collecting, NEW verdict, NEW delivery,
         FinishCompletion(c, verdict, delivery)
  PROVE  TaskRunAgreement'
<1>. DEFINE r == c.run
            t == run[r].task
            outcome == DeliveryGate(verdict, c.contract, delivery)
<1>1. r \in Runs
  BY DEF TypeOK, Completion
<1>2. CASE ~StillActive(r)
  BY <1>2 DEF FinishCompletion, TaskRunAgreement
<1>3. CASE StillActive(r)
  <2>1. run[r].status = "running"
    BY <1>3 DEF StillActive, IsRunning
  <2>2. t \in Tasks /\ run[r] \in RunRow
    BY <1>1, <2>1, OwnedTask, RowTypes DEF ActiveRun
  <2>3. /\ run' = Concluded(r, outcome)
        /\ task' = IF outcome = "passed" THEN MovedTask(t, "completed", NoRun)
                                         ELSE MovedTask(t, "needs_review", r)
    BY <1>3 DEF FinishCompletion
  <2>. HIDE DEF outcome
  <2>4. \A q \in Runs \ {r} : run'[q] = run[q]
    BY <2>3 DEF Concluded, TypeOK
  <2>5. CASE outcome = "passed"
    BY <1>1, <2>2, <2>3, <2>4, <2>5, EndedAgrees DEF TerminalTask
  <2>6. CASE outcome # "passed"
    <3>1. task'[t].status = "needs_review" /\ task'[t].active = r
      BY <2>2, <2>3, <2>6, RowTypes DEF MovedTask, TypeOK, TaskRow
    <3>2. run'[r].status = "needs_review" /\ run'[r].task = t
      BY <1>1, <2>2, <2>3, <2>6 DEF Concluded, TypeOK, RunRow
    <3>3. Agrees(t, task'[t], run')
      BY <3>1, <3>2 DEF Agrees, NoRow, ActiveRun, TerminalTask
    <3>4. \A u \in Tasks \ {t} : task'[u] = task[u]
      BY <2>2, <2>3, <2>6 DEF MovedTask, TypeOK
    <3>. QED BY <1>1, <2>2, <2>4, <3>3, <3>4, OneTaskStep
  <2>. QED BY <2>5, <2>6
<1>. QED BY <1>2, <1>3

LEMMA AcceptAgrees ==
  ASSUME TypeOK, TaskRunAgreement, NEW t \in Tasks, AcceptTask(t)
  PROVE  TaskRunAgreement'
<1>. DEFINE r == task[t].active
<1>1. /\ task[t].status = "needs_review" /\ r # NoRun
      /\ run' = Concluded(r, "passed") /\ task' = MovedTask(t, "completed", NoRun)
  BY DEF AcceptTask
<1>2. r \in Runs
  BY <1>1, RowTypes DEF ActiveInRange
<1>3. Agrees(t, task[t], run)
  BY AgreementByTask DEF TaskRunAgreement
<1>4. run[r].task = t
  BY <1>1, <1>3 DEF Agrees, NoRow
<1>5. \A q \in Runs \ {r} : run'[q] = run[q]
  BY <1>1, <1>2 DEF Concluded, TypeOK
<1>. QED BY <1>1, <1>2, <1>4, <1>5, EndedAgrees DEF TerminalTask

LEMMA CancelAgrees ==
  ASSUME TypeOK, Owned, TaskRunAgreement, NEW s, NEW r \in Runs, CancelExternal(s, r)
  PROVE  TaskRunAgreement'
<1>1. run[r].task \in Tasks
  BY OwnedTask DEF CancelExternal
<1>2. /\ task' = MovedTask(run[r].task, "cancelled", NoRun)
      /\ run' = Moved(run, r, "cancelled")
  BY DEF CancelExternal
<1>3. \A q \in Runs \ {r} : run'[q] = run[q]
  BY <1>2 DEF Moved, TypeOK
<1>. QED BY <1>1, <1>2, <1>3, EndedAgrees DEF TerminalTask

LEMMA DeleteAgrees ==
  ASSUME TypeOK, TaskRunAgreement, NEW s, DeleteSession(s)
  PROVE  TaskRunAgreement'
<1>. SUFFICES ASSUME NEW t \in Tasks PROVE Agrees(t, task'[t], run')
  BY AgreementByTask DEF TaskRunAgreement
<1>1. Agrees(t, task[t], run)
  BY AgreementByTask DEF TaskRunAgreement
<1>2. CASE TaskExists(t) /\ task[t].session = s
  <2>1. task'[t] = [NoTaskRow EXCEPT !.status = "deleted"]
    BY <1>2 DEF DeleteSession
  <2>2. task'[t].status = "deleted"
    BY <2>1 DEF NoTaskRow
  <2>. QED BY <2>2 DEF Agrees, NoRow
<1>3. CASE ~(TaskExists(t) /\ task[t].session = s)
  <2>1. task'[t] = task[t]
    BY <1>3 DEF DeleteSession
  <2>2. ASSUME task[t].active # NoRun, task[t].status \notin NoRow
        PROVE  run'[task[t].active] = run[task[t].active]
    <3>1. task[t].active \in Runs /\ run[task[t].active].task = t
      BY <1>1, <2>2, RowTypes DEF Agrees, ActiveInRange
    <3>2. task[t].active \notin RunsOf(s)
      BY <1>3, <2>2, <3>1 DEF RunsOf, SessionOf, TaskExists
    <3>. QED BY <3>1, <3>2 DEF DeleteSession
  <2>. QED BY <1>1, <2>1, <2>2, AgreesKept
<1>. QED BY <1>2, <1>3

(* Recovery leaves queued runs alone, and a task takes the status of one   *)
(* of its interrupted runs: the active one of a running task is among them *)
(* unless it is queued.                                                    *)
LEMMA RestartAgrees ==
  ASSUME TypeOK, Consent, TaskRunAgreement, NEW first \in [Tasks -> Runs], Restart(first)
  PROVE  TaskRunAgreement'
<1>. SUFFICES ASSUME NEW t \in Tasks PROVE Agrees(t, task'[t], run')
  BY AgreementByTask DEF TaskRunAgreement
<1>1. Agrees(t, task[t], run)
  BY AgreementByTask DEF TaskRunAgreement
<1>2. \A r \in Runs :
        /\ run'[r].task = run[r].task
        /\ run[r].status = "waiting_approval" => run'[r].status = "paused"
        /\ run[r].status = "running" => run'[r].status = "needs_review"
        /\ run[r].status \notin {"running", "waiting_approval"} => run'[r] = run[r]
  BY RowTypes DEF Restart, RunRow
<1>3. CASE task[t].status = "running" /\ RecoveryChoices(t) # {}
  <2>. DEFINE f == first[t]
  <2>1. f \in RecoveryChoices(t) /\ task'[t] = RecoveredTask(t, f)
    BY <1>3 DEF Restart
  <2>2. f \in Runs /\ run[f].task = t
    BY <2>1 DEF RecoveryChoices, Recoverable, Uncertain
  <2>3. run[f].status \in RunStatuses \ {"queued"}
    <3>1. CASE f \in Recoverable(t)
      BY <3>1 DEF Recoverable, RunStatuses
    <3>2. CASE f \in Uncertain(t)
      <4>1. PICK c \in Calls : appr[<<f, c>>].effect = "executing"
        BY <3>2 DEF Uncertain
      <4>2. <<f, c>> \in Keys /\ <<f, c>>[1] = f
        BY <2>2, <4>1 DEF Keys
      <4>3. appr[<<f, c>>] # NoApproval
        BY <4>1 DEF NoApproval
      <4>4. run[f].status # "queued"
        BY <4>2, <4>3 DEF Consent
      <4>5. run[f].status \notin NoRow /\ run[f] \in RunRow
        BY <2>2, <3>2, RowTypes DEF Uncertain, RunExists
      <4>. QED BY <4>4, <4>5 DEF RunRow
    <3>. QED BY <2>1, <3>1, <3>2 DEF RecoveryChoices
  <2>4. /\ task'[t].active = f
        /\ task'[t].status = IF run[f].status = "waiting_approval" THEN "paused"
                                                                   ELSE "needs_review"
    BY <2>1, RowTypes DEF RecoveredTask, TaskRow
  <2>5. f # NoRun
    BY <2>2 DEF Runs, NoRun
  <2>6. CASE run[f].status = "waiting_approval"
    BY <1>2, <2>2, <2>4, <2>5, <2>6 DEF Agrees, NoRow, ActiveRun, TerminalTask
  <2>7. CASE run[f].status = "running"
    BY <1>2, <2>2, <2>4, <2>5, <2>7 DEF Agrees, NoRow, ActiveRun, TerminalTask
  <2>8. CASE run[f].status \notin {"waiting_approval", "running"}
    BY <1>2, <2>2, <2>3, <2>4, <2>5, <2>8 DEF Agrees, NoRow, ActiveRun, TerminalTask, RunStatuses
  <2>. QED BY <2>6, <2>7, <2>8
<1>4. CASE ~(task[t].status = "running" /\ RecoveryChoices(t) # {})
  <2>1. task'[t] = task[t]
    BY <1>4 DEF Restart
  <2>2. ASSUME task[t].active # NoRun, task[t].status \notin NoRow
        PROVE  run'[task[t].active] = run[task[t].active]
    <3>. DEFINE r == task[t].active
    <3>1. r \in Runs /\ run[r].task = t
      BY <1>1, <2>2, RowTypes DEF Agrees, ActiveInRange
    <3>2. CASE task[t].status = "running"
      <4>1. r \notin Recoverable(t)
        BY <1>4, <3>2 DEF RecoveryChoices
      <4>. QED BY <1>2, <3>1, <4>1 DEF Recoverable
    <3>3. CASE task[t].status # "running"
      <4>1. run[r].status \notin ActiveRun
        BY <1>1, <2>2, <3>3 DEF Agrees
      <4>. QED BY <1>2, <3>1, <4>1 DEF ActiveRun
    <3>. QED BY <3>2, <3>3
  <2>. QED BY <1>1, <2>1, <2>2, AgreesKept
<1>. QED BY <1>3, <1>4

LEMMA NextAgrees ==
  ASSUME TypeOK, Owned, Consent, TaskRunAgreement, Next
  PROVE  TaskRunAgreement'
<1>0. task' = task /\ run' = run => TaskRunAgreement'
  BY DEF TaskRunAgreement
<1>1. CASE \E r \in Runs : BeginPreparedRun(r) \/ PreparedRunRejected(r)
  <2>. PICK r \in Runs : BeginPreparedRun(r) \/ PreparedRunRejected(r)
    BY <1>1
  <2>1. CASE BeginPreparedRun(r)
    BY <2>1, BeginPreparedAgrees
  <2>2. CASE PreparedRunRejected(r)
    BY <1>0, <2>2, PauseRunAgrees, FailRunAgrees
       DEF PreparedRunRejected, CaughtByStartSession, CaughtByObserver
  <2>. QED BY <2>1, <2>2
<1>2. CASE \E s \in Sessions, contract \in NewContracts, t \in Tasks, r \in Runs :
             BeginMessageRun(s, contract, t, r)
  BY <1>2, MessageRunAgrees
<1>3. CASE \E s \in Sessions : \/ SetOutputContract(s) \/ GateDenied(s) \/ AuthorizeStale(s)
                               \/ StartCompletion(s) \/ TurnError(s) \/ PromptRejected(s)
                               \/ StopSession(s) \/ DeleteSession(s)
  <2>. PICK s \in Sessions : \/ SetOutputContract(s) \/ GateDenied(s) \/ AuthorizeStale(s)
                             \/ StartCompletion(s) \/ TurnError(s) \/ PromptRejected(s)
                             \/ StopSession(s) \/ DeleteSession(s)
    BY <1>3
  <2>1. SetOutputContract(s) \/ DeleteSession(s) => TaskRunAgreement'
    BY OutputAgrees, DeleteAgrees
  <2>2. GateDenied(s) \/ AuthorizeStale(s) \/ TurnError(s) \/ StopSession(s)
          => TaskRunAgreement'
    BY <1>0, PauseRunAgrees, FailRunAgrees DEF GateDenied, AuthorizeStale, TurnError, StopSession
  <2>3. StartCompletion(s) \/ PromptRejected(s) => TaskRunAgreement'
    BY <1>0 DEF StartCompletion, PromptRejected, db
  <2>. QED BY <2>1, <2>2, <2>3
<1>4. CASE \E s \in Sessions, a \in Keys : AuthorizeAuto(s, a) \/ AuthorizeAsk(s, a)
  BY <1>0, <1>4, AskAgrees DEF AuthorizeAuto
<1>5. CASE \E s \in Sessions, r \in Runs : CancelExternal(s, r)
  BY <1>5, CancelAgrees
<1>6. CASE \E t \in Tasks, trigger \in {"resume", "retry"} :
             PrepareRunRejected(t, trigger) \/ \E r \in Runs : PrepareRun(t, trigger, r)
  <2>1. \A t, trigger : PrepareRunRejected(t, trigger) => TaskRunAgreement'
    BY PauseRunAgrees, FailRunAgrees DEF PrepareRunRejected
  <2>. QED BY <1>6, <2>1, PrepareAgrees
<1>7. CASE \E a \in Keys : Approve(a) \/ DenyInCard(a) \/ DenyInChat(a)
  BY <1>7, AskAgrees, DenialAgrees
<1>8. CASE \E a \in Keys, effect \in {"succeeded", "failed"} : RecordToolResult(a, effect)
  BY <1>0, <1>8 DEF RecordToolResult
<1>9. CASE \E c \in collecting, verdict \in Outcomes, delivery \in Deliveries :
             FinishCompletion(c, verdict, delivery)
  BY <1>9, FinishAgrees
<1>10. CASE \E t \in Tasks : AcceptTask(t)
  BY <1>10, AcceptAgrees
<1>11. CASE \E first \in [Tasks -> Runs] : Restart(first)
  BY <1>11, RestartAgrees
<1>. QED
  BY <1>1, <1>2, <1>3, <1>4, <1>5, <1>6, <1>7, <1>8, <1>9, <1>10, <1>11 DEF Next

LEMMA InitAgrees == Init => TaskRunAgreement
BY DEF Init, TaskRunAgreement, Agreement, NoTaskRow, NoRow

(* Agreement, for every number of tasks, runs, sessions and calls: a task  *)
(* and its active run never disagree, whatever is clicked, stopped,        *)
(* failed, completed late or recovered after a crash.                      *)
THEOREM TasksAgreeWithRuns == Spec => []TaskRunAgreement
<1>1. Init => TaskRunAgreement
  BY InitAgrees
<1>2. TypeInv /\ Consent /\ TaskRunAgreement /\ [Next]_vars => TaskRunAgreement'
  <2>1. TypeInv /\ Consent /\ TaskRunAgreement /\ Next => TaskRunAgreement'
    BY NextAgrees DEF TypeInv
  <2>2. TaskRunAgreement /\ UNCHANGED vars => TaskRunAgreement'
    BY DEF vars, db, TaskRunAgreement
  <2>. QED BY <2>1, <2>2
<1>. QED BY <1>1, <1>2, TypeInvariant, ConsentInvariant, PTL DEF Spec

-----------------------------------------------------------------------------
(***************************************************************************)
(* Promotion and silence.  Every step but the end of a run that passes and *)
(* the deletion of a session is quiet: no run succeeds, no task is         *)
(* completed and no cancelled task is touched.                             *)
(***************************************************************************)
QuietRuns ==
  \A r \in Runs : /\ run[r].status = "succeeded" => run'[r] = run[r]
                  /\ run'[r].status = "succeeded" => run[r].status = "succeeded"
QuietTasks ==
  \A t \in Tasks : /\ task'[t].status = "completed" => task[t].status = "completed"
                   /\ task[t].status = "cancelled" => task'[t] = task[t]

LEMMA QuietSame ==
  /\ run' = run => QuietRuns
  /\ task' = task => QuietTasks
BY DEF QuietRuns, QuietTasks

LEMMA QuietMovedTask ==
  ASSUME TypeOK, NEW t \in Tasks, NEW status, NEW active,
         status # "completed", task[t].status # "cancelled",
         task' = MovedTask(t, status, active)
  PROVE  QuietTasks
<1>1. task'[t].status = status
  BY RowTypes DEF MovedTask, TypeOK, TaskRow
<1>2. \A u \in Tasks \ {t} : task'[u] = task[u]
  BY DEF MovedTask, TypeOK
<1>. QED BY <1>1, <1>2 DEF QuietTasks

LEMMA QuietMovedRun ==
  ASSUME TypeOK, NEW r \in Runs, NEW status,
         status # "succeeded", run[r].status # "succeeded",
         run' = Moved(run, r, status)
  PROVE  QuietRuns
<1>1. run'[r].status = status
  BY RowTypes DEF Moved, TypeOK, RunRow
<1>2. \A q \in Runs \ {r} : run'[q] = run[q]
  BY DEF Moved, TypeOK
<1>. QED BY <1>1, <1>2 DEF QuietRuns

LEMMA QuietPause ==
  ASSUME TypeOK, NEW s, PauseRun(s) \/ FailRun(s)
  PROVE  QuietRuns /\ QuietTasks
<1>1. \A r \in Runs : \/ run'[r] = run[r]
                      \/ /\ r \in TargetRuns(s, task, run)
                         /\ \/ run'[r] = [run[r] EXCEPT !.status = "paused"]
                            \/ run'[r] = [run[r] EXCEPT !.status = "failed"]
  BY DEF PauseRun, Pause, FailRun
<1>2. \A r \in TargetRuns(s, task, run) : run[r].status # "succeeded"
  BY DEF TargetRuns, Target, ActiveRun
<1>3. QuietRuns
  BY <1>1, <1>2, RowTypes DEF QuietRuns, RunRow
<1>4. \A t \in Tasks :
        \/ task'[t] = task[t]
        \/ /\ Target(s, t, task, run)
           /\ \/ task'[t] = [task[t] EXCEPT !.status = "paused"]
              \/ task'[t] = [task[t] EXCEPT !.status = "failed", !.active = NoRun]
  BY DEF PauseRun, Pause, FailRun
<1>5. \A t \in Tasks : Target(s, t, task, run) => task[t].status # "cancelled"
  BY DEF Target, IsActiveTask, OpenTasks, TerminalTask
<1>6. QuietTasks
  BY <1>4, <1>5, RowTypes DEF QuietTasks, TaskRow
<1>. QED BY <1>3, <1>6

LEMMA QuietMessageRun ==
  ASSUME TypeOK, NEW s, NEW contract, NEW t \in Tasks, NEW r \in Runs,
         BeginMessageRun(s, contract, t, r)
  PROVE  QuietRuns /\ QuietTasks
<1>1. \A q \in Runs : \/ run'[q] = run[q]
                      \/ q = r /\ run[q].status = "absent" /\ run'[q].status = "running"
                      \/ /\ run[q].status \in ActiveRun
                         /\ run'[q] = [run[q] EXCEPT !.status = "cancelled"]
  BY DEF BeginMessageRun, NextRun, SupersededRuns
<1>2. QuietRuns
  BY <1>1, RowTypes DEF QuietRuns, RunRow, ActiveRun
<1>3. \A u \in Tasks :
        \/ task'[u] = task[u]
        \/ u = t /\ task[u].status = "absent" /\ task'[u].status = "running"
        \/ /\ u \in Superseded(s)
           /\ task'[u] = [task[u] EXCEPT !.status = "cancelled", !.active = NoRun]
  BY DEF BeginMessageRun, NextTask
<1>4. \A u \in Superseded(s) : task[u].status # "cancelled"
  BY DEF Superseded, IsActiveTask, OpenTasks, TerminalTask
<1>5. QuietTasks
  BY <1>3, <1>4, RowTypes DEF QuietTasks, TaskRow
<1>. QED BY <1>2, <1>5

(* What the transition tables forbid. *)
LEMMA NoMoves ==
  /\ \A t, to : CanMoveTask(t, to) /\ to # "cancelled" => task[t].status # "cancelled"
  /\ \A r, to : CanMoveRun(r, to) /\ to # "succeeded" => run[r].status # "succeeded"
BY DEF CanMoveTask, CanMoveRun, TaskMoves, RunMoves

LEMMA QuietPrepare ==
  ASSUME TypeOK, Owned, NEW t \in Tasks, NEW trigger, NEW r \in Runs,
         PrepareRun(t, trigger, r)
  PROVE  QuietRuns /\ QuietTasks
<1>1. QuietTasks
  BY NoMoves, QuietMovedTask DEF PrepareRun
<1>2. run[r].status = "absent" /\ run'[r].status = "queued"
  BY DEF PrepareRun, NextRun, TypeOK
<1>3. \A q \in Runs \ {r} : run'[q] = run[q]
  BY DEF PrepareRun, TypeOK
<1>. QED BY <1>1, <1>2, <1>3 DEF QuietRuns

LEMMA QuietBeginPrepared ==
  ASSUME TypeOK, Owned, NEW r \in Runs, BeginPreparedRun(r)
  PROVE  QuietRuns /\ QuietTasks
<1>1. run[r].status \in ActiveRun
  BY MayRun, RowTypes DEF BeginPreparedRun
<1>2. run[r].task \in Tasks
  BY <1>1, OwnedTask
<1>3. QuietTasks
  BY <1>2, NoMoves, QuietMovedTask DEF BeginPreparedRun
<1>4. QuietRuns
  BY <1>1, QuietMovedRun DEF BeginPreparedRun, ActiveRun
<1>. QED BY <1>3, <1>4

LEMMA QuietAnswer ==
  ASSUME TypeOK, Owned, NEW a \in Keys,
         (\E s \in Sessions : AuthorizeAsk(s, a)) \/ Approve(a) \/ DenyInCard(a)
  PROVE  QuietRuns /\ QuietTasks
<1>1. a[1] \in Runs
  BY DEF Keys
<1>2. CASE \E s \in Sessions : AuthorizeAsk(s, a)
  BY <1>1, <1>2, QuietMovedRun, QuietSame DEF AuthorizeAsk, MayAuthorize, IsRunning
<1>3. CASE Approve(a)
  BY <1>1, <1>3, NoMoves, QuietMovedRun, QuietSame DEF Approve
<1>4. CASE DenyInCard(a)
  <2>1. CanMoveRun(a[1], "paused") /\ CanMoveTask(run[a[1]].task, "paused")
    BY <1>4 DEF DenyInCard, MayDeny
  <2>2. run[a[1]].status \in ActiveRun \cup {"paused"}
    BY <1>1, <2>1, RowTypes
       DEF CanMoveRun, RunMoves, ActiveRun, RunRow, RunStatuses, NoRow
  <2>3. run[a[1]].task \in Tasks
    BY <1>1, <2>2, OwnedTask
  <2>4. QuietRuns
    BY <1>1, <1>4, <2>1, NoMoves, QuietMovedRun DEF DenyInCard
  <2>5. QuietTasks
    BY <1>4, <2>1, <2>3, NoMoves, QuietMovedTask DEF DenyInCard
  <2>. QED BY <2>4, <2>5
<1>. QED BY <1>2, <1>3, <1>4

LEMMA QuietChatDenial ==
  ASSUME TypeOK, Owned, NEW a \in Keys, DenyInChat(a)
  PROVE  QuietRuns /\ QuietTasks
<1>. DEFINE r == a[1]
            t == run[r].task
            tk == DeniedTask(a)
            rn == DeniedRun(a)
            s == SessionOf(r)
<1>1. r \in Runs /\ CanMoveRun(r, "paused") /\ CanMoveTask(t, "paused")
  BY DEF Keys, DenyInChat, MayDeny
<1>2. run[r].status \in ActiveRun \cup {"paused"}
  BY <1>1, RowTypes DEF CanMoveRun, RunMoves, ActiveRun, RunRow, RunStatuses, NoRow
<1>3. t \in Tasks
  BY <1>1, <1>2, OwnedTask
<1>4. run[r].status # "succeeded" /\ task[t].status # "cancelled"
  BY <1>1, NoMoves
<1>5. /\ tk[t].status = "paused" /\ \A u \in Tasks \ {t} : tk[u] = task[u]
      /\ tk[t] \in TaskRow
  BY <1>1, <1>3, RowTypes DEF DeniedTask, MovedTask, TypeOK, TaskRow, TaskStatuses
<1>6. /\ rn[r].status = "paused" /\ \A q \in Runs \ {r} : rn[q] = run[q]
      /\ rn[r] \in RunRow
  BY <1>1, RowTypes DEF DeniedRun, Moved, TypeOK, RunRow, RunStatuses
<1>7. /\ \A q \in Runs : \/ run'[q] = rn[q]
                         \/ /\ q \in TargetRuns(s, tk, rn)
                            /\ run'[q] = [rn[q] EXCEPT !.status = "paused"]
      /\ \A u \in Tasks : \/ task'[u] = tk[u]
                          \/ /\ Target(s, u, tk, rn)
                             /\ task'[u] = [tk[u] EXCEPT !.status = "paused"]
  BY DEF DenyInChat, Pause, DeniedTask, DeniedRun
<1>. HIDE DEF tk, rn, r, t, s
<1>8. \A q \in TargetRuns(s, tk, rn) : rn[q].status \in ActiveRun
  BY DEF TargetRuns, Target
<1>9. \A u \in Tasks : Target(s, u, tk, rn) => tk[u].status # "cancelled"
  BY DEF Target, IsActiveTask, OpenTasks, TerminalTask
<1>10. QuietRuns
  BY <1>1, <1>4, <1>6, <1>7, <1>8, RowTypes DEF QuietRuns, RunRow, ActiveRun
<1>11. QuietTasks
  BY <1>3, <1>4, <1>5, <1>7, <1>9, RowTypes DEF QuietTasks, TaskRow
<1>. QED BY <1>10, <1>11

LEMMA QuietOutput ==
  ASSUME TypeOK, Owned, TaskRunAgreement, NEW s \in Sessions, SetOutputContract(s)
  PROVE  QuietRuns /\ QuietTasks
<1>. DEFINE r == live[s]
            t == run[r].task
<1>1. r \in Runs /\ r # NoRun /\ run[r].status = "running" /\ task[t].active = r
  BY DEF SetOutputContract, InTurn, IsRunning, TypeOK
<1>2. t \in Tasks /\ task[t].status \notin NoRow
  BY <1>1, OwnedTask DEF ActiveRun
<1>3. Agrees(t, task[t], run)
  BY <1>2, AgreementByTask DEF TaskRunAgreement
<1>4. task[t].status # "cancelled"
  BY <1>1, <1>2, <1>3 DEF Agrees, TerminalTask
<1>5. /\ task'[t] = [task[t] EXCEPT !.contract = "committed"]
      /\ \A u \in Tasks \ {t} : task'[u] = task[u]
      /\ run' = run
  BY <1>2 DEF SetOutputContract, TypeOK
<1>6. task'[t].status = task[t].status
  BY <1>2, <1>5, RowTypes DEF TaskRow
<1>. QED BY <1>4, <1>5, <1>6, QuietSame DEF QuietTasks

LEMMA QuietCancel ==
  ASSUME TypeOK, Owned, TaskRunAgreement, NEW s, NEW r \in Runs, CancelExternal(s, r)
  PROVE  QuietRuns /\ QuietTasks
<1>. DEFINE t == run[r].task
<1>1. /\ run[r].status \in ActiveRun /\ run' = Moved(run, r, "cancelled")
      /\ task' = MovedTask(t, "cancelled", NoRun)
  BY DEF CancelExternal
<1>2. t \in Tasks
  BY <1>1, OwnedTask
<1>3. QuietRuns
  BY <1>1, QuietMovedRun DEF ActiveRun
<1>4. CASE task[t].status # "cancelled"
  BY <1>1, <1>2, <1>3, <1>4, QuietMovedTask
<1>5. CASE task[t].status = "cancelled"
  <2>1. Agrees(t, task[t], run)
    BY <1>2, AgreementByTask DEF TaskRunAgreement
  <2>2. task[t].active = NoRun
    BY <1>5, <2>1 DEF Agrees, TerminalTask, NoRow
  <2>3. task'[t] = task[t]
    BY <1>1, <1>2, <1>5, <2>2, RowTypes DEF MovedTask, TypeOK, TaskRow
  <2>4. \A u \in Tasks \ {t} : task'[u] = task[u]
    BY <1>1, <1>2 DEF MovedTask, TypeOK
  <2>. QED BY <1>3, <2>3, <2>4 DEF QuietTasks
<1>. QED BY <1>4, <1>5

LEMMA QuietRestart ==
  ASSUME TypeOK, NEW first, Restart(first)
  PROVE  QuietRuns /\ QuietTasks
<1>1. \A r \in Runs :
        \/ run'[r] = run[r]
        \/ run[r].status = "waiting_approval" /\ run'[r] = [run[r] EXCEPT !.status = "paused"]
        \/ run[r].status = "running" /\ run'[r] = [run[r] EXCEPT !.status = "needs_review"]
  BY DEF Restart
<1>2. QuietRuns
  BY <1>1, RowTypes DEF QuietRuns, RunRow
<1>3. \A t \in Tasks : \/ task'[t] = task[t]
                       \/ /\ task[t].status = "running"
                          /\ task'[t] = RecoveredTask(t, first[t])
  BY DEF Restart
<1>4. \A t \in Tasks : RecoveredTask(t, first[t]).status \in {"paused", "needs_review"}
  BY RowTypes DEF RecoveredTask, TaskRow
<1>5. QuietTasks
  <2>. SUFFICES ASSUME NEW t \in Tasks
                PROVE  /\ task'[t].status = "completed" => task[t].status = "completed"
                       /\ task[t].status = "cancelled" => task'[t] = task[t]
    BY DEF QuietTasks
  <2>1. CASE task'[t] = task[t]
    BY <2>1
  <2>2. CASE task[t].status = "running" /\ task'[t] = RecoveredTask(t, first[t])
    <3>1. task'[t].status \in {"paused", "needs_review"}
      BY <1>4, <2>2
    <3>2. task'[t].status # "completed" /\ task[t].status # "cancelled"
      BY <2>2, <3>1
    <3>. QED BY <3>2
  <2>. QED BY <1>3, <2>1, <2>2
<1>. QED BY <1>2, <1>5

(* Every step but these is quiet. *)
Loud == \/ \E s \in Sessions : DeleteSession(s)
        \/ \E c \in collecting, verdict \in Outcomes, delivery \in Deliveries :
             FinishCompletion(c, verdict, delivery)
        \/ \E t \in Tasks : AcceptTask(t)

LEMMA NextQuiet ==
  ASSUME TypeOK, Owned, TaskRunAgreement, Next, ~Loud
  PROVE  QuietRuns /\ QuietTasks /\ promotions' = promotions
<1>1. CASE \E r \in Runs : BeginPreparedRun(r) \/ PreparedRunRejected(r)
  <2>. PICK r \in Runs : BeginPreparedRun(r) \/ PreparedRunRejected(r)
    BY <1>1
  <2>1. CASE BeginPreparedRun(r)
    BY <2>1, QuietBeginPrepared DEF BeginPreparedRun
  <2>2. CASE PreparedRunRejected(r)
    BY <2>2, QuietPause, QuietSame
       DEF PreparedRunRejected, CaughtByStartSession, CaughtByObserver
  <2>. QED BY <2>1, <2>2
<1>2. CASE \E s \in Sessions, contract \in NewContracts, t \in Tasks, r \in Runs :
             BeginMessageRun(s, contract, t, r)
  <2>. PICK s \in Sessions, contract \in NewContracts, t \in Tasks, r \in Runs :
              BeginMessageRun(s, contract, t, r)
    BY <1>2
  <2>1. promotions' = promotions
    BY DEF BeginMessageRun
  <2>. QED BY <2>1, QuietMessageRun
<1>3. CASE \E s \in Sessions : \/ SetOutputContract(s) \/ GateDenied(s) \/ AuthorizeStale(s)
                               \/ StartCompletion(s) \/ TurnError(s) \/ PromptRejected(s)
                               \/ StopSession(s)
  <2>. PICK s \in Sessions : \/ SetOutputContract(s) \/ GateDenied(s) \/ AuthorizeStale(s)
                             \/ StartCompletion(s) \/ TurnError(s) \/ PromptRejected(s)
                             \/ StopSession(s)
    BY <1>3
  <2>1. CASE SetOutputContract(s)
    BY <2>1, QuietOutput DEF SetOutputContract
  <2>2. CASE GateDenied(s) \/ AuthorizeStale(s) \/ TurnError(s) \/ StopSession(s)
    <3>1. promotions' = promotions
      BY <2>2 DEF GateDenied, AuthorizeStale, TurnError, StopSession
    <3>2. FailRun(s) \/ PauseRun(s) \/ (task' = task /\ run' = run)
      BY <2>2 DEF GateDenied, AuthorizeStale, TurnError, StopSession
    <3>. QED BY <3>1, <3>2, QuietPause, QuietSame
  <2>3. CASE StartCompletion(s) \/ PromptRejected(s)
    BY <2>3, QuietSame DEF StartCompletion, PromptRejected, db
  <2>. QED BY <2>1, <2>2, <2>3
<1>4. CASE \E s \in Sessions, a \in Keys : AuthorizeAuto(s, a) \/ AuthorizeAsk(s, a)
  BY <1>4, QuietSame, QuietAnswer DEF AuthorizeAuto, AuthorizeAsk
<1>5. CASE \E s \in Sessions, r \in Runs : CancelExternal(s, r)
  BY <1>5, QuietCancel DEF CancelExternal
<1>6. CASE \E t \in Tasks, trigger \in {"resume", "retry"} :
             PrepareRunRejected(t, trigger) \/ \E r \in Runs : PrepareRun(t, trigger, r)
  <2>1. ASSUME NEW t, NEW trigger, PrepareRunRejected(t, trigger)
        PROVE  QuietRuns /\ QuietTasks /\ promotions' = promotions
    BY <2>1, QuietPause DEF PrepareRunRejected
  <2>2. ASSUME NEW t \in Tasks, NEW trigger, NEW r \in Runs, PrepareRun(t, trigger, r)
        PROVE  QuietRuns /\ QuietTasks /\ promotions' = promotions
    BY <2>2, QuietPrepare DEF PrepareRun
  <2>. QED BY <1>6, <2>1, <2>2
<1>7. CASE \E a \in Keys : Approve(a) \/ DenyInCard(a) \/ DenyInChat(a)
  BY <1>7, QuietAnswer, QuietChatDenial DEF Approve, DenyInCard, DenyInChat
<1>8. CASE \E a \in Keys, effect \in {"succeeded", "failed"} : RecordToolResult(a, effect)
  BY <1>8, QuietSame DEF RecordToolResult
<1>9. CASE \E first \in [Tasks -> Runs] : Restart(first)
  BY <1>9, QuietRestart DEF Restart
<1>. QED BY <1>1, <1>2, <1>3, <1>4, <1>5, <1>6, <1>7, <1>8, <1>9 DEF Next, Loud

(* A quiet step keeps what is said of promotions.                          *)
LEMMA QuietPromoted ==
  ASSUME PromotedOnce, QuietRuns, QuietTasks, promotions' = promotions
  PROVE  PromotedOnce'
<1>1. \A r \in Runs : /\ promotions'[r] \in {0, 1}
                      /\ promotions'[r] = 1 <=> run'[r].status = "succeeded"
                      /\ run'[r].status = "succeeded" => run'[r].outcome = "passed"
  BY DEF PromotedOnce, QuietRuns
<1>2. ASSUME NEW t \in Tasks, task'[t].status = "completed"
      PROVE  \E r \in Runs : run'[r].task = t /\ run'[r].status = "succeeded"
  <2>1. PICK r \in Runs : run[r].task = t /\ run[r].status = "succeeded"
    BY <1>2 DEF QuietTasks, PromotedOnce
  <2>. QED BY <2>1 DEF QuietRuns
<1>. QED BY <1>1, <1>2 DEF PromotedOnce

(* A run that passes, or is accepted, is promoted for the first time. *)
LEMMA PassPromoted ==
  ASSUME TypeOK, PromotedOnce, NEW t \in Tasks, NEW r \in Runs,
         run[r].task = t, run[r].status # "succeeded",
         run' = Concluded(r, "passed"),
         task' = MovedTask(t, "completed", NoRun),
         promotions' = [promotions EXCEPT ![r] = @ + 1]
  PROVE  PromotedOnce'
<1>1. promotions[r] = 0
  BY DEF PromotedOnce
<1>2. promotions'[r] = 1 /\ \A q \in Runs \ {r} : promotions'[q] = promotions[q]
  BY <1>1 DEF TypeOK
<1>3. /\ run'[r].status = "succeeded" /\ run'[r].outcome = "passed" /\ run'[r].task = t
      /\ \A q \in Runs \ {r} : run'[q] = run[q]
  BY RowTypes DEF Concluded, TypeOK, RunRow
<1>4. \A u \in Tasks \ {t} : task'[u] = task[u]
  BY DEF MovedTask, TypeOK
<1>5. \A q \in Runs : /\ promotions'[q] \in {0, 1}
                      /\ promotions'[q] = 1 <=> run'[q].status = "succeeded"
                      /\ run'[q].status = "succeeded" => run'[q].outcome = "passed"
  BY <1>2, <1>3 DEF PromotedOnce
<1>6. ASSUME NEW u \in Tasks, task'[u].status = "completed"
      PROVE  \E q \in Runs : run'[q].task = u /\ run'[q].status = "succeeded"
  <2>1. CASE u = t
    BY <1>3, <2>1
  <2>2. CASE u # t
    <3>1. PICK q \in Runs : run[q].task = u /\ run[q].status = "succeeded"
      BY <1>4, <1>6, <2>2 DEF PromotedOnce
    <3>. QED BY <1>3, <3>1
  <2>. QED BY <2>1, <2>2
<1>. QED BY <1>5, <1>6 DEF PromotedOnce

(* What the end of a run does: nothing, a pass or a review. *)
LEMMA FinishCases ==
  ASSUME TypeOK, Owned, TaskRunAgreement, NEW c \in collecting, NEW verdict, NEW delivery,
         FinishCompletion(c, verdict, delivery)
  PROVE  LET r == c.run
             t == run[r].task
         IN /\ r \in Runs
            /\ \/ task' = task /\ run' = run /\ promotions' = promotions
               \/ /\ t \in Tasks /\ run[r].status = "running" /\ task[t].status # "cancelled"
                  /\ \/ /\ run' = Concluded(r, "passed")
                        /\ task' = MovedTask(t, "completed", NoRun)
                        /\ promotions' = [promotions EXCEPT ![r] = @ + 1]
                     \/ /\ \E outcome : outcome # "passed" /\ run' = Concluded(r, outcome)
                        /\ task' = MovedTask(t, "needs_review", r)
                        /\ promotions' = promotions
<1>. DEFINE r == c.run
            t == run[r].task
            outcome == DeliveryGate(verdict, c.contract, delivery)
<1>1. r \in Runs
  BY DEF TypeOK, Completion
<1>2. CASE ~StillActive(r)
  BY <1>1, <1>2 DEF FinishCompletion
<1>3. CASE StillActive(r)
  <2>1. run[r].status = "running" /\ task[t].active = r
    BY <1>3 DEF StillActive, IsRunning
  <2>2. t \in Tasks /\ task[t].status \notin NoRow
    BY <1>1, <2>1, OwnedTask DEF ActiveRun
  <2>3. Agrees(t, task[t], run)
    BY <2>2, AgreementByTask DEF TaskRunAgreement
  <2>4. task[t].status # "cancelled"
    BY <1>1, <2>1, <2>2, <2>3 DEF Agrees, TerminalTask, Runs, NoRun
  <2>5. /\ run' = Concluded(r, outcome)
        /\ task' = IF outcome = "passed" THEN MovedTask(t, "completed", NoRun)
                                         ELSE MovedTask(t, "needs_review", r)
        /\ promotions' = IF outcome = "passed" THEN [promotions EXCEPT ![r] = @ + 1]
                                               ELSE promotions
    BY <1>3 DEF FinishCompletion
  <2>. HIDE DEF outcome
  <2>6. CASE outcome = "passed"
    BY <1>1, <2>1, <2>2, <2>4, <2>5, <2>6
  <2>7. CASE outcome # "passed"
    BY <1>1, <2>1, <2>2, <2>4, <2>5, <2>7
  <2>. QED BY <2>6, <2>7
<1>. QED BY <1>2, <1>3

LEMMA ReviewQuiet ==
  ASSUME TypeOK, NEW t \in Tasks, NEW r \in Runs, NEW outcome, outcome # "passed",
         run[r].status = "running", task[t].status # "cancelled",
         run' = Concluded(r, outcome), task' = MovedTask(t, "needs_review", r)
  PROVE  QuietRuns /\ QuietTasks
<1>1. run'[r].status = "needs_review" /\ \A q \in Runs \ {r} : run'[q] = run[q]
  BY RowTypes DEF Concluded, TypeOK, RunRow
<1>2. QuietTasks
  BY QuietMovedTask
<1>. QED BY <1>1, <1>2 DEF QuietRuns

LEMMA AcceptCases ==
  ASSUME TypeOK, TaskRunAgreement, PromotedOnce, NEW t \in Tasks, AcceptTask(t)
  PROVE  LET r == task[t].active
         IN /\ r \in Runs /\ run[r].task = t /\ run[r].status # "succeeded"
            /\ task[t].status = "needs_review"
            /\ run' = Concluded(r, "passed")
            /\ task' = MovedTask(t, "completed", NoRun)
            /\ promotions' = [promotions EXCEPT ![r] = @ + 1]
<1>. DEFINE r == task[t].active
<1>1. /\ task[t].status = "needs_review" /\ r # NoRun
      /\ run[r].outcome = "acceptance_required"
      /\ run' = Concluded(r, "passed") /\ task' = MovedTask(t, "completed", NoRun)
      /\ promotions' = [promotions EXCEPT ![r] = @ + 1]
  BY DEF AcceptTask
<1>2. r \in Runs
  BY <1>1, RowTypes DEF ActiveInRange
<1>3. Agrees(t, task[t], run)
  BY AgreementByTask DEF TaskRunAgreement
<1>4. run[r].task = t
  BY <1>1, <1>3 DEF Agrees, NoRow
<1>5. run[r].status # "succeeded"
  BY <1>1, <1>2 DEF PromotedOnce
<1>. QED BY <1>1, <1>2, <1>4, <1>5

(* The deletion of a session removes its tasks and their runs, whole. *)
LEMMA DeleteCases ==
  ASSUME TypeOK, NEW s, DeleteSession(s), NEW t \in Tasks
  PROVE  \/ TaskExists(t) /\ task[t].session = s /\ task'[t].status = "deleted"
         \/ /\ task'[t] = task[t]
            /\ TaskExists(t) => \A r \in Runs : run[r].task = t =>
                 run'[r] = run[r] /\ promotions'[r] = promotions[r]
<1>1. CASE TaskExists(t) /\ task[t].session = s
  <2>1. task'[t] = [NoTaskRow EXCEPT !.status = "deleted"]
    BY <1>1 DEF DeleteSession
  <2>. QED BY <1>1, <2>1 DEF NoTaskRow
<1>2. CASE ~(TaskExists(t) /\ task[t].session = s)
  <2>1. task'[t] = task[t]
    BY <1>2 DEF DeleteSession
  <2>2. ASSUME TaskExists(t), NEW r \in Runs, run[r].task = t
        PROVE  run'[r] = run[r] /\ promotions'[r] = promotions[r]
    <3>1. r \notin RunsOf(s)
      BY <1>2, <2>2 DEF RunsOf, SessionOf
    <3>. QED BY <3>1 DEF DeleteSession
  <2>. QED BY <2>1, <2>2
<1>. QED BY <1>1, <1>2

LEMMA DeletePromoted ==
  ASSUME TypeOK, PromotedOnce, NEW s, DeleteSession(s)
  PROVE  PromotedOnce'
<1>1. \A r \in Runs : /\ r \in RunsOf(s) => promotions'[r] = 0 /\ run'[r].status = "deleted"
                      /\ r \notin RunsOf(s) => promotions'[r] = promotions[r] /\ run'[r] = run[r]
  BY DEF DeleteSession, NoRunRow
<1>2. \A r \in Runs : /\ promotions'[r] \in {0, 1}
                      /\ promotions'[r] = 1 <=> run'[r].status = "succeeded"
                      /\ run'[r].status = "succeeded" => run'[r].outcome = "passed"
  BY <1>1 DEF PromotedOnce
<1>3. ASSUME NEW t \in Tasks, task'[t].status = "completed"
      PROVE  \E r \in Runs : run'[r].task = t /\ run'[r].status = "succeeded"
  <2>1. /\ task[t].status = "completed"
        /\ TaskExists(t) => \A r \in Runs : run[r].task = t => run'[r] = run[r]
    BY <1>3, DeleteCases
  <2>2. PICK r \in Runs : run[r].task = t /\ run[r].status = "succeeded"
    BY <2>1 DEF PromotedOnce
  <2>3. TaskExists(t)
    BY <2>1 DEF TaskExists, NoRow
  <2>. QED BY <2>1, <2>2, <2>3
<1>. QED BY <1>2, <1>3 DEF PromotedOnce

LEMMA NextPromoted ==
  ASSUME TypeOK, Owned, TaskRunAgreement, PromotedOnce, Next
  PROVE  PromotedOnce'
<1>1. CASE \E s \in Sessions : DeleteSession(s)
  BY <1>1, DeletePromoted
<1>2. CASE \E c \in collecting, verdict \in Outcomes, delivery \in Deliveries :
             FinishCompletion(c, verdict, delivery)
  <2>. PICK c \in collecting, verdict \in Outcomes, delivery \in Deliveries :
             FinishCompletion(c, verdict, delivery)
    BY <1>2
  <2>. DEFINE r == c.run
              t == run[r].task
  <2>1. CASE task' = task /\ run' = run /\ promotions' = promotions
    BY <2>1, QuietSame, QuietPromoted
  <2>2. CASE /\ t \in Tasks /\ run[r].status = "running" /\ r \in Runs
             /\ run' = Concluded(r, "passed") /\ task' = MovedTask(t, "completed", NoRun)
             /\ promotions' = [promotions EXCEPT ![r] = @ + 1]
    BY <2>2, PassPromoted
  <2>3. CASE /\ t \in Tasks /\ run[r].status = "running" /\ r \in Runs
             /\ task[t].status # "cancelled"
             /\ \E outcome : outcome # "passed" /\ run' = Concluded(r, outcome)
             /\ task' = MovedTask(t, "needs_review", r) /\ promotions' = promotions
    BY <2>3, ReviewQuiet, QuietPromoted
  <2>. QED BY <2>1, <2>2, <2>3, FinishCases
<1>3. CASE \E t \in Tasks : AcceptTask(t)
  BY <1>3, AcceptCases, PassPromoted
<1>4. CASE ~Loud
  BY <1>4, NextQuiet, QuietPromoted
<1>. QED BY <1>1, <1>2, <1>3, <1>4 DEF Loud

LEMMA InitPromoted == Init => PromotedOnce
BY DEF Init, PromotedOnce, NoTaskRow, NoRunRow

(* Promotion, for every number of tasks, runs, sessions and calls: a       *)
(* verified run is handed to the memory promotion exactly once, a run that *)
(* did not pass never is, and a completed task has a run that passed.      *)
THEOREM VerifiedRunsPromotedOnce == Spec => []PromotedOnce
<1>1. Init => PromotedOnce
  BY InitPromoted
<1>2. TypeInv /\ TaskRunAgreement /\ PromotedOnce /\ [Next]_vars => PromotedOnce'
  <2>1. TypeInv /\ TaskRunAgreement /\ PromotedOnce /\ Next => PromotedOnce'
    BY NextPromoted DEF TypeInv
  <2>2. PromotedOnce /\ UNCHANGED vars => PromotedOnce'
    BY DEF vars, db, PromotedOnce
  <2>. QED BY <2>1, <2>2
<1>. QED BY <1>1, <1>2, TypeInvariant, TasksAgreeWithRuns, PTL DEF Spec

(* What silence says of a cancelled task t. *)
Silent(t) ==
  /\ task'[t] = task[t]
  /\ \A r \in Runs : run[r].task = t => promotions'[r] = promotions[r]

LEMMA NextSilent ==
  ASSUME TypeOK, Owned, TaskRunAgreement, PromotedOnce, Next,
         NEW t \in Tasks, task[t].status = "cancelled", task'[t].status \notin NoRow
  PROVE  Silent(t)
<1>0. ASSUME NEW u \in Tasks \ {t}, NEW q \in Runs, run[q].task = u, NEW status, NEW active,
             task' = MovedTask(u, status, active),
             promotions' = [promotions EXCEPT ![q] = @ + 1]
      PROVE  Silent(t)
  <2>1. task'[t] = task[t]
    BY <1>0 DEF MovedTask, TypeOK
  <2>2. \A r \in Runs \ {q} : promotions'[r] = promotions[r]
    BY <1>0 DEF TypeOK
  <2>. QED BY <1>0, <2>1, <2>2 DEF Silent
<1>1. CASE \E s \in Sessions : DeleteSession(s)
  <2>1. TaskExists(t)
    BY DEF TaskExists, NoRow
  <2>. QED BY <1>1, <2>1, DeleteCases DEF Silent, NoRow
<1>2. CASE \E c \in collecting, verdict \in Outcomes, delivery \in Deliveries :
             FinishCompletion(c, verdict, delivery)
  <2>. PICK c \in collecting, verdict \in Outcomes, delivery \in Deliveries :
             FinishCompletion(c, verdict, delivery)
    BY <1>2
  <2>. DEFINE q == c.run
              u == run[q].task
  <2>1. CASE task' = task /\ promotions' = promotions
    BY <2>1 DEF Silent
  <2>2. CASE /\ u \in Tasks /\ q \in Runs /\ task[u].status # "cancelled"
             /\ task' = MovedTask(u, "completed", NoRun)
             /\ promotions' = [promotions EXCEPT ![q] = @ + 1]
    BY <1>0, <2>2
  <2>3. CASE /\ u \in Tasks /\ task[u].status # "cancelled"
             /\ task' = MovedTask(u, "needs_review", q) /\ promotions' = promotions
    <3>1. task'[t] = task[t]
      BY <2>3 DEF MovedTask, TypeOK
    <3>. QED BY <2>3, <3>1 DEF Silent
  <2>. QED BY <2>1, <2>2, <2>3, FinishCases
<1>3. CASE \E u \in Tasks : AcceptTask(u)
  <2>. PICK u \in Tasks : AcceptTask(u)
    BY <1>3
  <2>. DEFINE q == task[u].active
  <2>1. /\ q \in Runs /\ run[q].task = u /\ task[u].status = "needs_review"
        /\ task' = MovedTask(u, "completed", NoRun)
        /\ promotions' = [promotions EXCEPT ![q] = @ + 1]
    BY AcceptCases
  <2>2. u # t
    BY <2>1
  <2>. QED BY <1>0, <2>1, <2>2
<1>4. CASE ~Loud
  BY <1>4, NextQuiet DEF QuietTasks, Silent
<1>. QED BY <1>1, <1>2, <1>3, <1>4 DEF Loud

(* Silence, for every number of tasks, runs, sessions and calls: a task    *)
(* superseded by a new message stays cancelled, and none of its runs is    *)
(* promoted afterwards.                                                    *)
THEOREM CancelledTasksAreSilent == Spec => CancelledIsSilent
<1>. DEFINE AllSilent ==
       \A t \in Tasks : (task[t].status = "cancelled" /\ TaskExists(t)') =>
         /\ task'[t] = task[t]
         /\ \A r \in Runs : run[r].task = t => promotions'[r] = promotions[r]
<1>1. TypeInv /\ TaskRunAgreement /\ PromotedOnce /\ [Next]_vars => [AllSilent]_vars
  BY NextSilent DEF TypeInv, Silent, TaskExists
<1>. QED BY <1>1, TypeInvariant, TasksAgreeWithRuns, VerifiedRunsPromotedOnce, PTL
         DEF Spec, CancelledIsSilent

(* The inductive invariant TLC checks holds in every reachable state: no   *)
(* lemma above rests on more than these facts.                             *)
THEOREM InductiveInvariant == Spec => []Inductive
<1>1. TypeInv /\ Consent /\ TaskRunAgreement /\ PromotedOnce => Inductive
  BY DEF Inductive, TypeInv
<1>. QED BY <1>1, TypeInvariant, ConsentInvariant, TasksAgreeWithRuns,
            VerifiedRunsPromotedOnce, PTL

-----------------------------------------------------------------------------
(***************************************************************************)
(* The calls live as ToolConsent lets them.  First: only the deletion of a *)
(* session deletes runs, and no run returns from it.                       *)
(***************************************************************************)
GoneKept == \A r \in Runs : run'[r].status = "deleted" <=> run[r].status = "deleted"

(* A pause and a failure move runs that are under way. *)
LEMMA PauseGone ==
  ASSUME TypeOK, NEW s, PauseRun(s) \/ FailRun(s)
  PROVE  GoneKept
<1>1. ASSUME NEW r \in Runs
      PROVE  \/ run'[r] = run[r]
             \/ run[r].status \in ActiveRun /\ run'[r] = [run[r] EXCEPT !.status = "paused"]
             \/ run[r].status \in ActiveRun /\ run'[r] = [run[r] EXCEPT !.status = "failed"]
  BY DEF PauseRun, Pause, FailRun, TargetRuns, Target
<1>2. \A r \in Runs : run[r] \in RunRow
  BY DEF TypeOK
<1>. QED BY <1>1, <1>2 DEF GoneKept, ActiveRun, RunRow

(* A move the state machine allows is of a run that is there. *)
LEMMA MoveGone ==
  ASSUME TypeOK, NEW r \in Runs, NEW status, status # "deleted", CanMoveRun(r, status)
  PROVE  run[r].status # "deleted"
BY DEF CanMoveRun, RunMoves

(* So does a status that is written to a run that is there. *)
LEMMA MovedGone ==
  ASSUME TypeOK, NEW r \in Runs, NEW status, status # "deleted", run[r].status # "deleted",
         run' = Moved(run, r, status)
  PROVE  GoneKept
BY DEF GoneKept, Moved, TypeOK, RunRow

(* The run of the call is paused, and what is still under way with it. *)
LEMMA DenialGone ==
  ASSUME TypeOK, NEW a \in Keys, DenyInChat(a)
  PROVE  GoneKept
<1>1. PICK rn : rn = Moved(run, a[1], "paused")
  OBVIOUS
<1>2. a[1] \in Runs /\ run[a[1]].status # "deleted"
  <2>1. a[1] \in Runs /\ CanMoveRun(a[1], "paused")
    BY DEF Keys, DenyInChat, MayDeny
  <2>. QED BY <2>1, MoveGone
<1>3. \A r \in Runs : /\ run[r] \in RunRow
                      /\ rn[r] = IF r = a[1] THEN [run[r] EXCEPT !.status = "paused"] ELSE run[r]
  BY <1>1, <1>2 DEF Moved, TypeOK
<1>4. ASSUME NEW r \in Runs
      PROVE  \/ run'[r] = rn[r]
             \/ rn[r].status \in ActiveRun /\ run'[r] = [rn[r] EXCEPT !.status = "paused"]
  BY <1>1 DEF DenyInChat, Pause, TargetRuns, Target
<1>. QED BY <1>2, <1>3, <1>4 DEF GoneKept, ActiveRun, RunRow

(* Every step but the deletion keeps the deleted runs. *)
LEMMA NextGone ==
  ASSUME TypeOK, Next, ~(\E s \in Sessions : DeleteSession(s))
  PROVE  GoneKept
<1>1. CASE \E r \in Runs : BeginPreparedRun(r) \/ PreparedRunRejected(r)
  <2>. PICK r \in Runs : BeginPreparedRun(r) \/ PreparedRunRejected(r)
    BY <1>1
  <2>1. CASE BeginPreparedRun(r)
    BY <2>1, MoveGone, MovedGone DEF BeginPreparedRun
  <2>2. CASE PreparedRunRejected(r)
    BY <2>2, PauseGone
       DEF PreparedRunRejected, CaughtByStartSession, CaughtByObserver, GoneKept
  <2>. QED BY <2>1, <2>2
<1>2. CASE \E s \in Sessions, contract \in NewContracts, t \in Tasks, r \in Runs :
             BeginMessageRun(s, contract, t, r)
  <2>. PICK s \in Sessions, contract \in NewContracts, t \in Tasks, r \in Runs :
              BeginMessageRun(s, contract, t, r)
    BY <1>2
  <2>1. \A q \in Runs : \/ /\ run[q].status = "absent" /\ run'[q].status = "running"
                        \/ run'[q] = run[q]
                        \/ /\ run[q].status \in ActiveRun
                           /\ run'[q] = [run[q] EXCEPT !.status = "cancelled"]
    BY DEF BeginMessageRun, NextRun, SupersededRuns
  <2>2. \A q \in Runs : run[q] \in RunRow
    BY DEF TypeOK
  <2>. QED BY <2>1, <2>2 DEF GoneKept, ActiveRun, RunRow
<1>3. CASE \E s \in Sessions : \/ SetOutputContract(s) \/ GateDenied(s) \/ AuthorizeStale(s)
                               \/ StartCompletion(s) \/ TurnError(s) \/ PromptRejected(s)
                               \/ StopSession(s)
  BY <1>3, PauseGone DEF SetOutputContract, GateDenied, AuthorizeStale, StartCompletion,
     StopSession, TurnError, PromptRejected, db, GoneKept
<1>4. CASE \E s \in Sessions, a \in Keys : AuthorizeAuto(s, a) \/ AuthorizeAsk(s, a)
  <2>. PICK s \in Sessions, a \in Keys : AuthorizeAuto(s, a) \/ AuthorizeAsk(s, a)
    BY <1>4
  <2>1. a[1] \in Runs /\ run[a[1]].status = "running"
    BY DEF Keys, AuthorizeAuto, AuthorizeAsk, MayAuthorize, IsRunning
  <2>. QED BY <2>1, MovedGone DEF AuthorizeAuto, AuthorizeAsk, GoneKept
<1>5. CASE \E s \in Sessions, r \in Runs : CancelExternal(s, r)
  BY <1>5, MovedGone DEF CancelExternal, ActiveRun
<1>6. CASE \E t \in Tasks, trigger \in {"resume", "retry"} :
             PrepareRunRejected(t, trigger) \/ \E r \in Runs : PrepareRun(t, trigger, r)
  <2>1. \A t, trigger : PrepareRunRejected(t, trigger) => GoneKept
    BY PauseGone DEF PrepareRunRejected
  <2>2. \A t, trigger, r : PrepareRun(t, trigger, r) => GoneKept
    BY DEF PrepareRun, NextRun, GoneKept, TypeOK
  <2>. QED BY <1>6, <2>1, <2>2
<1>7. CASE \E a \in Keys : Approve(a) \/ DenyInCard(a) \/ DenyInChat(a)
  <2>. PICK a \in Keys : Approve(a) \/ DenyInCard(a) \/ DenyInChat(a)
    BY <1>7
  <2>1. a[1] \in Runs
    BY DEF Keys
  <2>2. CASE Approve(a)
    BY <2>1, <2>2, MoveGone, MovedGone DEF Approve
  <2>3. CASE DenyInCard(a)
    BY <2>1, <2>3, MoveGone, MovedGone DEF DenyInCard, MayDeny
  <2>. QED BY <2>2, <2>3, DenialGone
<1>8. CASE \E a \in Keys, effect \in {"succeeded", "failed"} : RecordToolResult(a, effect)
  BY <1>8 DEF RecordToolResult, GoneKept
<1>9. CASE \E c \in collecting, verdict \in Outcomes, delivery \in Deliveries :
             FinishCompletion(c, verdict, delivery)
  <2>. PICK c \in collecting, verdict \in Outcomes, delivery \in Deliveries :
              FinishCompletion(c, verdict, delivery)
    BY <1>9
  <2>1. run' = run \/ (run[c.run].status = "running" /\ \E outcome : run' = Concluded(c.run, outcome))
    BY DEF FinishCompletion, StillActive, IsRunning
  <2>2. ASSUME run[c.run].status = "running", NEW outcome, run' = Concluded(c.run, outcome)
        PROVE  GoneKept
    <3>1. \A q \in Runs : \/ run'[q] = run[q]
                          \/ q = c.run /\ run'[q].status \in {"succeeded", "needs_review"}
      BY <2>2 DEF Concluded, TypeOK, RunRow
    <3>. QED BY <2>2, <3>1 DEF GoneKept
  <2>. QED BY <2>1, <2>2 DEF GoneKept
<1>10. CASE \E t \in Tasks : AcceptTask(t)
  <2>. PICK t \in Tasks : AcceptTask(t)
    BY <1>10
  <2>1. PICK r \in Runs : r = task[t].active
    BY DEF AcceptTask, TypeOK, TaskRow
  <2>2. run[r].status # "deleted" /\ run' = Concluded(r, "passed")
    BY <2>1, MoveGone DEF AcceptTask
  <2>3. \A q \in Runs : \/ run'[q] = run[q]
                        \/ q = r /\ run'[q].status = "succeeded"
    BY <2>2 DEF Concluded, TypeOK, RunRow
  <2>. QED BY <2>2, <2>3 DEF GoneKept
<1>11. CASE \E first \in [Tasks -> Runs] : Restart(first)
  BY <1>11 DEF Restart, GoneKept, TypeOK, RunRow
<1>. QED
  BY <1>1, <1>2, <1>3, <1>4, <1>5, <1>6, <1>7, <1>8, <1>9, <1>10, <1>11 DEF Next

(***************************************************************************)
(* What a step makes of the stages.                                        *)
(***************************************************************************)
LEMMA StageKept ==
  ASSUME GoneKept, NEW a \in Keys, appr'[a] = appr[a]
  PROVE  Stage(a)' = Stage(a)
<1>1. a[1] \in Runs
  BY DEF Keys
<1>. QED BY <1>1 DEF GoneKept, Stage

(* Nothing happens to the calls. *)
LEMMA QuietCalls ==
  ASSUME GoneKept, UNCHANGED <<appr, waiters>>
  PROVE  UNCHANGED Consenting!consentVars
<1>1. \A a \in Keys : Stage(a)' = Stage(a)
  BY StageKept
<1>. QED BY <1>1 DEF Consenting!consentVars

(* One call moves. *)
LEMMA OneCall ==
  ASSUME NEW a \in Keys, NEW s, Stage(a)' = s, \A b \in Keys \ {a} : Stage(b)' = Stage(b)
  PROVE  Consenting!At(a, s)
<1>1. \A b \in Keys : Stage(b)' = IF b = a THEN s ELSE Stage(b)
  OBVIOUS
<1>. QED BY <1>1 DEF Consenting!At

(* Open questions are refused together. *)
LEMMA RefusedCalls ==
  ASSUME GoneKept, NEW K \in SUBSET Keys,
         \A a \in K : appr[a].decision = "pending" /\ run[a[1]].status # "deleted",
         \A a \in K : appr'[a].decision \in {"denied", "expired"},
         \A a \in Keys \ K : appr'[a] = appr[a],
         waiters' \in {waiters, waiters \ K}
  PROVE  Consenting!ConsentNext
<1>1. \A a \in K : Stage(a) = "asked" /\ Stage(a)' = "refused"
  <2>1. \A a \in K : a[1] \in Runs /\ run[a[1]].status # "deleted" /\ run'[a[1]].status # "deleted"
    BY DEF Keys, GoneKept
  <2>. QED BY <2>1 DEF Stage
<1>2. \A a \in Keys \ K : Stage(a)' = Stage(a)
  BY StageKept
<1>3. K \in SUBSET Consenting!Asked
  BY <1>1 DEF Consenting!Asked, Consenting!AllCalls, Keys
<1>4. \A a \in Keys : Stage(a)' = IF a \in K THEN "refused" ELSE Stage(a)
  BY <1>1, <1>2
<1>5. Consenting!Refuse(K)
  BY <1>3, <1>4 DEF Consenting!Refuse, Consenting!AllCalls, Keys
<1>. QED BY <1>3, <1>5 DEF Consenting!ConsentNext

(* Approvals expire: the pending ones of a set of calls, of runs that exist. *)
LEMMA ExpiredCalls ==
  ASSUME GoneKept, NEW K, K \subseteq Keys,
         \A a \in K : appr[a].decision = "pending" /\ RunExists(a[1]),
         TypeOK, appr' = Expired(appr, K), waiters' \in {waiters, waiters \ K}
  PROVE  Consenting!ConsentNext
<1>1. \A a \in Keys : appr'[a] = IF a \in K THEN [appr[a] EXCEPT !.decision = "expired"]
                                            ELSE appr[a]
  BY DEF Expired
<1>2. \A a \in K : appr'[a].decision = "expired"
  BY <1>1 DEF TypeOK, Approval
<1>3. \A a \in K : run[a[1]].status # "deleted"
  BY DEF RunExists, NoRow
<1>. QED BY <1>1, <1>2, <1>3, RefusedCalls

(* What is pending of a session are calls of runs that exist. *)
LEMMA PendingCalls ==
  ASSUME NEW s
  PROVE  /\ PendingOf(s, appr) \subseteq Keys
         /\ \A a \in PendingOf(s, appr) : appr[a].decision = "pending" /\ RunExists(a[1])
BY DEF PendingOf

(* A pause refuses the open questions of the session, a failure none. *)
LEMMA PauseCalls ==
  ASSUME TypeOK, GoneKept, NEW s, PauseRun(s) \/ FailRun(s)
  PROVE  Consenting!ConsentNext \/ UNCHANGED Consenting!consentVars
<1>1. CASE UNCHANGED <<appr, waiters>>
  BY <1>1, QuietCalls
<1>2. CASE appr' = Expired(appr, PendingOf(s, appr)) /\ waiters' = waiters \ PendingOf(s, appr)
  BY <1>2, PendingCalls, ExpiredCalls
<1>. QED BY <1>1, <1>2 DEF PauseRun, Pause, FailRun

(* A new message refuses the open questions of the task it supersedes. *)
LEMMA MessageCalls ==
  ASSUME TypeOK, GoneKept, NEW s, NEW contract, NEW t, NEW r, BeginMessageRun(s, contract, t, r)
  PROVE  Consenting!ConsentNext
<1>1. PICK K : K = IF Superseded(s) = {} THEN {} ELSE PendingOf(s, appr)
  OBVIOUS
<1>2. appr' = Expired(appr, K) /\ waiters' = waiters \ K
  BY <1>1 DEF BeginMessageRun
<1>3. K \subseteq Keys /\ \A a \in K : appr[a].decision = "pending" /\ RunExists(a[1])
  BY <1>1, PendingCalls
<1>. QED BY <1>2, <1>3, ExpiredCalls

(* A click refuses those of the run it replaces, and tells nobody. *)
LEMMA PrepareCalls ==
  ASSUME TypeOK, GoneKept, NEW t, NEW trigger, NEW r, PrepareRun(t, trigger, r)
  PROVE  Consenting!ConsentNext
<1>1. PICK K : K = {a \in PendingOf(task[t].session, appr) : a[1] = task[t].active}
  OBVIOUS
<1>2. appr' = Expired(appr, K) /\ waiters' = waiters
  BY <1>1 DEF PrepareRun, memory
<1>3. K \subseteq Keys /\ \A a \in K : appr[a].decision = "pending" /\ RunExists(a[1])
  BY <1>1, PendingCalls
<1>. QED BY <1>2, <1>3, ExpiredCalls

(* The rows of a decision. *)
LEMMA DecidedCalls ==
  ASSUME TypeOK, GoneKept, NEW a \in Keys, NEW decision, NEW effect,
         appr' = Decided(a, decision, effect)
  PROVE  /\ appr'[a] = [decision |-> decision, effect |-> effect]
         /\ \A b \in Keys \ {a} : appr'[b] = appr[b] /\ Stage(b)' = Stage(b)
<1>1. /\ appr'[a] = [decision |-> decision, effect |-> effect]
      /\ \A b \in Keys \ {a} : appr'[b] = appr[b]
  BY DEF Decided, TypeOK
<1>. QED BY <1>1, StageKept

(* The run of the call goes on to be asked or let through. *)
LEMMA UnblockedCalls ==
  ASSUME NEW a \in Keys, waiters \subseteq Keys, ~Blocked(a[1])
  PROVE  ~Consenting!RunWaits(a[1])
<1>. SUFFICES ASSUME NEW b \in waiters, b[1] = a[1] PROVE FALSE
  BY DEF Consenting!RunWaits
<1>1. b = <<b[1], b[2]>> /\ b[2] \in Calls
  BY DEF Keys
<1>. QED BY <1>1 DEF Blocked

(* authorizeToolCall lets the call through or asks. *)
LEMMA AuthorizeCalls ==
  ASSUME TypeOK, GoneKept, NEW s \in Sessions, NEW a \in Keys,
         AuthorizeAuto(s, a) \/ AuthorizeAsk(s, a)
  PROVE  Consenting!ConsentNext
<1>1. /\ a[1] \in Runs /\ run[a[1]].status = "running" /\ ~Blocked(a[1])
      /\ appr[a].decision = "none"
  BY DEF Keys, AuthorizeAuto, AuthorizeAsk, MayAuthorize, InTurn, IsRunning
<1>2. /\ Stage(a) = "unasked" /\ run'[a[1]].status # "deleted"
      /\ ~Consenting!RunWaits(a[1])
  BY <1>1, UnblockedCalls DEF Stage, GoneKept, TypeOK
<1>3. CASE AuthorizeAuto(s, a)
  <2>1. appr' = Decided(a, "approved", "executing") /\ waiters' = waiters
    BY <1>3 DEF AuthorizeAuto, memory
  <2>2. /\ appr'[a] = [decision |-> "approved", effect |-> "executing"]
        /\ \A b \in Keys \ {a} : Stage(b)' = Stage(b)
    BY <2>1, DecidedCalls
  <2>3. Stage(a)' = "executing"
    BY <1>2, <2>2 DEF Stage
  <2>4. Consenting!Let(a)
    BY <1>2, <2>1, <2>2, <2>3, OneCall DEF Consenting!Let
  <2>. QED BY <2>4 DEF Consenting!ConsentNext, Consenting!AllCalls, Keys
<1>4. CASE AuthorizeAsk(s, a)
  <2>1. appr' = Decided(a, "pending", "not_started") /\ waiters' = waiters \cup {a}
    BY <1>4 DEF AuthorizeAsk
  <2>2. /\ appr'[a] = [decision |-> "pending", effect |-> "not_started"]
        /\ \A b \in Keys \ {a} : Stage(b)' = Stage(b)
    BY <2>1, DecidedCalls
  <2>3. Stage(a)' = "asked"
    BY <1>2, <2>2 DEF Stage
  <2>4. Consenting!Ask(a)
    BY <1>2, <2>1, <2>2, <2>3, OneCall DEF Consenting!Ask
  <2>. QED BY <2>4 DEF Consenting!ConsentNext, Consenting!AllCalls, Keys
<1>. QED BY <1>3, <1>4

(* The user approves. *)
LEMMA ApproveCalls ==
  ASSUME TypeOK, GoneKept, NEW a \in Keys, Approve(a)
  PROVE  Consenting!ConsentNext
<1>1. /\ a[1] \in Runs /\ run[a[1]].status # "deleted"
      /\ appr[a].decision = "pending" /\ a \in waiters
  <2>1. a[1] \in Runs /\ CanMoveRun(a[1], "running")
    BY DEF Keys, Approve
  <2>. QED BY <2>1, MoveGone DEF Approve, Answerable
<1>2. appr' = Decided(a, "approved", "executing") /\ waiters' = waiters \ {a}
  BY DEF Approve
<1>3. /\ appr'[a] = [decision |-> "approved", effect |-> "executing"]
      /\ \A b \in Keys \ {a} : Stage(b)' = Stage(b)
  BY <1>2, DecidedCalls
<1>4. Stage(a) = "asked" /\ Stage(a)' = "executing"
  BY <1>1, <1>3 DEF Stage, GoneKept
<1>5. Consenting!Grant(a)
  BY <1>1, <1>2, <1>3, <1>4, OneCall DEF Consenting!Grant
<1>. QED BY <1>5 DEF Consenting!ConsentNext, Consenting!AllCalls, Keys

(* The answered call, and in the chat those that expire with the pause. *)
LEMMA DenyCalls ==
  ASSUME TypeOK, GoneKept, NEW a \in Keys, DenyInCard(a) \/ DenyInChat(a)
  PROVE  Consenting!ConsentNext
<1>1. PICK s : s = SessionOf(a[1])
  OBVIOUS
<1>2. PICK ap : ap = Decided(a, "denied", "not_started")
  OBVIOUS
<1>3. PICK K : K = {a} \cup PendingOf(s, ap)
  OBVIOUS
<1>4. \/ appr' = ap /\ waiters' = waiters \ {a}
      \/ appr' = Expired(ap, PendingOf(s, ap)) /\ waiters' = (waiters \ {a}) \ PendingOf(s, ap)
  BY <1>1, <1>2 DEF DenyInCard, DenyInChat, Pause
<1>5. /\ a[1] \in Runs /\ run[a[1]].status # "deleted" /\ appr[a].decision = "pending"
  <2>1. a[1] \in Runs /\ CanMoveRun(a[1], "paused")
    BY DEF Keys, DenyInCard, DenyInChat, MayDeny
  <2>. QED BY <2>1, MoveGone DEF DenyInCard, DenyInChat, MayDeny, Answerable
<1>6. /\ ap[a] = [decision |-> "denied", effect |-> "not_started"]
      /\ \A b \in Keys \ {a} : ap[b] = appr[b]
  BY <1>2 DEF Decided, TypeOK
<1>7. CASE appr' = ap /\ waiters' = waiters \ {a}
  <2>1. PICK L : L = {a}
    OBVIOUS
  <2>2. /\ L \in SUBSET Keys /\ waiters' \in {waiters, waiters \ L}
        /\ \A b \in L : appr[b].decision = "pending" /\ run[b[1]].status # "deleted"
        /\ \A b \in L : appr'[b].decision \in {"denied", "expired"}
        /\ \A b \in Keys \ L : appr'[b] = appr[b]
    BY <1>5, <1>6, <1>7, <2>1
  <2>. QED BY <2>2, RefusedCalls
<1>8. CASE /\ appr' = Expired(ap, PendingOf(s, ap))
           /\ waiters' = (waiters \ {a}) \ PendingOf(s, ap)
  <2>1. \A b \in PendingOf(s, ap) : /\ b \in Keys /\ b # a /\ appr[b].decision = "pending"
                                    /\ RunExists(b[1])
    BY <1>6 DEF PendingOf
  <2>2. \A b \in K : appr[b].decision = "pending" /\ run[b[1]].status # "deleted"
    BY <1>3, <1>5, <2>1 DEF RunExists, NoRow
  <2>3. \A b \in Keys : appr'[b] = IF b \in PendingOf(s, ap)
                                     THEN [ap[b] EXCEPT !.decision = "expired"] ELSE ap[b]
    BY <1>8 DEF Expired
  <2>4. \A b \in K : appr'[b].decision \in {"denied", "expired"}
    <3>1. appr'[a].decision = "denied"
      <4>1. appr'[a] = ap[a]
        BY <2>1, <2>3
      <4>. QED BY <1>6, <4>1
    <3>2. ASSUME NEW b \in PendingOf(s, ap) PROVE appr'[b].decision = "expired"
      <4>1. appr[b] \in Approval /\ appr'[b] = [appr[b] EXCEPT !.decision = "expired"]
        BY <1>6, <2>1, <2>3 DEF TypeOK
      <4>. QED BY <4>1 DEF Approval
    <3>. QED BY <1>3, <3>1, <3>2
  <2>5. \A b \in Keys \ K : appr'[b] = appr[b]
    BY <1>3, <1>6, <2>3
  <2>6. K \in SUBSET Keys /\ waiters' = waiters \ K
    BY <1>3, <1>8, <2>1
  <2>. QED BY <2>2, <2>4, <2>5, <2>6, RefusedCalls
<1>. QED BY <1>4, <1>7, <1>8

(* The result of a call whose run was deleted is not heard of. *)
LEMMA ResultCalls ==
  ASSUME TypeOK, Consent, GoneKept, NEW a \in Keys, NEW effect \in {"succeeded", "failed"},
         RecordToolResult(a, effect)
  PROVE  Consenting!ConsentNext \/ UNCHANGED Consenting!consentVars
<1>1. /\ appr[a].effect = "executing" /\ appr[a].decision = "approved" /\ a[1] \in Runs
      /\ appr' = [appr EXCEPT ![a] = [@ EXCEPT !.effect = effect]]
      /\ waiters' = waiters
  BY DEF RecordToolResult, Consent, memory, Keys
<1>2. /\ appr'[a].decision = "approved" /\ appr'[a].effect = effect
      /\ \A b \in Keys \ {a} : Stage(b)' = Stage(b)
  <2>1. /\ appr'[a] = [appr[a] EXCEPT !.effect = effect]
        /\ \A b \in Keys \ {a} : appr'[b] = appr[b]
    BY <1>1 DEF TypeOK
  <2>. QED BY <1>1, <2>1, StageKept DEF TypeOK, Approval
<1>3. CASE run[a[1]].status = "deleted"
  <2>1. Stage(a)' = Stage(a)
    BY <1>1, <1>3 DEF Stage, GoneKept
  <2>2. \A b \in Keys : Stage(b)' = Stage(b)
    BY <1>2, <2>1
  <2>. QED BY <1>1, <2>2 DEF Consenting!consentVars
<1>4. CASE run[a[1]].status # "deleted"
  <2>1. Stage(a) = "executing" /\ Stage(a)' = effect
    BY <1>1, <1>2, <1>4 DEF Stage, GoneKept
  <2>2. Consenting!Report(a, effect)
    BY <1>1, <1>2, <2>1, OneCall DEF Consenting!Report
  <2>. QED BY <2>2 DEF Consenting!ConsentNext, Consenting!AllCalls, Keys
<1>. QED BY <1>3, <1>4

(* Recovery makes the effects under way uncertain. *)
LEMMA RestartCalls ==
  ASSUME TypeOK, Consent, GoneKept, NEW first, Restart(first)
  PROVE  Consenting!ConsentNext
<1>1. /\ waiters' = {}
      /\ \A a \in Keys : appr'[a] = IF appr[a].effect = "executing"
                                      THEN [appr[a] EXCEPT !.effect = "needs_review"] ELSE appr[a]
  BY DEF Restart
<1>2. ASSUME NEW a \in Keys
      PROVE  Stage(a)' = IF Stage(a) = "executing" THEN "needs_review" ELSE Stage(a)
  <2>1. a[1] \in Runs /\ appr[a] \in Approval
    BY DEF Keys, TypeOK
  <2>2. CASE appr[a].effect = "executing"
    <3>1. appr[a].decision = "approved"
      BY <2>2 DEF Consent
    <3>2. appr'[a].decision = "approved" /\ appr'[a].effect = "needs_review"
      BY <1>1, <2>1, <2>2, <3>1 DEF Approval
    <3>. QED BY <2>1, <2>2, <3>1, <3>2 DEF Stage, GoneKept
  <2>3. CASE appr[a].effect # "executing"
    <3>1. Stage(a)' = Stage(a)
      BY <1>1, <2>3, StageKept
    <3>2. Stage(a) # "executing"
      BY <2>3 DEF Stage
    <3>. QED BY <3>1, <3>2
  <2>. QED BY <2>2, <2>3
<1>3. Consenting!Recover
  BY <1>1, <1>2 DEF Consenting!Recover, Consenting!AllCalls, Keys
<1>. QED BY <1>3 DEF Consenting!ConsentNext

(* Nothing is left of the calls of a deleted session. *)
LEMMA DeleteCalls ==
  ASSUME TypeOK, NEW s \in Sessions, DeleteSession(s)
  PROVE  Consenting!ConsentNext
<1>1. RunsOf(s) \in SUBSET Runs
  BY DEF RunsOf
<1>2. \A r \in Runs : run'[r] = IF r \in RunsOf(s) THEN [NoRunRow EXCEPT !.status = "deleted"]
                                                   ELSE run[r]
  BY DEF DeleteSession
<1>3. \A a \in Keys : appr'[a] = IF a[1] \in RunsOf(s) THEN NoApproval ELSE appr[a]
  BY DEF DeleteSession
<1>4. \A a \in Keys : Stage(a)' = IF a[1] \in RunsOf(s) THEN "gone" ELSE Stage(a)
  <2>1. ASSUME NEW a \in Keys, a[1] \in RunsOf(s) PROVE Stage(a)' = "gone"
    <3>1. run'[a[1]].status = "deleted"
      BY <1>1, <1>2, <2>1 DEF NoRunRow
    <3>. QED BY <3>1 DEF Stage
  <2>2. ASSUME NEW a \in Keys, a[1] \notin RunsOf(s) PROVE Stage(a)' = Stage(a)
    <3>1. run'[a[1]] = run[a[1]] /\ appr'[a] = appr[a]
      BY <1>2, <1>3, <2>2 DEF Keys
    <3>. QED BY <3>1 DEF Stage
  <2>. QED BY <2>1, <2>2
<1>5. PendingOf(s, appr) = {a \in Consenting!Asked : a[1] \in RunsOf(s)}
  <2>1. \A a \in Keys : a[1] \in RunsOf(s) => (Stage(a) = "asked" <=> appr[a].decision = "pending")
    BY DEF RunsOf, RunExists, NoRow, Stage, TypeOK, Approval
  <2>2. Consenting!Asked = {a \in Keys : Stage(a) = "asked"}
    BY DEF Consenting!Asked, Consenting!AllCalls, Keys
  <2>3. \A a \in Keys : a[1] \in RunsOf(s) <=> RunExists(a[1]) /\ SessionOf(a[1]) = s
    BY DEF RunsOf, Keys
  <2>. QED BY <2>1, <2>2, <2>3 DEF PendingOf
<1>6. waiters' = waiters \ PendingOf(s, appr)
  BY DEF DeleteSession
<1>7. Consenting!Forget(RunsOf(s))
  BY <1>4, <1>5, <1>6 DEF Consenting!Forget, Consenting!AllCalls, Keys
<1>. QED BY <1>1, <1>7 DEF Consenting!ConsentNext

(* Every step of the ledger is one of ToolConsent, or none. *)
LEMMA NextConsents ==
  ASSUME TypeOK, Consent, Next
  PROVE  Consenting!ConsentNext \/ UNCHANGED Consenting!consentVars
<1>. DEFINE Goal == Consenting!ConsentNext \/ UNCHANGED Consenting!consentVars
<1>1. CASE \E s \in Sessions : DeleteSession(s)
  BY <1>1, DeleteCalls
<1>2. CASE ~(\E s \in Sessions : DeleteSession(s))
  <2>1. GoneKept
    BY <1>2, NextGone
  <2>2. \A s : PauseRun(s) \/ FailRun(s) => Goal
    BY <2>1, PauseCalls
  <2>3. UNCHANGED <<appr, waiters>> => Goal
    BY <2>1, QuietCalls
  <2>. HIDE DEF Goal
  <2>4. (\E r \in Runs : BeginPreparedRun(r) \/ PreparedRunRejected(r)) => Goal
    BY <2>2, <2>3 DEF BeginPreparedRun, PreparedRunRejected, CaughtByStartSession,
       CaughtByObserver, memory
  <2>5. (\E s \in Sessions : \/ SetOutputContract(s) \/ GateDenied(s) \/ AuthorizeStale(s)
                             \/ StartCompletion(s) \/ StopSession(s) \/ TurnError(s)
                             \/ PromptRejected(s) \/ \E r \in Runs : CancelExternal(s, r))
          => Goal
    BY <2>2, <2>3 DEF SetOutputContract, GateDenied, AuthorizeStale, StartCompletion,
       StopSession, TurnError, PromptRejected, CancelExternal, db, memory
  <2>6. /\ (\E t \in Tasks, trigger \in {"resume", "retry"} : PrepareRunRejected(t, trigger))
             => Goal
        /\ (\E c \in collecting, verdict \in Outcomes, delivery \in Deliveries :
              FinishCompletion(c, verdict, delivery)) => Goal
        /\ (\E t \in Tasks : AcceptTask(t)) => Goal
    BY <2>2, <2>3 DEF PrepareRunRejected, FinishCompletion, AcceptTask, memory
  <2>. USE DEF Goal
  <2>7. /\ (\E s \in Sessions, contract \in NewContracts, t \in Tasks, r \in Runs :
              BeginMessageRun(s, contract, t, r)) => Goal
        /\ (\E t \in Tasks, trigger \in {"resume", "retry"}, r \in Runs :
              PrepareRun(t, trigger, r)) => Goal
    BY <2>1, MessageCalls, PrepareCalls
  <2>8. /\ (\E s \in Sessions, a \in Keys : AuthorizeAuto(s, a) \/ AuthorizeAsk(s, a)) => Goal
        /\ (\E a \in Keys : Approve(a) \/ DenyInCard(a) \/ DenyInChat(a)) => Goal
    BY <2>1, AuthorizeCalls, ApproveCalls, DenyCalls
  <2>9. /\ (\E a \in Keys, effect \in {"succeeded", "failed"} : RecordToolResult(a, effect))
             => Goal
        /\ (\E first \in [Tasks -> Runs] : Restart(first)) => Goal
    BY <2>1, ResultCalls, RestartCalls
  <2>. HIDE DEF Goal
  <2>10. Goal
    BY <1>2, <2>4, <2>5, <2>6, <2>7, <2>8, <2>9 DEF Next
  <2>. QED BY <2>10 DEF Goal
<1>. QED BY <1>1, <1>2

(* The ledger implements ToolConsent, for every number of tasks, runs,     *)
(* sessions and calls: each step lets calls through, asks, grants,         *)
(* refuses, reports, forgets or recovers as it says, or leaves them alone. *)
THEOREM CallsFollowConsent == Spec => ImplementsConsent
<1>1. Init => Consenting!ConsentInit
  <2>. SUFFICES ASSUME Init PROVE Consenting!ConsentInit
    OBVIOUS
  <2>1. \A a \in Keys : Stage(a) = "unasked"
    BY DEF Init, Stage, Keys, NoRunRow, NoApproval
  <2>. QED BY <2>1 DEF Init, Consenting!ConsentInit, Consenting!AllCalls, Keys
<1>2. TypeOK /\ Consent /\ [Next]_vars => [Consenting!ConsentNext]_(Consenting!consentVars)
  <2>1. TypeOK /\ Consent /\ Next
          => Consenting!ConsentNext \/ UNCHANGED Consenting!consentVars
    BY NextConsents
  <2>2. UNCHANGED vars => UNCHANGED Consenting!consentVars
    BY DEF vars, db, memory, Consenting!consentVars, Stage
  <2>. QED BY <2>1, <2>2
<1>. QED BY <1>1, <1>2, TypeCorrect, ConsentInvariant, PTL
     DEF Spec, ImplementsConsent, Consenting!ConsentSpec

=============================================================================
