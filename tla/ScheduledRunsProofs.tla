--------------------------- MODULE ScheduledRunsProofs ---------------------------
(***************************************************************************)
(* Proofs about ScheduledRuns, for every period, window and length of the  *)
(* history and any manual starts.                                          *)
(*                                                                         *)
(* Executed counts the executions of a key by the status of its run, which *)
(* makes the unique key of a run enough for "at most once".  Locked ties   *)
(* the task lock to the rows, which the recovery may have changed under    *)
(* it, Staged says what a start can have under way before its recovery,    *)
(* and Marked ties the running mark of the task to a row that says         *)
(* "running", also while the application is closed.                        *)
(*                                                                         *)
(* The summaries need an invariant of their own.  A boundary that a        *)
(* skipped run stands for is OutOfReach: no trigger or catch-up for it is  *)
(* on the way, and it is too old to be replayed or not the newest that is  *)
(* missed; or its trigger was sent before the recovery.                    *)
(* Clocked is what makes the missed boundaries of a restart run-free.      *)
(***************************************************************************)
EXTENDS ScheduledRuns, FiniteSetTheorems, TLAPS

Executed ==
    \A k \in Keys : attempts[k] = IF run[k] \in {"none", "skipped"} THEN 0 ELSE 1

Distinct(s) == \A i, j \in 1..Len(s) : s[i] = s[j] => i = j

Locked ==
    /\ Distinct(lock)
    /\ \A k \in ToSet(lock) : run[k] \notin {"none", "skipped"}
    /\ ToSet(lock) \ early \subseteq Running
    /\ stage = "open" => Running \subseteq ToSet(lock)

Marked == runningAt => Running # {}

\* Nothing is under way in a closed application, and before the recovery only what
\* the sidecar triggered since the launch.
Staged ==
    /\ stage = "closed" => triggers = {} /\ lock = << >>
    /\ stage = "starting" => triggers \subseteq early /\ ToSet(lock) \subseteq early
    /\ stage # "open" => replay = {}

IInv == TypeOK /\ Executed /\ Locked /\ Marked /\ Staged

----------------------------------------------------------------------------
(* The task lock as a sequence *)

LEMMA AppendLock ==
  ASSUME NEW s \in Seq(Keys), NEW x \in Keys, Distinct(s), x \notin ToSet(s)
  PROVE  /\ Append(s, x) \in Seq(Keys)
         /\ Distinct(Append(s, x))
         /\ ToSet(Append(s, x)) = ToSet(s) \cup {x}
<1> DEFINE t == Append(s, x)
<1>1. /\ t \in Seq(Keys) /\ Len(t) = Len(s) + 1 /\ Len(s) \in Nat
      /\ \A i \in 1..Len(s) : t[i] = s[i]
      /\ t[Len(s) + 1] = x
      /\ DOMAIN s = 1..Len(s) /\ DOMAIN t = 1..Len(t)
  OBVIOUS
<1>2. ToSet(s) = {s[i] : i \in 1..Len(s)} /\ ToSet(t) = {t[i] : i \in 1..Len(t)}
  BY <1>1 DEF ToSet
<1> HIDE DEF t
<1>3. \A i \in 1..Len(s) : s[i] # x
  BY <1>2
<1>4. Distinct(t)
  <2> SUFFICES ASSUME NEW i \in 1..Len(t), NEW j \in 1..Len(t), t[i] = t[j] PROVE i = j
    BY DEF Distinct
  <2>1. i \in 1..Len(s) \/ i = Len(s) + 1
    BY <1>1
  <2>2. j \in 1..Len(s) \/ j = Len(s) + 1
    BY <1>1
  <2>. QED BY <1>1, <1>3, <2>1, <2>2 DEF Distinct
<1>5. ToSet(t) = ToSet(s) \cup {x}
  <2>1. 1..Len(t) = 1..Len(s) \cup {Len(s) + 1}
    BY <1>1
  <2>. QED BY <1>1, <1>2, <2>1
<1>. QED BY <1>1, <1>4, <1>5 DEF t

LEMMA TailLock ==
  ASSUME NEW s \in Seq(Keys), s # << >>, Distinct(s)
  PROVE  /\ Tail(s) \in Seq(Keys)
         /\ Head(s) \in ToSet(s) /\ Head(s) \in Keys
         /\ Distinct(Tail(s))
         /\ ToSet(Tail(s)) = ToSet(s) \ {Head(s)}
<1> DEFINE t == Tail(s)
<1>1. /\ t \in Seq(Keys) /\ Len(t) = Len(s) - 1 /\ Len(s) \in Nat \ {0}
      /\ \A i \in 1..Len(t) : t[i] = s[i + 1]
      /\ Head(s) = s[1] /\ Head(s) \in Keys
      /\ DOMAIN s = 1..Len(s) /\ DOMAIN t = 1..Len(t)
  OBVIOUS
<1>2. ToSet(s) = {s[i] : i \in 1..Len(s)} /\ ToSet(t) = {t[i] : i \in 1..Len(t)}
  BY <1>1 DEF ToSet
<1> HIDE DEF t
<1>3. Distinct(t)
  <2> SUFFICES ASSUME NEW i \in 1..Len(t), NEW j \in 1..Len(t), t[i] = t[j] PROVE i = j
    BY DEF Distinct
  <2>1. i + 1 \in 1..Len(s) /\ j + 1 \in 1..Len(s) /\ s[i + 1] = s[j + 1]
    BY <1>1
  <2>2. i + 1 = j + 1
    BY <2>1 DEF Distinct
  <2>. QED BY <2>2
<1>4. 1 \in 1..Len(s)
  BY <1>1
<1>5. ASSUME NEW x \in ToSet(t) PROVE x \in ToSet(s) \ {Head(s)}
  <2>1. PICK i \in 1..Len(t) : x = t[i]
    BY <1>2
  <2>2. i + 1 \in 1..Len(s) /\ x = s[i + 1] /\ i + 1 # 1
    BY <1>1, <2>1
  <2>3. s[i + 1] # s[1]
    BY <1>4, <2>2 DEF Distinct
  <2>. QED BY <1>1, <1>2, <2>2, <2>3
<1>6. ASSUME NEW x \in ToSet(s), x # Head(s) PROVE x \in ToSet(t)
  <2>1. PICK i \in 1..Len(s) : x = s[i]
    BY <1>2
  <2>2. i # 1
    BY <1>1, <1>6, <2>1
  <2>3. i - 1 \in 1..Len(t)
    BY <1>1, <2>2
  <2>4. t[i - 1] = s[(i - 1) + 1] /\ (i - 1) + 1 = i
    BY <1>1, <2>3
  <2>. QED BY <1>2, <2>1, <2>3, <2>4
<1>7. Head(s) \in ToSet(s)
  BY <1>1, <1>2, <1>4
<1>. QED BY <1>1, <1>3, <1>5, <1>6, <1>7 DEF t

----------------------------------------------------------------------------
(* Each action keeps the invariant *)

\* A step that leaves the runs alone keeps the parts about them.
LEMMA SameRunsKeep ==
  ASSUME IInv, UNCHANGED <<run, attempts, lock, runningAt>>, early \subseteq early',
         stage' = "open" => stage = "open"
  PROVE  Executed' /\ Locked' /\ Marked'
BY DEF IInv, Executed, Locked, Marked, Running

LEMMA TickKeeps ==
  ASSUME IInv, Tick
  PROVE  IInv'
<1> DEFINE passed == {now + 1} \cap Boundaries
<1>1. PICK sent \in SUBSET passed :
        /\ sent # {} => Up /\ enabled
        /\ triggers' = triggers \cup sent
        /\ early' = IF stage = "starting" THEN early \cup sent ELSE early
  BY DEF Tick
<1>2. /\ now' = now + 1 /\ now < MaxTime
      /\ due' = IF enabled THEN due \cup passed ELSE due
      /\ gap' = IF enabled /\ ~ Up THEN gap \cup passed ELSE gap
      /\ UNCHANGED <<stage, enabled, replay, taskVars, lock, attempts, toggles, crashes>>
  BY DEF Tick
<1>3. passed \subseteq Boundaries /\ sent \subseteq Boundaries
  OBVIOUS
<1> HIDE DEF passed
<1>4. now' \in 0..MaxTime
  BY <1>2, ClockAssumption DEF IInv, TypeOK
<1>5. /\ triggers' \subseteq Boundaries /\ early' \subseteq Boundaries
      /\ due' \subseteq Boundaries /\ gap' \subseteq Boundaries
  BY <1>1, <1>2, <1>3 DEF IInv, TypeOK
<1>6. TypeOK'
  BY <1>2, <1>4, <1>5 DEF taskVars, IInv, TypeOK
<1>7. UNCHANGED <<run, attempts, lock, runningAt, stage, replay>> /\ early \subseteq early'
  BY <1>1, <1>2 DEF taskVars
<1>8. Staged'
  BY <1>1, <1>7 DEF IInv, Staged, Up
<1>. QED BY <1>6, <1>7, <1>8, SameRunsKeep DEF IInv

\* A claim takes a trigger, a manual start or a catch-up.
LEMMA ClaimKeeps ==
  ASSUME IInv, NEW k \in Keys, Claim(k), stage = "open" \/ (stage = "starting" /\ k \in early),
         replay' \subseteq replay,
         UNCHANGED <<now, stage, enabled, triggers, lastRun, skipCount, gap, early, due,
                     toggles, crashes>>
  PROVE  IInv'
<1>1. /\ run[k] = "none" /\ attempts[k] = 0 /\ k \notin ToSet(lock)
      /\ lock \in Seq(Keys) /\ Distinct(lock)
      /\ run \in [Keys -> RunStatus] /\ attempts \in [Keys -> Nat]
  BY DEF Claim, IInv, TypeOK, Executed, Locked
<1>2. /\ run' \in [Keys -> RunStatus] /\ run'[k] = "running"
      /\ \A x \in Keys : x # k => run'[x] = run[x]
  BY <1>1 DEF Claim, RunStatus
<1>3. /\ attempts' \in [Keys -> Nat] /\ attempts'[k] = 1
      /\ \A x \in Keys : x # k => attempts'[x] = attempts[x]
  BY <1>1 DEF Claim
<1>4. Running' = Running \cup {k}
  BY <1>1, <1>2 DEF Running
<1>5. /\ lock' \in Seq(Keys) /\ Distinct(lock')
      /\ ToSet(lock') = ToSet(lock) \cup {k}
  BY <1>1, AppendLock DEF Claim
<1>6. runningAt' = TRUE
  BY DEF Claim
<1>7. TypeOK'
  BY <1>2, <1>3, <1>5, <1>6 DEF IInv, TypeOK
<1>8. Executed'
  BY <1>2, <1>3 DEF IInv, Executed
<1>9. Locked'
  <2>1. \A x \in ToSet(lock) : run'[x] \notin {"none", "skipped"}
    BY <1>1, <1>2 DEF Claim, IInv, TypeOK, Locked
  <2>2. \A x \in ToSet(lock') : run'[x] \notin {"none", "skipped"}
    BY <1>2, <1>5, <2>1
  <2>. QED BY <1>4, <1>5, <2>2 DEF IInv, Locked
<1>10. Marked'
  BY <1>4 DEF Marked
<1>11. Staged'
  BY <1>5 DEF IInv, Staged
<1>. QED BY <1>7, <1>8, <1>9, <1>10, <1>11 DEF IInv

LEMMA HandleTriggerKeeps ==
  ASSUME IInv, NEW b \in Boundaries, HandleTrigger(b)
  PROVE  IInv'
<1>1. /\ b \in triggers /\ b \in Keys /\ stage # "closed" /\ Claim(b)
      /\ UNCHANGED <<now, stage, enabled, triggers, replay, lastRun, skipCount, gap, early,
                     due, toggles, crashes>>
  BY DEF HandleTrigger, Up, Keys
<1>2. stage = "open" \/ (stage = "starting" /\ b \in early)
  BY <1>1 DEF IInv, TypeOK, Staged
<1>. QED BY <1>1, <1>2, ClaimKeeps

LEMMA RunNowKeeps ==
  ASSUME IInv, NEW m \in Manual, RunNow(m)
  PROVE  IInv'
BY ClaimKeeps DEF RunNow, Keys

LEMMA CatchUpKeeps ==
  ASSUME IInv, NEW b \in Boundaries, CatchUp(b)
  PROVE  IInv'
<1>1. /\ b \in replay /\ b \in Keys /\ replay' \subseteq replay
      /\ UNCHANGED <<now, stage, enabled, triggers, lastRun, skipCount, gap, early,
                     due, toggles, crashes>>
  BY DEF CatchUp, Keys
<1>2. stage = "open"
  BY <1>1 DEF IInv, Staged
<1>3. CASE Claim(b)
  BY <1>1, <1>2, <1>3, ClaimKeeps
<1>4. CASE UNCHANGED <<run, runningAt, lock, attempts>>
  <2>1. TypeOK'
    BY <1>1, <1>4 DEF IInv, TypeOK
  <2>2. Staged'
    BY <1>1, <1>2 DEF IInv, Staged
  <2>. QED BY <1>1, <1>4, <2>1, <2>2, SameRunsKeep DEF IInv
<1>. QED BY <1>3, <1>4 DEF CatchUp

LEMMA FinishRunKeeps ==
  ASSUME IInv, FinishRun
  PROVE  IInv'
<1> DEFINE k == Head(lock)
<1>1. PICK status \in Ended : run' = [run EXCEPT ![k] = status]
  BY DEF FinishRun
<1>2. /\ stage # "closed" /\ lock # << >> /\ lock' = Tail(lock) /\ runningAt' = FALSE
      /\ lastRun' = now
      /\ UNCHANGED <<now, stage, enabled, triggers, replay, skipCount, gap, early, due,
                     attempts, toggles, crashes>>
  BY DEF FinishRun, Up
<1>3. lock \in Seq(Keys) /\ Distinct(lock)
  BY DEF IInv, TypeOK, Locked
<1>4. /\ lock' \in Seq(Keys) /\ Distinct(lock')
      /\ k \in ToSet(lock) /\ k \in Keys
      /\ ToSet(lock') = ToSet(lock) \ {k}
  BY <1>2, <1>3, TailLock
<1> HIDE DEF k
<1>5. run[k] \notin {"none", "skipped"}
  BY <1>4 DEF IInv, Locked
<1>6. /\ run' \in [Keys -> RunStatus] /\ run'[k] = status
      /\ \A x \in Keys : x # k => run'[x] = run[x]
  BY <1>1, <1>4 DEF IInv, TypeOK, RunStatus
<1>7. Running' = Running \ {k}
  BY <1>4, <1>6 DEF Running, Ended
<1>8. TypeOK'
  BY <1>2, <1>4, <1>6 DEF IInv, TypeOK
<1>9. Executed'
  BY <1>2, <1>5, <1>6 DEF IInv, Executed, Ended
<1>10. Locked'
  <2>1. \A x \in ToSet(lock') : x # k /\ x \in ToSet(lock)
    BY <1>4
  <2>2. \A x \in ToSet(lock) : x # k => run'[x] = run[x]
    BY <1>1 DEF IInv, TypeOK
  <2>3. \A x \in ToSet(lock') : run'[x] \notin {"none", "skipped"}
    BY <2>1, <2>2 DEF IInv, Locked
  <2>. QED BY <1>2, <1>4, <1>7, <2>3 DEF IInv, Locked
<1>11. Marked' /\ Staged'
  BY <1>2, <1>4 DEF IInv, Marked, Staged
<1>. QED BY <1>8, <1>9, <1>10, <1>11 DEF IInv

LEMMA ToggleKeeps ==
  ASSUME IInv, Toggle
  PROVE  IInv'
<1>1. enabled' \in BOOLEAN
  BY DEF Toggle
<1>2. toggles' \in Nat
  BY DEF Toggle, IInv, TypeOK
<1>3. TypeOK'
  BY <1>1, <1>2 DEF Toggle, taskVars, IInv, TypeOK
<1>4. UNCHANGED <<run, attempts, lock, runningAt, stage, early, triggers, replay>>
  BY DEF Toggle, taskVars
<1>5. Staged'
  BY <1>4 DEF IInv, Staged
<1>. QED BY <1>3, <1>4, <1>5, SameRunsKeep DEF IInv

LEMMA CloseKeeps ==
  ASSUME IInv, Close
  PROVE  IInv'
<1>1. /\ crashes' \in Nat /\ stage' = "closed" /\ lock' = << >>
      /\ lock' \in Seq(Keys) /\ triggers' = {} /\ replay' = {}
  BY DEF Close, IInv, TypeOK
<1>2. TypeOK'
  BY <1>1 DEF Close, taskVars, IInv, TypeOK
<1>3. Executed' /\ Marked' /\ Staged'
  BY <1>1 DEF Close, taskVars, IInv, Executed, Marked, Running, Staged
<1>4. ToSet(lock') = {} /\ Distinct(lock')
  BY <1>1 DEF ToSet, Distinct
<1>5. Locked'
  BY <1>1, <1>4 DEF Locked
<1>. QED BY <1>2, <1>3, <1>5 DEF IInv

LEMMA LaunchKeeps ==
  ASSUME IInv, Launch
  PROVE  IInv'
<1>1. /\ stage = "closed" /\ stage' = "starting" /\ triggers' = {} /\ lock' = << >> /\ replay' = {}
      /\ UNCHANGED <<run, attempts, lock, runningAt, early>>
  BY DEF Launch, Up, taskVars, IInv, Staged
<1>2. TypeOK'
  BY <1>1 DEF Launch, taskVars, IInv, TypeOK
<1>3. ToSet(lock') = {}
  BY <1>1 DEF ToSet
<1>4. Staged'
  BY <1>1, <1>3 DEF Staged
<1>. QED BY <1>1, <1>2, <1>4, SameRunsKeep DEF IInv

\* The interrupted runs become errors: no row says "running".
LEMMA RecoveredRuns ==
  ASSUME IInv
  PROVE  /\ Recovered \in [Keys -> RunStatus]
         /\ \A k \in Keys : /\ Recovered[k] # "running"
                            /\ (Recovered[k] \in {"none", "skipped"})
                                 <=> (run[k] \in {"none", "skipped"})
BY DEF Recovered, IInv, TypeOK, RunStatus, Ended

\* The summary turns at most one row without a run into a skipped one.
LEMMA SummarizedRuns ==
  ASSUME NEW rows \in [Keys -> RunStatus], NEW missed, NEW count
  PROVE  /\ Summarized(rows, missed, count) \in [Keys -> RunStatus]
         /\ \A k \in Keys :
              \/ Summarized(rows, missed, count)[k] = rows[k]
              \/ rows[k] = "none" /\ Summarized(rows, missed, count)[k] = "skipped"
<1> DEFINE o == Oldest(missed)
<1>1. CASE count > 0 /\ rows[o] = "none"
  <2>1. Summarized(rows, missed, count) = [rows EXCEPT ![o] = "skipped"]
    BY <1>1 DEF Summarized
  <2> HIDE DEF o
  <2>. QED BY <1>1, <2>1 DEF RunStatus
<1>2. CASE ~ (count > 0 /\ rows[o] = "none")
  <2>1. Summarized(rows, missed, count) = rows
    BY <1>2 DEF Summarized
  <2>. QED BY <2>1
<1>. QED BY <1>1, <1>2

LEMMA RecoverKeeps ==
  ASSUME IInv, Recover
  PROVE  IInv'
<1> DEFINE missed == IF enabled THEN Missed(RecoveredLastRun, now) ELSE {}
<1> DEFINE count == Cardinality(missed) - Cardinality(Replayed(missed))
<1>1. /\ stage = "starting" /\ stage' = "open" /\ lastRun' = RecoveredLastRun
      /\ run' = Summarized(Recovered, missed, count)
      /\ skipCount' = SummaryCount(Recovered, missed, count)
      /\ replay' = Replayed(missed)
      /\ runningAt' = (Running = {} /\ runningAt)
      /\ gap' = {}
      /\ UNCHANGED <<now, enabled, triggers, lock, early, due, attempts, toggles, crashes>>
  BY DEF Recover
<1>2. missed \subseteq Boundaries /\ Replayed(missed) \subseteq missed
  BY DEF Missed, Replayed
<1>3. Cardinality(missed) \in Nat /\ Cardinality(Replayed(missed)) \in Nat
  <2>1. missed \in SUBSET (1..MaxTime) /\ Replayed(missed) \in SUBSET (1..MaxTime)
    BY <1>2 DEF Boundaries
  <2>2. IsFiniteSet(1..MaxTime)
    BY ClockAssumption, FS_Interval
  <2>. QED BY <2>1, <2>2, FS_Subset, FS_CardinalityType
<1>4. count \in Int
  BY <1>3
<1> HIDE DEF missed, count
<1>5. /\ run' \in [Keys -> RunStatus]
      /\ \A k \in Keys : \/ run'[k] = Recovered[k]
                         \/ Recovered[k] = "none" /\ run'[k] = "skipped"
  BY <1>1, RecoveredRuns, SummarizedRuns
<1>6. skipCount' \in [Boundaries -> Nat]
  <2> DEFINE o == Oldest(missed)
  <2>1. CASE count > 0 /\ Recovered[o] = "none"
    <3>1. skipCount' = [skipCount EXCEPT ![o] = count]
      BY <1>1, <2>1 DEF SummaryCount
    <3> HIDE DEF o
    <3>2. count \in Nat
      BY <1>4, <2>1
    <3>3. skipCount \in [Boundaries -> Nat]
      BY DEF IInv, TypeOK
    <3>. QED BY <3>1, <3>2, <3>3
  <2>2. CASE ~ (count > 0 /\ Recovered[o] = "none")
    <3>1. skipCount' = skipCount
      BY <1>1, <2>2 DEF SummaryCount
    <3>. QED BY <3>1 DEF IInv, TypeOK
  <2>. QED BY <2>1, <2>2
<1>7. \A k \in Keys : run'[k] \in {"none", "skipped"} <=> run[k] \in {"none", "skipped"}
  BY <1>5, RecoveredRuns
<1>8. Running' = {}
  BY <1>5, RecoveredRuns DEF Running
<1>9. lastRun' \in 0..MaxTime
  BY <1>1 DEF RecoveredLastRun, IInv, TypeOK
<1>10. replay' \subseteq Boundaries /\ gap' \subseteq Boundaries
  BY <1>1, <1>2
<1>11. runningAt' = FALSE
  BY <1>1 DEF IInv, Marked
<1>12. TypeOK'
  BY <1>1, <1>5, <1>6, <1>9, <1>10, <1>11 DEF IInv, TypeOK
<1>13. Executed'
  BY <1>1, <1>7 DEF IInv, Executed
<1>14. Locked'
  <2>1. ToSet(lock) \subseteq Keys
    BY DEF ToSet, IInv, TypeOK
  <2>2. \A k \in ToSet(lock) : run'[k] \notin {"none", "skipped"}
    BY <1>7, <2>1 DEF IInv, Locked
  <2>. QED BY <1>1, <1>8, <2>2 DEF IInv, Locked, Staged
<1>15. Marked' /\ Staged'
  BY <1>1, <1>11 DEF Marked, Staged
<1>. QED BY <1>12, <1>13, <1>14, <1>15 DEF IInv

----------------------------------------------------------------------------
(* The invariant holds *)

LEMMA InitKeeps == Init => IInv
<1> SUFFICES ASSUME Init PROVE IInv
  OBVIOUS
<1>1. enabled \in BOOLEAN /\ runningAt \in BOOLEAN
  BY DEF Init
<1>2. TypeOK
  BY <1>1, ClockAssumption DEF Init, TypeOK, RunStatus
<1>3. Running = {}
  BY DEF Init, Running
<1>4. Executed /\ Marked /\ Staged
  BY DEF Init, Executed, Marked, Staged
<1>5. Locked
  BY <1>3 DEF Init, Locked, Distinct, ToSet
<1>. QED BY <1>2, <1>4, <1>5 DEF IInv

LEMMA NextKeeps ==
  ASSUME IInv, [Next]_vars
  PROVE  IInv'
<1>1. CASE Tick \/ FinishRun \/ Toggle \/ Close \/ Launch \/ Recover
  BY <1>1, TickKeeps, FinishRunKeeps, ToggleKeeps, CloseKeeps, LaunchKeeps, RecoverKeeps
<1>2. CASE \E b \in Boundaries : HandleTrigger(b) \/ CatchUp(b)
  BY <1>2, HandleTriggerKeeps, CatchUpKeeps
<1>3. CASE \E m \in Manual : RunNow(m)
  BY <1>3, RunNowKeeps
<1>4. CASE UNCHANGED vars
  <2>1. TypeOK'
    BY <1>4 DEF vars, IInv, TypeOK
  <2>2. Staged'
    BY <1>4 DEF vars, IInv, Staged
  <2>. QED BY <1>4, <2>1, <2>2, SameRunsKeep DEF vars, IInv
<1>. QED BY <1>1, <1>2, <1>3, <1>4 DEF Next

LEMMA Invariance == Spec => []IInv
<1>. QED BY InitKeeps, NextKeeps, PTL DEF Spec

----------------------------------------------------------------------------

\* Every variable of a scheduled task keeps its type: the lock holds keys of runs,
\* and the count of a summary is never negative.
THEOREM TypeCorrect == Spec => []TypeOK
<1>1. IInv => TypeOK
  BY DEF IInv
<1>. QED BY <1>1, Invariance, PTL

\* After the recovery no crash, restart or late trigger leaves a run shown as running
\* without an execution, whatever the schedule; the runs that execute are shown as
\* running, except those a trigger began before the recovery.
THEOREM RunsAreLive == Spec => []RunningIsLive
<1>1. IInv => RunningIsLive
  BY DEF IInv, Locked, Marked, RunningIsLive
<1>. QED BY <1>1, Invariance, PTL

\* A start of the task executes at most once, for any schedule and any number of
\* triggers, restarts and manual starts.
THEOREM AtMostOneExecution == Spec => []ExecutedAtMostOnce
<1>1. IInv => ExecutedAtMostOnce
  BY DEF IInv, Executed, ExecutedAtMostOnce
<1>. QED BY <1>1, Invariance, PTL

----------------------------------------------------------------------------
(* The arithmetic of the boundaries *)

LEMMA BoundaryIsMultiple ==
  ASSUME NEW b \in Boundaries
  PROVE  \E i \in Nat \ {0} : b = Period * i
<1> DEFINE i == b \div Period
<1>1. Period \in Nat /\ Period > 0
  BY ClockAssumption
<1>2. b \in Nat /\ b > 0 /\ b % Period = 0
  BY ClockAssumption DEF Boundaries
<1>3. i \in Int /\ b = Period * i + (b % Period)
  BY <1>1, <1>2
<1> HIDE DEF i
<1>4. b = Period * i
  BY <1>1, <1>2, <1>3
<1>5. i > 0
  BY <1>1, <1>2, <1>3, <1>4
<1>. QED BY <1>3, <1>4, <1>5

LEMMA MultipleIsBoundary ==
  ASSUME NEW i \in Nat \ {0}, Period * i <= MaxTime
  PROVE  Period * i \in Boundaries
<1>1. Period \in Nat /\ Period > 0
  BY ClockAssumption
<1>2. Period * i \in Nat /\ Period * i > 0
  BY <1>1
<1>3. (Period * i) % Period = 0
  BY <1>1
<1>. QED BY <1>2, <1>3, ClockAssumption DEF Boundaries

\* Multiples are ordered as their factors.
LEMMA MultiplesOrdered ==
  ASSUME NEW i \in Int, NEW j \in Int
  PROVE  /\ Period * i \in Int
         /\ i <= j <=> Period * i <= Period * j
         /\ i < j <=> Period * i < Period * j
         /\ Period * (i + 1) = Period * i + Period
<1>1. Period \in Nat /\ Period > 0
  BY ClockAssumption
<1>. QED BY <1>1

\* The missed boundaries are the multiples of Period in an interval.
LEMMA MissedInterval ==
  ASSUME NEW since \in Nat, NEW t \in 0..MaxTime, Missed(since, t) # {}
  PROVE  \E lo, hi \in Nat \ {0} :
           /\ lo <= hi
           /\ Missed(since, t) = {Period * i : i \in lo..hi}
           /\ Cardinality(Missed(since, t)) = hi - lo + 1
           /\ Oldest(Missed(since, t)) = Period * lo
           /\ t < Period * hi + Period
<1> DEFINE M == Missed(since, t)
<1> DEFINE Indices == {i \in 1..MaxTime : Period * i \in M}
<1>1. Period \in Nat /\ Period > 0 /\ MaxTime \in Nat
  BY ClockAssumption
<1>2. \A b \in M : b \in Boundaries /\ b \in Int /\ since < b /\ b <= t
  BY DEF Missed, Boundaries
<1>3. \A b \in Boundaries : since < b /\ b <= t => b \in M
  BY DEF Missed
<1> HIDE DEF M
<1> DEFINE lo == (since \div Period) + 1
<1> DEFINE hi == t \div Period
<1>4. lo \in Nat \ {0} /\ hi \in Nat
  BY <1>1
<1>5. Period * (lo - 1) <= since /\ since < Period * lo
  BY <1>1
<1>6. Period * hi <= t /\ t < Period * hi + Period
  BY <1>1
<1> HIDE DEF lo, hi
<1>7. ASSUME NEW b \in M PROVE \E i \in lo..hi : b = Period * i
  <2>1. PICK i \in Nat \ {0} : b = Period * i
    BY <1>2, BoundaryIsMultiple
  <2>2. Period * (lo - 1) < Period * i /\ Period * i < Period * (hi + 1)
    BY <1>1, <1>2, <1>4, <1>5, <1>6, <2>1, MultiplesOrdered
  <2>3. lo - 1 < i /\ i < hi + 1
    BY <1>4, <2>2, MultiplesOrdered
  <2>. QED BY <1>4, <2>1, <2>3
<1>8. ASSUME NEW i \in lo..hi PROVE Period * i \in M
  <2>1. i \in Nat \ {0} /\ i \in Int
    BY <1>4
  <2>2. Period * lo <= Period * i /\ Period * i <= Period * hi /\ Period * i \in Int
        /\ Period * lo \in Int /\ Period * hi \in Int
    BY <1>4, <2>1, MultiplesOrdered
  <2>3. since < Period * i /\ Period * i <= t /\ Period * i <= MaxTime
    BY <1>1, <1>5, <1>6, <2>2
  <2>. QED BY <1>3, <2>1, <2>3, MultipleIsBoundary
<1>9. M = {Period * i : i \in lo..hi}
  BY <1>7, <1>8
<1>10. lo <= hi /\ hi \in Nat \ {0}
  <2>1. M # {}
    BY DEF M
  <2>. QED BY <1>4, <2>1, <1>7
<1>11. Cardinality(M) = hi - lo + 1
  <2> DEFINE f == [i \in lo..hi |-> Period * i]
  <2>1. f \in Bijection(lo..hi, M)
    <3>1. f \in [lo..hi -> M]
      BY <1>8
    <3>2. ASSUME NEW i \in lo..hi, NEW j \in lo..hi, f[i] = f[j] PROVE i = j
      <4>1. i \in Int /\ j \in Int /\ Period * i = Period * j
        BY <3>2
      <4>. QED BY <4>1, MultiplesOrdered
    <3>3. \A b \in M : \E i \in lo..hi : f[i] = b
      BY <1>7
    <3>. QED BY <3>1, <3>2, <3>3 DEF Bijection, Injection, Surjection, IsInjective
  <2>2. IsFiniteSet(lo..hi) /\ Cardinality(lo..hi) = hi - lo + 1
    BY <1>4, <1>10, FS_Interval
  <2>3. ExistsBijection(lo..hi, M)
    BY <2>1 DEF ExistsBijection
  <2>. QED BY <2>2, <2>3, FS_Bijection
<1>12. Oldest(M) = Period * lo
  <2>1. Period * lo \in M /\ Period * lo \in Int
    BY <1>4, <1>8, <1>10, <1>2
  <2>2. \A a \in M : Period * lo <= a
    BY <1>4, <1>7, MultiplesOrdered
  <2>3. Oldest(M) \in M /\ \A a \in M : Oldest(M) <= a
    BY <2>1, <2>2 DEF Oldest
  <2>4. Oldest(M) \in Int /\ Oldest(M) <= Period * lo /\ Period * lo <= Oldest(M)
    BY <2>1, <2>2, <2>3, <1>2
  <2>. QED BY <2>1, <2>4
<1>. QED BY <1>4, <1>6, <1>9, <1>10, <1>11, <1>12 DEF M

\* A boundary that no restart replays: it is too old, or not the newest.
Stale(b) == now - b > Window \/ b + Period <= now

\* The summary of a restart stands exactly for the missed boundaries that are not
\* replayed, and none of these is replayed by a later restart.
LEMMA Summary ==
  ASSUME NEW since \in Nat, now \in 0..MaxTime, NEW M, M = Missed(since, now), M # {},
         NEW count, count = Cardinality(M) - Cardinality(Replayed(M))
  PROVE  /\ Oldest(M) \in M
         /\ count \in Nat
         /\ \A b \in Boundaries : (Oldest(M) <= b /\ b < Oldest(M) + Period * count)
                                    <=> b \in M \ Replayed(M)
         /\ \A b \in M \ Replayed(M) : Stale(b)
<1>1. PICK lo, hi \in Nat \ {0} :
           /\ lo <= hi
           /\ M = {Period * i : i \in lo..hi}
           /\ Cardinality(M) = hi - lo + 1
           /\ Oldest(M) = Period * lo
           /\ now < Period * hi + Period
  BY MissedInterval
<1>2. Period \in Nat /\ Period > 0 /\ MaxTime \in Nat /\ Window \in Nat
  BY ClockAssumption
<1> DEFINE newest == Period * hi
<1>3. newest \in M /\ newest \in Int /\ \A a \in M : a \in Int /\ a <= newest
  <2>1. hi \in lo..hi
    BY <1>1
  <2>2. newest \in M
    BY <1>1, <2>1
  <2>3. ASSUME NEW a \in M PROVE a \in Int /\ a <= newest
    <3>1. PICK i \in lo..hi : a = Period * i
      BY <1>1
    <3>. QED BY <3>1, MultiplesOrdered
  <2>4. newest \in Int
    BY MultiplesOrdered
  <2>. QED BY <2>2, <2>3, <2>4
<1>4. Oldest(M) \in M
  <2>1. lo \in lo..hi
    BY <1>1
  <2>. QED BY <1>1, <2>1
<1>5. \A b \in Replayed(M) : b = newest /\ now - newest <= Window
  BY <1>3 DEF Replayed
<1>6. now - newest <= Window => newest \in Replayed(M)
  BY <1>3 DEF Replayed
<1>7. ASSUME NEW c \in Nat, c <= hi - lo + 1, NEW b \in Boundaries
      PROVE  (Oldest(M) <= b /\ b < Oldest(M) + Period * c)
                <=> \E i \in lo..(lo + c - 1) : b = Period * i
  <2>1. PICK i \in Nat \ {0} : b = Period * i
    BY BoundaryIsMultiple
  <2>2. Oldest(M) + Period * c = Period * (lo + c)
    BY <1>1, <1>2
  <2>3. Oldest(M) <= b <=> lo <= i
    <3>1. lo <= i <=> Period * lo <= Period * i
      BY MultiplesOrdered
    <3>. QED BY <1>1, <2>1, <3>1
  <2>4. b < Oldest(M) + Period * c <=> i < lo + c
    <3> DEFINE next == lo + c
    <3>1. next \in Int
      OBVIOUS
    <3>2. Oldest(M) + Period * c = Period * next
      BY <2>2
    <3> HIDE DEF next
    <3>3. i \in Int
      OBVIOUS
    <3>4. i < next <=> Period * i < Period * next
      BY ONLY <3>1, <3>3, MultiplesOrdered
    <3>5. b < Oldest(M) + Period * c <=> i < next
      BY <2>1, <3>2, <3>4
    <3>. QED BY <3>5 DEF next
  <2>5. \A j \in Int : b = Period * j => j = i
    <3>1. ASSUME NEW j \in Int, Period * i = Period * j PROVE j = i
      <4>1. /\ i <= j <=> Period * i <= Period * j
            /\ j <= i <=> Period * j <= Period * i
            /\ Period * i \in Int /\ Period * j \in Int
        BY MultiplesOrdered
      <4>. QED BY <3>1, <4>1
    <3>. QED BY <2>1, <3>1
  <2>. QED BY <2>1, <2>3, <2>4, <2>5
<1>8. \A b \in M : b \in Boundaries /\ b <= now
  BY DEF Missed
<1>9. CASE now - newest <= Window
  <2>1. Replayed(M) = {newest}
    BY <1>5, <1>6, <1>9
  <2>2. count = hi - lo
    <3>1. Cardinality(Replayed(M)) = 1
      BY <2>1, FS_Singleton
    <3>2. Cardinality(M) = hi - lo + 1
      BY <1>1
    <3>. QED BY <3>1, <3>2
  <2>3. ASSUME NEW b \in Boundaries
        PROVE  (\E i \in lo..(lo + count - 1) : b = Period * i) <=> b \in M \ Replayed(M)
    <3>1. b \in M <=> \E i \in lo..hi : b = Period * i
      BY <1>1
    <3>2. ASSUME NEW i \in Int PROVE Period * i = newest <=> i = hi
      <4>1. /\ i <= hi <=> Period * i <= Period * hi
            /\ hi <= i <=> Period * hi <= Period * i
            /\ Period * i \in Int /\ Period * hi \in Int
        BY MultiplesOrdered
      <4>. QED BY <4>1
    <3>. QED BY <2>1, <2>2, <3>1, <3>2
  <2>4. ASSUME NEW b \in M \ Replayed(M) PROVE Stale(b)
    <3>1. PICK i \in lo..hi : b = Period * i
      BY <1>1
    <3>2. i # hi
      BY <2>1, <3>1
    <3>3. i + 1 <= hi /\ i \in Int
      BY <3>2
    <3>4. Period * (i + 1) <= newest /\ Period * (i + 1) = b + Period
      BY <3>1, <3>3, MultiplesOrdered
    <3>5. newest <= now
      BY <1>3, <1>8
    <3>. QED BY <1>2, <1>3, <3>1, <3>3, <3>4, <3>5, MultiplesOrdered DEF Stale
  <2>5. count \in Nat /\ count <= hi - lo + 1
    BY <1>1, <2>2
  <2>6. \A b \in Boundaries : (Oldest(M) <= b /\ b < Oldest(M) + Period * count)
                                 <=> b \in M \ Replayed(M)
    BY <1>7, <2>3, <2>5
  <2>. QED BY <1>4, <2>4, <2>5, <2>6
<1>10. CASE now - newest > Window
  <2>1. Replayed(M) = {}
    BY <1>2, <1>3, <1>5, <1>10
  <2>2. count = hi - lo + 1
    BY <1>1, <2>1, FS_EmptySet
  <2>3. ASSUME NEW b \in Boundaries
        PROVE  (\E i \in lo..(lo + count - 1) : b = Period * i) <=> b \in M \ Replayed(M)
    <3>1. lo + count - 1 = hi
      BY <2>2
    <3>. QED BY <1>1, <2>1, <3>1
  <2>4. \A b \in M \ Replayed(M) : Stale(b)
    BY <1>2, <1>3, <1>10 DEF Stale
  <2>5. count \in Nat /\ count <= hi - lo + 1
    BY <1>1, <2>2
  <2>6. \A b \in Boundaries : (Oldest(M) <= b /\ b < Oldest(M) + Period * count)
                                 <=> b \in M \ Replayed(M)
    BY <1>7, <2>3, <2>5
  <2>. QED BY <1>4, <2>4, <2>5, <2>6
<1>. QED BY <1>2, <1>3, <1>9, <1>10

----------------------------------------------------------------------------
(* What was skipped stays skipped *)

\* The triggers, the catch-ups and the runs of boundaries belong to the past, and the
\* run of a boundary that ended is not missed.
Clocked ==
    /\ lastRun <= now
    /\ \A b \in triggers \cup replay : b <= now
    /\ \A b \in due : b <= now
    /\ \A b \in Boundaries : run[b] = "running" => b <= now
    /\ \A b \in Boundaries : run[b] \in Ended => b <= lastRun

\* The run at s is a summary that stands for b.
StandsFor(s, b) == run[s] = "skipped" /\ s <= b /\ b < s + Period * skipCount[s]

\* No trigger, no catch-up and no restart can still start the boundary.
OutOfReach(b) ==
    /\ run[b] \in {"none", "skipped"}
    /\ b \notin triggers \cup replay
    /\ b <= now
    /\ Stale(b)

SkippedForGood ==
    \A s, b \in Boundaries : StandsFor(s, b) => b \in early \/ OutOfReach(b)

SkipInv == Clocked /\ SkippedForGood

LEMMA StaysStale ==
  ASSUME NEW b \in Int, NEW t \in Int, NEW later \in Int, t <= later,
         t - b > Window \/ b + Period <= t
  PROVE  later - b > Window \/ b + Period <= later
<1>1. Period \in Int /\ Window \in Int
  BY ClockAssumption
<1>. QED BY <1>1

\* A step that makes no summary and no new trigger of a past boundary, and starts
\* only what a trigger or a user asks for, keeps the summaries true.
LEMMA SameSummariesKeep ==
  ASSUME IInv, SkippedForGood, TypeOK',
         now <= now', skipCount' = skipCount,
         early \subseteq early', replay' \subseteq replay,
         \A b \in triggers' : b \in triggers \/ now < b,
         \A b \in Boundaries : run'[b] = "skipped" => run[b] = "skipped",
         \A b \in Boundaries : OutOfReach(b) => run'[b] \in {"none", "skipped"}
  PROVE  SkippedForGood'
<1> SUFFICES ASSUME NEW s \in Boundaries, NEW b \in Boundaries, StandsFor(s, b)',
                    b \notin early
             PROVE  OutOfReach(b)'
  BY DEF SkippedForGood
<1>1. StandsFor(s, b)
  BY DEF StandsFor
<1>2. OutOfReach(b)
  BY <1>1 DEF SkippedForGood
<1>3. b \in Int /\ now \in Int /\ now' \in Int /\ Period \in Int /\ Window \in Int
  BY ClockAssumption DEF Boundaries, IInv, TypeOK
<1>4. now - b > Window \/ b + Period <= now
  BY <1>2 DEF OutOfReach, Stale
<1>5. now' - b > Window \/ b + Period <= now'
  BY <1>3, <1>4, StaysStale
<1>6. Stale(b)'
  BY <1>5 DEF Stale
<1>. QED BY <1>2, <1>3, <1>6 DEF OutOfReach

LEMMA TickSkips ==
  ASSUME IInv, SkipInv, Tick, TypeOK'
  PROVE  SkipInv'
<1>1. /\ now \in Nat /\ now' = now + 1
      /\ UNCHANGED <<replay, run, lastRun, skipCount>>
      /\ early \subseteq early'
      /\ \A b \in triggers' : b \in triggers \/ b = now + 1
      /\ \A b \in due' : b \in due \/ b = now + 1
  <2>1. now \in Nat /\ now' = now + 1
    BY DEF Tick, IInv, TypeOK
  <2>2. UNCHANGED <<replay, run, lastRun, skipCount>>
    BY DEF Tick, taskVars
  <2>3. PICK sent \in SUBSET ({now + 1} \cap Boundaries) :
           /\ triggers' = triggers \cup sent
           /\ early' = IF stage = "starting" THEN early \cup sent ELSE early
    BY DEF Tick
  <2>4. early \subseteq early' /\ \A b \in triggers' : b \in triggers \/ b = now + 1
    BY <2>3
  <2>5. \A b \in due' : b \in due \/ b = now + 1
    BY DEF Tick
  <2>. QED BY <2>1, <2>2, <2>4, <2>5
<1>2. /\ lastRun \in Int
      /\ \A b \in Boundaries : b \in Int
      /\ triggers \subseteq Boundaries /\ due \subseteq Boundaries /\ replay \subseteq Boundaries
  BY DEF IInv, TypeOK, Boundaries
<1>3. Clocked'
  BY <1>1, <1>2 DEF SkipInv, Clocked
<1>4. \A b \in Boundaries : OutOfReach(b) => run'[b] \in {"none", "skipped"}
  BY <1>1 DEF OutOfReach
<1>5. SkippedForGood'
  BY <1>1, <1>4, SameSummariesKeep DEF SkipInv
<1>. QED BY <1>3, <1>5 DEF SkipInv

LEMMA ClaimSkips ==
  ASSUME IInv, SkipInv, NEW k \in Keys, Claim(k), k \in Boundaries => k \in triggers \cup replay,
         TypeOK', replay' \subseteq replay,
         UNCHANGED <<now, triggers, lastRun, skipCount, early, due>>
  PROVE  SkipInv'
<1>1. /\ run[k] = "none" /\ run'[k] = "running"
      /\ \A x \in Keys : x # k => run'[x] = run[x]
  BY DEF Claim, IInv, TypeOK
<1>2. Boundaries \subseteq Keys
  BY DEF Keys
<1>3. Clocked'
  BY <1>1, <1>2 DEF SkipInv, Clocked, Ended
<1>4. now <= now'
  BY DEF IInv, TypeOK
<1>5. \A b \in Boundaries : OutOfReach(b) => run'[b] \in {"none", "skipped"}
  BY <1>1, <1>2 DEF OutOfReach
<1>6. \A b \in Boundaries : run'[b] = "skipped" => run[b] = "skipped"
  BY <1>1, <1>2
<1>7. SkippedForGood'
  BY <1>4, <1>5, <1>6, SameSummariesKeep DEF SkipInv
<1>. QED BY <1>3, <1>7 DEF SkipInv

LEMMA FinishRunSkips ==
  ASSUME IInv, SkipInv, FinishRun, TypeOK'
  PROVE  SkipInv'
<1> DEFINE k == Head(lock)
<1>1. PICK status \in Ended : run' = [run EXCEPT ![k] = status]
  BY DEF FinishRun
<1>2. /\ lock # << >> /\ lastRun' = now
      /\ UNCHANGED <<now, triggers, replay, skipCount, early, due>>
  BY DEF FinishRun
<1>3. k \in ToSet(lock) /\ k \in Keys
  BY <1>2, TailLock DEF IInv, TypeOK, Locked
<1> HIDE DEF k
<1>4. /\ run'[k] = status /\ run[k] \in {"running"} \cup Ended
      /\ \A x \in Keys : x # k => run'[x] = run[x]
  BY <1>1, <1>3 DEF IInv, TypeOK, Locked, RunStatus
<1>5. Boundaries \subseteq Keys
  BY DEF Keys
<1>6. now \in Int /\ lastRun \in Int /\ \A b \in Boundaries : b \in Int
  BY DEF IInv, TypeOK, Boundaries
<1>7. Clocked'
  <2>1. \A b \in Boundaries : run'[b] = "running" => b <= now
    BY <1>4, <1>5 DEF SkipInv, Clocked, Ended
  <2>2. ASSUME NEW b \in Boundaries, run'[b] \in Ended PROVE b <= now
    <3>1. run[b] \in {"running"} \cup Ended
      BY <1>4, <1>5, <2>2
    <3>2. CASE run[b] = "running"
      BY <3>2 DEF SkipInv, Clocked
    <3>3. CASE run[b] \in Ended
      <4>1. b <= lastRun /\ lastRun <= now
        BY <3>3 DEF SkipInv, Clocked
      <4>. QED BY <1>6, <4>1
    <3>. QED BY <3>1, <3>2, <3>3
  <2>. QED BY <1>2, <1>6, <2>1, <2>2 DEF SkipInv, Clocked
<1>8. \A b \in Boundaries : OutOfReach(b) => run'[b] \in {"none", "skipped"}
  BY <1>4, <1>5 DEF OutOfReach, Ended
<1>9. \A b \in Boundaries : run'[b] = "skipped" => run[b] = "skipped"
  BY <1>4, <1>5 DEF Ended
<1>10. now <= now'
  BY <1>2, <1>6
<1>11. SkippedForGood'
  BY <1>2, <1>8, <1>9, <1>10, SameSummariesKeep DEF SkipInv
<1>. QED BY <1>7, <1>11 DEF SkipInv

\* A step that begins no run and passes no boundary: the switch of the task, the end
\* and the launch of the application, a catch-up that is refused.
LEMMA SameRunsSkip ==
  ASSUME IInv, SkipInv, TypeOK',
         UNCHANGED <<now, run, lastRun, skipCount, early, due>>,
         triggers' \subseteq triggers, replay' \subseteq replay
  PROVE  SkipInv'
<1>1. now <= now'
  BY DEF IInv, TypeOK
<1>2. Clocked'
  BY DEF SkipInv, Clocked
<1>3. \A b \in Boundaries : OutOfReach(b) => run'[b] \in {"none", "skipped"}
  BY DEF OutOfReach
<1>4. SkippedForGood'
  BY <1>1, <1>3, SameSummariesKeep DEF SkipInv
<1>. QED BY <1>2, <1>4 DEF SkipInv

LEMMA ToggleCloseOrLaunchSkips ==
  ASSUME IInv, SkipInv, Toggle \/ Close \/ Launch, TypeOK'
  PROVE  SkipInv'
<1>1. /\ UNCHANGED <<now, run, lastRun, skipCount, early, due>>
      /\ triggers' \subseteq triggers /\ replay' \subseteq replay
  BY DEF Toggle, Close, Launch, taskVars
<1>. QED BY <1>1, SameRunsSkip

LEMMA CatchUpSkips ==
  ASSUME IInv, SkipInv, NEW b \in Boundaries, CatchUp(b), TypeOK'
  PROVE  SkipInv'
<1>1. /\ b \in replay /\ b \in Keys /\ replay' \subseteq replay
      /\ UNCHANGED <<now, triggers, lastRun, skipCount, early, due>>
  BY DEF CatchUp, Keys
<1>2. CASE Claim(b)
  BY <1>1, <1>2, ClaimSkips
<1>3. CASE UNCHANGED <<run, runningAt, lock, attempts>>
  BY <1>1, <1>3, SameRunsSkip
<1>. QED BY <1>2, <1>3 DEF CatchUp

\* What a recovery finds missed, and how many of it a summary stands for.
MissedAtStart == IF enabled THEN Missed(RecoveredLastRun, now) ELSE {}

CountAtStart == Cardinality(MissedAtStart) - Cardinality(Replayed(MissedAtStart))

Summarizes == CountAtStart > 0 /\ Recovered[Oldest(MissedAtStart)] = "none"

\* A recovery summarizes the missed boundaries at the oldest, plans the replayed one
\* and marks the runs that say "running".
LEMMA RecoverEffect ==
  ASSUME IInv, Recover
  PROVE  /\ \A k \in Keys : run'[k] = IF Summarizes /\ k = Oldest(MissedAtStart) THEN "skipped"
                                      ELSE Recovered[k]
         /\ \A s \in Boundaries :
              skipCount'[s] = IF Summarizes /\ s = Oldest(MissedAtStart) THEN CountAtStart
                              ELSE skipCount[s]
         /\ replay' = Replayed(MissedAtStart)
         /\ lastRun' = RecoveredLastRun
         /\ triggers \subseteq early
         /\ UNCHANGED <<now, triggers, early, due>>
<1> DEFINE o == Oldest(MissedAtStart)
<1>1. /\ run' = Summarized(Recovered, MissedAtStart, CountAtStart)
      /\ skipCount' = SummaryCount(Recovered, MissedAtStart, CountAtStart)
      /\ replay' = Replayed(MissedAtStart)
      /\ lastRun' = RecoveredLastRun
      /\ UNCHANGED <<now, triggers, early, due>>
  BY DEF Recover, MissedAtStart, CountAtStart
<1>2. triggers \subseteq early
  BY DEF Recover, IInv, Staged
<1>3. Recovered \in [Keys -> RunStatus] /\ skipCount \in [Boundaries -> Nat]
  BY RecoveredRuns DEF IInv, TypeOK
<1>4. CASE Summarizes
  <2>1. /\ run' = [Recovered EXCEPT ![o] = "skipped"]
        /\ skipCount' = [skipCount EXCEPT ![o] = CountAtStart]
    BY <1>1, <1>4 DEF Summarized, SummaryCount, Summarizes
  <2> HIDE DEF o
  <2>2. /\ \A k \in Keys : run'[k] = IF k = o THEN "skipped" ELSE Recovered[k]
        /\ \A s \in Boundaries : skipCount'[s] = IF s = o THEN CountAtStart ELSE skipCount[s]
    BY <1>3, <2>1
  <2>. QED BY <1>1, <1>2, <1>4, <2>2 DEF o
<1>5. CASE ~ Summarizes
  <2>1. run' = Recovered /\ skipCount' = skipCount
    BY <1>1, <1>5 DEF Summarized, SummaryCount, Summarizes
  <2>. QED BY <1>1, <1>2, <1>5, <2>1
<1>. QED BY <1>4, <1>5

\* The run of a missed boundary did not end, nor was it interrupted.
LEMMA MissedWithoutRun ==
  ASSUME IInv, Clocked, NEW b \in MissedAtStart
  PROVE  /\ b \in Boundaries /\ b \in Keys /\ b \in Int
         /\ RecoveredLastRun < b /\ b <= now
         /\ Recovered[b] = run[b] /\ run[b] \in {"none", "skipped"}
<1>1. b \in Boundaries /\ b \in Keys /\ b \in Int /\ RecoveredLastRun < b /\ b <= now
  BY DEF MissedAtStart, Missed, Boundaries, Keys
<1>2. lastRun \in Int /\ now \in Int /\ run[b] \in RunStatus
  BY <1>1 DEF IInv, TypeOK
<1>3. Running = {} /\ RecoveredLastRun = lastRun
  BY <1>1, <1>2 DEF RecoveredLastRun
<1>4. run[b] # "running"
  BY <1>1, <1>3 DEF Running
<1>5. run[b] \notin Ended
  BY <1>1, <1>2, <1>3 DEF Clocked
<1>. QED BY <1>1, <1>2, <1>4, <1>5 DEF Recovered, RunStatus

\* The summary of a restart, if it makes one, stands for the missed boundaries it does
\* not replay.
LEMMA SummaryAtStart ==
  ASSUME IInv, MissedAtStart # {}
  PROVE  /\ Oldest(MissedAtStart) \in MissedAtStart
         /\ CountAtStart \in Nat
         /\ \A b \in Boundaries :
              (Oldest(MissedAtStart) <= b /\ b < Oldest(MissedAtStart) + Period * CountAtStart)
                 <=> b \in MissedAtStart \ Replayed(MissedAtStart)
         /\ \A b \in MissedAtStart \ Replayed(MissedAtStart) : Stale(b)
<1>1. RecoveredLastRun \in Nat /\ now \in 0..MaxTime
  BY DEF IInv, TypeOK, RecoveredLastRun
<1>2. MissedAtStart = Missed(RecoveredLastRun, now)
  BY DEF MissedAtStart
<1>. QED BY <1>1, <1>2, Summary DEF CountAtStart

\* What is stale is not replayed.
LEMMA StaleNotReplayed ==
  ASSUME IInv, NEW b \in Replayed(MissedAtStart)
  PROVE  ~ Stale(b)
<1>1. /\ b \in MissedAtStart /\ now - b <= Window
      /\ \A a \in MissedAtStart : a <= b
  BY DEF Replayed
<1>2. /\ b \in Boundaries /\ b \in Int /\ RecoveredLastRun < b /\ b <= now
      /\ \A a \in Boundaries : RecoveredLastRun < a /\ a <= now => a \in MissedAtStart
  BY <1>1 DEF MissedAtStart, Missed, Boundaries
<1>3. Period \in Nat /\ Period > 0 /\ Window \in Nat /\ now \in Nat /\ now <= MaxTime
      /\ MaxTime \in Nat /\ RecoveredLastRun \in Nat
  BY ClockAssumption DEF IInv, TypeOK, RecoveredLastRun
<1>4. ASSUME b + Period <= now PROVE FALSE
  <2>1. PICK i \in Nat \ {0} : b = Period * i
    BY <1>2, BoundaryIsMultiple
  <2> DEFINE next == i + 1
  <2>2. Period * next = b + Period /\ next \in Nat \ {0}
    BY <2>1, MultiplesOrdered
  <2> HIDE DEF next
  <2>3. b + Period \in Boundaries
    <3>1. Period * next <= MaxTime
      BY <1>2, <1>3, <1>4, <2>2
    <3>. QED BY <2>2, <3>1, MultipleIsBoundary
  <2>4. b + Period \in MissedAtStart
    BY <1>2, <1>3, <1>4, <2>3
  <2>. QED BY <1>1, <1>2, <1>3, <2>4
<1>. QED BY <1>1, <1>2, <1>3, <1>4 DEF Stale

LEMMA RecoverSkips ==
  ASSUME IInv, SkipInv, Recover
  PROVE  SkipInv'
<1>1. /\ lastRun' = RecoveredLastRun /\ replay' = Replayed(MissedAtStart)
      /\ UNCHANGED <<now, triggers, early, due>>
      /\ triggers \subseteq early
  BY RecoverEffect
<1>2. /\ now \in Int /\ lastRun \in Int /\ lastRun <= now
      /\ \A b \in Boundaries : b \in Int /\ b \in Keys /\ run[b] \in RunStatus
  BY DEF IInv, TypeOK, SkipInv, Clocked, Boundaries, Keys
<1>3. RecoveredLastRun \in Int /\ lastRun <= RecoveredLastRun /\ RecoveredLastRun <= now
  BY <1>2 DEF RecoveredLastRun
<1>4. /\ Replayed(MissedAtStart) \subseteq MissedAtStart
      /\ \A b \in MissedAtStart :
            /\ b \in Boundaries /\ b <= now
            /\ Recovered[b] = run[b] /\ run[b] \in {"none", "skipped"}
  BY MissedWithoutRun DEF Replayed, SkipInv
<1>5. Clocked'
  <2>1. \A b \in Boundaries : run'[b] # "running"
    BY <1>2, RecoverEffect, RecoveredRuns
  <2>2. ASSUME NEW b \in Boundaries, run'[b] \in Ended PROVE b <= RecoveredLastRun
    <3>1. run'[b] = Recovered[b]
      BY <1>2, <2>2, RecoverEffect DEF Ended
    <3>2. run[b] \in Ended \/ run[b] = "running"
      BY <1>2, <2>2, <3>1 DEF Recovered
    <3>3. CASE run[b] \in Ended
      <4>1. b <= lastRun
        BY <3>3 DEF SkipInv, Clocked
      <4>. QED BY <1>2, <1>3, <4>1
    <3>4. CASE run[b] = "running"
      <4>1. b <= now
        BY <3>4 DEF SkipInv, Clocked
      <4>2. b \in Running
        BY <1>2, <3>4 DEF Running
      <4>. QED BY <4>1, <4>2 DEF RecoveredLastRun
    <3>. QED BY <3>2, <3>3, <3>4
  <2>3. \A b \in triggers' \cup replay' : b <= now
    BY <1>1, <1>4 DEF SkipInv, Clocked
  <2>. QED BY <1>1, <1>3, <2>1, <2>2, <2>3 DEF SkipInv, Clocked
<1>6. SkippedForGood'
  <2> SUFFICES ASSUME NEW s \in Boundaries, NEW b \in Boundaries, StandsFor(s, b)',
                      b \notin early
               PROVE  OutOfReach(b)'
    BY <1>1 DEF SkippedForGood
  <2>1. run'[s] = "skipped" /\ s <= b /\ b < s + Period * skipCount'[s]
    BY DEF StandsFor
  <2>2. Stale(b) <=> Stale(b)'
    BY <1>1 DEF Stale
  <2>3. b \notin triggers'
    BY <1>1
  <2>4. CASE Summarizes /\ s = Oldest(MissedAtStart)
    <3>1. MissedAtStart # {}
      <4> SUFFICES ASSUME MissedAtStart = {} PROVE FALSE
        OBVIOUS
      <4>1. Replayed(MissedAtStart) = {}
        BY <1>4
      <4>2. CountAtStart = 0
        BY <4>1, FS_EmptySet DEF CountAtStart
      <4>. QED BY <2>4, <4>2 DEF Summarizes
    <3>2. skipCount'[s] = CountAtStart
      BY <2>4, RecoverEffect
    <3>3. b \in MissedAtStart \ Replayed(MissedAtStart) /\ Stale(b)
      BY <2>1, <2>4, <3>1, <3>2, SummaryAtStart
    <3>4. run'[b] \in {"none", "skipped"}
      BY <1>2, <1>4, <3>3, RecoverEffect
    <3>. QED BY <1>1, <1>4, <2>2, <2>3, <3>3, <3>4 DEF OutOfReach
  <2>5. CASE ~ (Summarizes /\ s = Oldest(MissedAtStart))
    <3>1. skipCount'[s] = skipCount[s]
      BY <2>5, RecoverEffect
    <3>2. run[s] = "skipped"
      BY <1>2, <2>1, <2>5, RecoverEffect DEF Recovered
    <3>3. OutOfReach(b)
      BY <2>1, <3>1, <3>2 DEF StandsFor, SkipInv, SkippedForGood
    <3>4. b \notin Replayed(MissedAtStart)
      BY <3>3, StaleNotReplayed DEF OutOfReach
    <3>5. Recovered[b] = run[b]
      BY <1>2, <3>3 DEF OutOfReach, Recovered
    <3>6. run'[b] \in {"none", "skipped"}
      BY <1>2, <3>3, <3>5, RecoverEffect DEF OutOfReach
    <3>. QED BY <1>1, <2>2, <2>3, <3>3, <3>4, <3>6 DEF OutOfReach
  <2>. QED BY <2>4, <2>5
<1>. QED BY <1>5, <1>6 DEF SkipInv

LEMMA SkipInvInit == Init => SkipInv
<1> SUFFICES ASSUME Init PROVE SkipInv
  OBVIOUS
<1>1. Boundaries \subseteq Keys
  BY DEF Keys
<1>2. Clocked
  BY <1>1 DEF Init, Clocked, Ended
<1>3. SkippedForGood
  BY <1>1 DEF Init, SkippedForGood, StandsFor
<1>. QED BY <1>2, <1>3 DEF SkipInv

LEMMA SkipInvNext ==
  ASSUME IInv, SkipInv, TypeOK', [Next]_vars
  PROVE  SkipInv'
<1>1. CASE Tick \/ FinishRun \/ Toggle \/ Close \/ Launch \/ Recover
  BY <1>1, TickSkips, FinishRunSkips, ToggleCloseOrLaunchSkips, RecoverSkips
<1>2. CASE \E b \in Boundaries : HandleTrigger(b)
  <2>1. PICK b \in Boundaries : HandleTrigger(b)
    BY <1>2
  <2>. QED BY <2>1, ClaimSkips DEF HandleTrigger, Keys
<1>3. CASE \E b \in Boundaries : CatchUp(b)
  BY <1>3, CatchUpSkips
<1>4. CASE \E m \in Manual : RunNow(m)
  <2>1. PICK m \in Manual : RunNow(m)
    BY <1>4
  <2>2. m \notin Boundaries
    BY KeyAssumption
  <2>. QED BY <2>1, <2>2, ClaimSkips DEF RunNow, Keys
<1>5. CASE UNCHANGED vars
  BY <1>5, SameRunsSkip DEF vars
<1>. QED BY <1>1, <1>2, <1>3, <1>4, <1>5 DEF Next

LEMMA SkipInvariance == Spec => [](IInv /\ SkipInv)
<1>1. Init => IInv /\ SkipInv
  BY InitKeeps, SkipInvInit
<1>2. IInv /\ SkipInv /\ [Next]_vars => (IInv /\ SkipInv)'
  BY NextKeeps, SkipInvNext DEF IInv
<1>. QED BY <1>1, <1>2, PTL DEF Spec

\* A boundary reported as skipped was not executed, and no trigger sent after the
\* report, no restart and no catch-up executes it, for any schedule and replay window;
\* what a trigger sent before the recovery still may run is excepted.
THEOREM SkippedStayUnrun == Spec => []SkippedAreNotRun
<1>1. ASSUME IInv, SkipInv PROVE SkippedAreNotRun
  <2> SUFFICES ASSUME NEW b \in Covered, b \notin early
               PROVE  run[b] \in {"none", "skipped"} /\ attempts[b] = 0
    BY DEF SkippedAreNotRun
  <2>1. PICK s \in Boundaries : StandsFor(s, b)
    BY DEF Covered, StandsFor
  <2>2. b \in Boundaries /\ b \in Keys
    BY DEF Covered, Keys
  <2>3. run[b] \in {"none", "skipped"}
    BY <1>1, <2>1, <2>2 DEF SkipInv, SkippedForGood, OutOfReach
  <2>. QED BY <1>1, <2>2, <2>3 DEF IInv, Executed
<1>. QED BY <1>1, SkipInvariance, PTL

\* A recovery that finds no run to interrupt, of an earlier process or of a trigger that
\* came first, reports every boundary since the last run as a run or as part of a
\* summary or plans its catch-up, unless an earlier report took the place.
THEOREM GapIsReported == Spec => GapReported
<1> DEFINE missed == {b \in due : lastRun < b}
<1> DEFINE Reported ==
      (/\ stage = "starting" /\ stage' = "open" /\ enabled
       /\ Running = {}
       /\ missed # {} => run[Oldest(Missed(lastRun, now))] = "none")
         => \A b \in missed : Accounted(b)' \/ b \in replay'
<1>1. ASSUME IInv, SkipInv, Next PROVE Reported
  <2> SUFFICES ASSUME stage = "starting", stage' = "open", enabled, Running = {},
                      missed # {} => run[Oldest(Missed(lastRun, now))] = "none",
                      NEW b \in missed, b \notin replay'
               PROVE  Accounted(b)'
    OBVIOUS
  <2>1. Recover
    BY <1>1 DEF Next, Tick, FinishRun, Toggle, Close, Launch, HandleTrigger, CatchUp, RunNow
  <2>2. MissedAtStart = Missed(lastRun, now) /\ RecoveredLastRun = lastRun
    BY DEF MissedAtStart, RecoveredLastRun
  <2>3. b \in MissedAtStart
    BY <1>1, <2>2 DEF IInv, TypeOK, SkipInv, Clocked, Missed
  <2>4. b \in Boundaries /\ b \in Keys
    BY <2>3, <1>1, MissedWithoutRun DEF SkipInv
  <2>5. b \notin Replayed(MissedAtStart)
    BY <1>1, <2>1, RecoverEffect
  <2> DEFINE o == Oldest(MissedAtStart)
  <2>6. o \in MissedAtStart /\ CountAtStart \in Nat
        /\ o <= b /\ b < o + Period * CountAtStart
    BY <1>1, <2>3, <2>4, <2>5, SummaryAtStart
  <2>7. o \in Boundaries /\ o \in Keys /\ Recovered[o] = run[o] /\ o \in Int /\ b \in Int
    BY <1>1, <2>3, <2>6, MissedWithoutRun DEF SkipInv
  <2>8. run[o] = "none"
    BY <2>2
  <2> HIDE DEF o
  <2>9. CountAtStart > 0
    <3>1. CASE CountAtStart = 0
      <4>1. Period * CountAtStart = 0
        BY <3>1, ClockAssumption
      <4>. QED BY <2>6, <2>7, <4>1
    <3>. QED BY <2>6, <3>1
  <2>10. Summarizes
    BY <2>7, <2>8, <2>9 DEF Summarizes, o
  <2>11. run'[o] = "skipped" /\ skipCount'[o] = CountAtStart
    BY <1>1, <2>1, <2>7, <2>10, RecoverEffect DEF o
  <2>12. b \in Covered'
    BY <2>4, <2>6, <2>7, <2>11 DEF Covered
  <2>. QED BY <2>12 DEF Accounted
<1>2. ASSUME UNCHANGED vars PROVE Reported
  BY <1>2 DEF vars
<1>3. IInv /\ SkipInv /\ [Next]_vars => Reported
  BY <1>1, <1>2
<1>. QED BY <1>3, SkipInvariance, PTL DEF Spec, GapReported

=============================================================================
