---------------------------- MODULE ScheduledRuns ----------------------------
(***************************************************************************)
(* The runs of one scheduled task (src/scheduledTask).                     *)
(*                                                                         *)
(* SQLite holds the task and its runs; the sidecar is a disposable clock   *)
(* that sends a trigger at the boundaries of the schedule while the        *)
(* application runs.  A trigger, a manual start and the catch-up of a      *)
(* restart all claim a run under a unique key and execute it through Pi,   *)
(* one run of the task at a time.                                          *)
(*                                                                         *)
(* A restart has three steps, with others between them.  The launch starts *)
(* the sidecar, whose triggers are handled from then on.  The recovery     *)
(* comes after a backup that is awaited: it marks every run that says      *)
(* "running" as interrupted, the runs begun since the launch included,     *)
(* summarizes the missed boundaries in one "skipped" run and plans the     *)
(* newest of them when it is recent.  The catch-up claims the planned one, *)
(* after those of other tasks.                                             *)
(*                                                                         *)
(* The schedule is a cron expression, abstracted to the multiples of       *)
(* Period; time is a counter.  The sidecar is external: its triggers may   *)
(* come late, more than once, or not at all.                               *)
(*                                                                         *)
(* A definition marked Mutant is the one after it with a fault, which      *)
(* nothing uses.                                                           *)
(***************************************************************************)
EXTENDS Integers, Sequences, SequencesExt, FiniteSets

CONSTANTS
    Period,      \* distance of two boundaries of the schedule
    Window,      \* age up to which a missed boundary is replayed
    MaxTime,     \* bound: last instant
    Manual,      \* bound: manual starts
    MaxToggles,  \* bound: times the user enables or disables the task
    MaxCrashes   \* bound: times the application ends

ASSUME ClockAssumption ==
    /\ Period \in Nat \ {0}
    /\ Window \in Nat
    /\ MaxTime \in Nat

VARIABLES
    now,        \* the time
    stage,      \* "closed", "starting" before the recovery, "open" after it
    enabled,    \* the task is enabled
    triggers,   \* boundaries the sidecar has sent a trigger for since the launch
    replay,     \* the boundary the catch-up of this start has yet to claim
    run,        \* status of the run of each key, "none" without a row
    lastRun,    \* lastRunAtMs, or the creation of the task
    runningAt,  \* runningAtMs is set
    lock,       \* claimed runs in the order of the task lock, the first executes
    skipCount,  \* boundaries the skipped run at a boundary stands for
    gap,        \* history: boundaries passed while closed, until the recovery
    early,      \* history: boundaries triggered between a launch and its recovery
    due,        \* history: boundaries that passed while the task was enabled
    attempts,   \* history: executions begun for each key
    toggles, crashes

taskVars == <<run, lastRun, runningAt, skipCount>>

vars == <<now, stage, enabled, triggers, replay, run, lastRun, runningAt, lock,
          skipCount, gap, early, due, attempts, toggles, crashes>>

----------------------------------------------------------------------------

Boundaries == {t \in 1..MaxTime : t % Period = 0}

\* The key of a manual start names an id of its own beside the instant.
ASSUME KeyAssumption == Manual \cap Boundaries = {}

Keys == Boundaries \cup Manual

Ended == {"success", "error"}

RunStatus == {"none", "running", "skipped"} \cup Ended

Running == {k \in Keys : run[k] = "running"}

Up == stage # "closed"

\* The boundaries since the last run that have passed at the time t.
Missed(since, t) == {b \in Boundaries : since < b /\ b <= t}

Oldest(S) == CHOOSE b \in S : \A a \in S : b <= a

----------------------------------------------------------------------------

Init ==
    /\ now = 0
    /\ stage = "open"
    /\ enabled = TRUE
    /\ triggers = {}
    /\ replay = {}
    /\ run = [k \in Keys |-> "none"]
    /\ lastRun = 0
    /\ runningAt = FALSE
    /\ lock = << >>
    /\ skipCount = [b \in Boundaries |-> 0]
    /\ gap = {}
    /\ early = {}
    /\ due = {}
    /\ attempts = [k \in Keys |-> 0]
    /\ toggles = 0
    /\ crashes = 0

----------------------------------------------------------------------------

\* Time passes.  At a boundary the sidecar sends the trigger of a registered task,
\* unless it is down; the first registration is part of the launch.
Tick ==
    /\ now < MaxTime
    /\ now' = now + 1
    /\ \E sent \in SUBSET ({now + 1} \cap Boundaries) :
          /\ sent # {} => Up /\ enabled
          /\ triggers' = triggers \cup sent
          /\ early' = IF stage = "starting" THEN early \cup sent ELSE early
    /\ due' = IF enabled THEN due \cup ({now + 1} \cap Boundaries) ELSE due
    /\ gap' = IF enabled /\ ~ Up THEN gap \cup ({now + 1} \cap Boundaries) ELSE gap
    /\ UNCHANGED <<stage, enabled, replay, taskVars, lock, attempts, toggles, crashes>>

\* Mutant: the key of a run is not unique.
ClaimAgain(k) ==
    /\ enabled
    /\ run' = [run EXCEPT ![k] = "running"]
    /\ runningAt' = TRUE
    /\ lock' = Append(lock, k)
    /\ attempts' = [attempts EXCEPT ![k] = @ + 1]

\* claimTrigger: a disabled task or a key with a run is refused.  The executor
\* queues the run behind the others of the task.
Claim(k) ==
    /\ enabled
    /\ run[k] = "none"
    /\ run' = [run EXCEPT ![k] = "running"]
    /\ runningAt' = TRUE
    /\ lock' = Append(lock, k)
    /\ attempts' = [attempts EXCEPT ![k] = @ + 1]

\* Mutant: a late trigger is dropped.
HandleTriggerOnTime(b) ==
    /\ Up
    /\ b \in triggers
    /\ b = now
    /\ Claim(b)
    /\ UNCHANGED <<now, stage, enabled, triggers, replay, lastRun, skipCount, gap, early,
                   due, toggles, crashes>>

\* handleTrigger: the trigger of a boundary arrives, perhaps late or again, also
\* before the recovery.
HandleTrigger(b) ==
    /\ Up
    /\ b \in triggers
    /\ Claim(b)
    /\ UNCHANGED <<now, stage, enabled, triggers, replay, lastRun, skipCount, gap, early,
                   due, toggles, crashes>>

\* runNow: a manual start has a key of its own.  The window that offers it opens
\* after the recovery.
RunNow(m) ==
    /\ stage = "open"
    /\ Claim(m)
    /\ UNCHANGED <<now, stage, enabled, triggers, replay, lastRun, skipCount, gap, early,
                   due, toggles, crashes>>

\* Mutant: the end of a run forgets the runs behind it.
FinishRunDroppingLock ==
    /\ Up
    /\ lock # << >>
    /\ \E status \in Ended : run' = [run EXCEPT ![Head(lock)] = status]
    /\ lastRun' = now
    /\ runningAt' = FALSE
    /\ lock' = << >>
    /\ UNCHANGED <<now, stage, enabled, triggers, replay, skipCount, gap, early,
                   due, attempts, toggles, crashes>>

\* executeAndFinish: the execution of the first run ends, by Pi or by its timeout.
\* finishRun writes its row, whatever the row says by then, and clears the running
\* mark of the task; the lock goes on.
FinishRun ==
    /\ Up
    /\ lock # << >>
    /\ \E status \in Ended : run' = [run EXCEPT ![Head(lock)] = status]
    /\ lastRun' = now
    /\ runningAt' = FALSE
    /\ lock' = Tail(lock)
    /\ UNCHANGED <<now, stage, enabled, triggers, replay, skipCount, gap, early,
                   due, attempts, toggles, crashes>>

\* updateJob, toggleJob: the schedule stays, so an enabled task has its old version.
Toggle ==
    /\ stage = "open"
    /\ toggles < MaxToggles
    /\ toggles' = toggles + 1
    /\ enabled' = ~ enabled
    /\ UNCHANGED <<now, stage, triggers, replay, taskVars, lock, gap, early,
                   due, attempts, crashes>>

\* The application is closed or dies, and its sidecar with it.
Close ==
    /\ Up
    /\ crashes < MaxCrashes
    /\ crashes' = crashes + 1
    /\ stage' = "closed"
    /\ triggers' = {}
    /\ replay' = {}
    /\ lock' = << >>
    /\ UNCHANGED <<now, enabled, taskVars, gap, early, due, attempts, toggles>>

----------------------------------------------------------------------------
(* A restart *)

\* initApp up to the start of the sidecar, which registers the tasks.
Launch ==
    /\ ~ Up
    /\ stage' = "starting"
    /\ UNCHANGED <<now, enabled, triggers, replay, taskVars, lock, gap, early, due,
                   attempts, toggles, crashes>>

\* Mutant: the runs of the previous process stay.
NotRecovered == run

\* recoverInterruptedRuns: the rows that say "running" become errors, those of runs
\* begun since the launch too, and the task counts them as its last run, at the
\* time of the recovery.
Recovered == [k \in Keys |-> IF run[k] = "running" THEN "error" ELSE run[k]]

RecoveredLastRun == IF Running = {} THEN lastRun ELSE now

\* planStartupSchedule: the newest missed boundary is replayed when it is recent.
Replayed(missed) ==
    {b \in missed : now - b <= Window /\ \A a \in missed : a <= b}

\* Mutant: the row is made at the newest boundary.
SummarizedAtNewest(rows, missed, count) ==
    IF count > 0 /\ rows[Oldest(missed)] = "none"
    THEN [rows EXCEPT ![CHOOSE b \in missed : \A a \in missed : a <= b] = "skipped"]
    ELSE rows

\* recordSkippedRun: one row at the oldest missed boundary stands for the others;
\* a row that is already there wins.
Summarized(rows, missed, count) ==
    IF count > 0 /\ rows[Oldest(missed)] = "none"
    THEN [rows EXCEPT ![Oldest(missed)] = "skipped"]
    ELSE rows

\* Mutant: the replayed boundary is left out of the count a second time.
SummaryCountShort(rows, missed, count) ==
    IF missed # {} /\ rows[Oldest(missed)] = "none"
    THEN [skipCount EXCEPT ![Oldest(missed)] = count - 1]
    ELSE skipCount

\* Mutant: the replayed boundary is counted as well.
SummaryCountAll(rows, missed, count) ==
    IF count > 0 /\ rows[Oldest(missed)] = "none"
    THEN [skipCount EXCEPT ![Oldest(missed)] = Cardinality(missed)]
    ELSE skipCount

SummaryCount(rows, missed, count) ==
    IF count > 0 /\ rows[Oldest(missed)] = "none"
    THEN [skipCount EXCEPT ![Oldest(missed)] = count]
    ELSE skipCount

\* initApp after the backup: recovery of the interrupted runs, then
\* recoverScheduledTasksOnStartup up to its first catch-up.  Runs that execute go on.
Recover ==
    /\ stage = "starting"
    /\ stage' = "open"
    /\ lastRun' = RecoveredLastRun
    /\ LET missed == IF enabled THEN Missed(RecoveredLastRun, now) ELSE {}
           count == Cardinality(missed) - Cardinality(Replayed(missed))
       IN /\ run' = Summarized(Recovered, missed, count)
          /\ skipCount' = SummaryCount(Recovered, missed, count)
          /\ replay' = Replayed(missed)
    /\ runningAt' = (Running = {} /\ runningAt)
    /\ gap' = {}
    /\ UNCHANGED <<now, enabled, triggers, lock, early, due, attempts, toggles, crashes>>

\* runCatchUp: the planned boundary is claimed when the catch-ups of the other tasks
\* have ended; a claim that is refused by then is dropped.
CatchUp(b) ==
    /\ b \in replay
    /\ replay' = replay \ {b}
    /\ \/ Claim(b)
       \/ /\ ~ (enabled /\ run[b] = "none")
          /\ UNCHANGED <<run, runningAt, lock, attempts>>
    /\ UNCHANGED <<now, stage, enabled, triggers, lastRun, skipCount, gap, early,
                   due, toggles, crashes>>

----------------------------------------------------------------------------

Next ==
    \/ Tick \/ FinishRun \/ Toggle \/ Close \/ Launch \/ Recover
    \/ \E b \in Boundaries : HandleTrigger(b) \/ CatchUp(b)
    \/ \E m \in Manual : RunNow(m)

\* An execution ends, because the executor times out; a start goes on to its
\* recovery and its catch-ups; the sidecar delivers the triggers it sent.
Fairness ==
    /\ WF_vars(FinishRun)
    /\ WF_vars(Recover)
    /\ \A b \in Boundaries : WF_vars(HandleTrigger(b)) /\ WF_vars(CatchUp(b))

Spec == Init /\ [][Next]_vars

FairSpec == Spec /\ Fairness

----------------------------------------------------------------------------
(* Properties *)

TypeOK ==
    /\ now \in 0..MaxTime
    /\ stage \in {"closed", "starting", "open"}
    /\ enabled \in BOOLEAN
    /\ triggers \subseteq Boundaries
    /\ replay \subseteq Boundaries
    /\ run \in [Keys -> RunStatus]
    /\ lastRun \in 0..MaxTime
    /\ runningAt \in BOOLEAN
    /\ lock \in Seq(Keys)
    /\ skipCount \in [Boundaries -> Nat]
    /\ gap \subseteq Boundaries
    /\ early \subseteq Boundaries
    /\ due \subseteq Boundaries
    /\ attempts \in [Keys -> Nat]
    /\ toggles \in Nat
    /\ crashes \in Nat

\* Once a restart has recovered, a run shown as running executes or waits for its
\* turn: no crash, restart or late trigger leaves a row running for ever, or the
\* mark of its task without such a row.  The converse needs that no trigger came
\* before the recovery: a run it began executes on, but is shown as interrupted.
RunningIsLive ==
    /\ stage = "open" => Running \subseteq ToSet(lock)
    /\ Up => ToSet(lock) \ early \subseteq Running
    /\ runningAt => Running # {}

\* Every start of the task, whatever became of it, executes at most once: not
\* again for a second or a late trigger, the catch-up of the same boundary, or a
\* restart after a crash.
ExecutedAtMostOnce == \A k \in Keys : attempts[k] <= 1

\* The boundaries a skipped run stands for.
Covered ==
    {b \in Boundaries : \E s \in Boundaries :
        /\ run[s] = "skipped"
        /\ s <= b
        /\ b < s + Period * skipCount[s]}

\* What is reported as skipped was not executed and is not executed later: the
\* boundary a restart replays is left out of the summary, and so are the runs of
\* earlier starts.  Only a trigger sent before the recovery, and delivered after the
\* summary counted its boundary, can still run it.
SkippedAreNotRun ==
    \A b \in Covered \ early : run[b] \in {"none", "skipped"} /\ attempts[b] = 0

Accounted(b) == run[b] # "none" \/ b \in Covered

\* A recovery that found no run to interrupt accounts for every boundary since the
\* last run, or has planned its catch-up, unless an earlier gap began at the same
\* boundary.  A run that ended between the launch and the recovery is the last run.
GapReported ==
    [][LET missed == {b \in due : lastRun < b} IN
       (/\ stage = "starting" /\ stage' = "open" /\ enabled
        /\ Running = {}
        /\ missed # {} => run[Oldest(Missed(lastRun, now))] = "none")
          => \A b \in missed : Accounted(b)' \/ b \in replay']_vars

\* A boundary of an enabled task that was triggered, or planned by a restart, is
\* claimed in the end when the application stays open.
TriggersRun ==
    \A b \in Boundaries :
        (Up /\ enabled /\ b \in triggers \cup replay)
            ~> (run[b] # "none" \/ ~ Up \/ ~ enabled)

\* A run that executes, waits for its turn or is shown as running ends, however many
\* runs of the task wait before it.
RunsEnd ==
    \A k \in Keys :
        (Up /\ k \in Running \cup ToSet(lock)) ~> (k \notin Running \cup ToSet(lock) \/ ~ Up)

\* A restart cannot hide skipped work: its recovery accounts for every boundary that
\* passed while the application was closed and the task enabled, also when a run was
\* interrupted or a trigger came before the recovery (comment of initApp).
RestartHidesNothing ==
    [][(stage = "starting" /\ stage' = "open" /\ enabled)
         => \A b \in gap : Accounted(b)' \/ b \in replay']_vars

=============================================================================
