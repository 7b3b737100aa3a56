--------------------------- MODULE AutomationRuns ---------------------------
(***************************************************************************)
(* Scheduled and manual automation: the task table and its switches        *)
(* (api/tasks.py), the manual daily run (api/jobs.py), the tick that       *)
(* triggers due tasks (services/scheduler_service.py) and the worker that  *)
(* executes the runs (services/automation.py).                             *)
(*                                                                         *)
(* A run and its queue job are created in one transaction and no job of    *)
(* this queue is retried, so the job is a field of the run.  The ledger    *)
(* functions of services/run_lifecycle.py are not in the repository; what  *)
(* they do to a run's status is taken from their callers.                  *)
(***************************************************************************)
EXTENDS Integers, FiniteSets

CONSTANTS
    Tasks,        \* ids create_task may use
    DailyTasks,   \* those is_daily_briefing_task recognises by their name
    Daily,        \* the kind daily_briefing; any other kind is a task's own
    NoTask,       \* task_id of a manual run
    Workers,      \* worker processes; docker-compose.yml starts one
    LastDay,      \* bound: days of a behaviour
    LastMinute,   \* bound: minutes of a day, 0 .. LastMinute
    MaxRuns,      \* bound: rows of automation_runs
    MaxManual,    \* bound: manual runs among them
    MaxCrashes    \* bound: worker deaths

ASSUME AutomationAssumption ==
    /\ DailyTasks \subseteq Tasks
    /\ Daily \notin Tasks
    /\ NoTask \notin Tasks
    /\ LastDay \in Nat \ {0}
    /\ {LastMinute, MaxRuns, MaxManual, MaxCrashes} \subseteq Nat

VARIABLES
    day, minute,   \* the clock in Asia/Shanghai
    switch,        \* setting automationEnabled
    tasks,         \* table automation_tasks
    last,          \* settings lastAutomationTaskRun:{id}; 0 is no row
    lastDaily,     \* setting lastDailyRun; 0 is no row
    runs,          \* table automation_runs with each run's job
    proc,          \* what each worker is doing
    crashes

vars == <<day, minute, switch, tasks, last, lastDaily, runs, proc, crashes>>
clockVars == <<day, minute>>
taskVars  == <<switch, tasks>>

-----------------------------------------------------------------------------
RunIds  == 1 .. MaxRuns
Days    == 1 .. LastDay
Minutes == 0 .. LastMinute

Unscheduled == -1      \* a schedule _parse_schedule_time does not understand

Running   == {"queued", "running"}
Completed == {"succeeded", "partial"}
Statuses  == {"absent", "failed"} \cup Running \cup Completed

\* slot: the day whose placeholder the tick wrote, 0 for a manual run;
\* brief: the day of the report it committed, 0 before that.
Run == [status: Statuses, kind: Tasks \cup {Daily}, task: Tasks \cup {NoTask},
        slot: 0 .. LastDay, job: {"none", "todo", "doing", "ended"},
        brief: 0 .. LastDay]

AbsentRun == [status |-> "absent", kind |-> Daily, task |-> NoTask,
              slot |-> 0, job |-> "none", brief |-> 0]

DailySteps == {"guard", "brief", "extras"}      \* inside run_daily_job
TickSteps  == {"tick", "place"}

Frame == [at: {"idle", "start", "ended"} \cup DailySteps \cup TickSteps,
          run: 0 .. MaxRuns, today: 0 .. LastDay, pending: SUBSET Tasks,
          task: Tasks \cup {NoTask}, seen: 0 .. LastDay]

Idle == [at |-> "idle", run |-> 0, today |-> 0, pending |-> {},
         task |-> NoTask, seen |-> 0]

TypeOK ==
    /\ day \in Days
    /\ minute \in Minutes
    /\ switch \in BOOLEAN
    /\ tasks \in [Tasks -> [state: {"absent", "off", "on"},
                            schedule: Minutes \cup {Unscheduled}]]
    /\ last \in [Tasks -> 0 .. LastDay]
    /\ lastDaily \in 0 .. LastDay
    /\ runs \in [RunIds -> Run]
    /\ proc \in [Workers -> Frame]
    /\ crashes \in 0 .. MaxCrashes

Init ==
    /\ day = 1
    /\ minute = 0
    /\ switch = FALSE
    /\ tasks = [t \in Tasks |-> [state |-> "absent", schedule |-> Unscheduled]]
    /\ last = [t \in Tasks |-> 0]
    /\ lastDaily = 0
    /\ runs = [r \in RunIds |-> AbsentRun]
    /\ proc = [w \in Workers |-> Idle]
    /\ crashes = 0

Kind(t) == IF t \in DailyTasks THEN Daily ELSE t

KindFreeMutant(k) ==           \* mutant: the index covers queued runs only
    \A r \in RunIds : ~(runs[r].kind = k /\ runs[r].status = "queued")

\* uq_automation_runs_active_kind lets a run of kind k be inserted.
KindFree(k) ==
    \A r \in RunIds : ~(runs[r].kind = k /\ runs[r].status \in Running)

\* The next row of automation_runs is r.
Fresh(r) ==
    /\ runs[r].status = "absent"
    /\ \A q \in RunIds : q < r => runs[q].status # "absent"

NewRun(t, k, slot) ==
    [AbsentRun EXCEPT !.status = "queued", !.kind = k, !.task = t,
                      !.slot = slot, !.job = "todo"]

-----------------------------------------------------------------------------
(* The clock and the superadmin's requests.                                *)

Clock ==
    /\ IF minute < LastMinute
       THEN day' = day /\ minute' = minute + 1
       ELSE day < LastDay /\ day' = day + 1 /\ minute' = 0
    /\ UNCHANGED <<taskVars, last, lastDaily, runs, proc, crashes>>

SetTask(t, task) ==
    /\ tasks' = [tasks EXCEPT ![t] = task]
    /\ UNCHANGED <<clockVars, switch, last, lastDaily, runs, proc, crashes>>

CreateTask(t, s) ==
    /\ tasks[t].state = "absent"
    /\ SetTask(t, [state |-> "off", schedule |-> s])

ToggleTask(t) ==
    /\ tasks[t].state # "absent"
    /\ SetTask(t, [tasks[t] EXCEPT !.state = IF @ = "on" THEN "off" ELSE "on"])

UpdateTaskSchedule(t, s) ==
    /\ tasks[t].state # "absent"
    /\ SetTask(t, [tasks[t] EXCEPT !.schedule = s])

\* POST /settings/daily-schedule: some daily task, created if there is none.
UpdateDailySchedule(t, s) ==
    /\ t \in DailyTasks
    /\ \/ tasks[t].state # "absent"
       \/ \A u \in DailyTasks : tasks[u].state = "absent"
    /\ SetTask(t, [state |-> IF tasks[t].state = "absent" THEN "off"
                             ELSE tasks[t].state,
                   schedule |-> s])

ToggleAutomation ==
    /\ switch' = ~switch
    /\ UNCHANGED <<clockVars, tasks, last, lastDaily, runs, proc, crashes>>

\* POST /jobs/daily; with an active daily run the answer is 409.
EnqueueDaily(r) ==
    /\ Fresh(r)
    /\ KindFree(Daily)
    /\ Cardinality({q \in RunIds : runs[q].status # "absent"
                                   /\ runs[q].slot = 0}) < MaxManual
    /\ runs' = [runs EXCEPT ![r] = NewRun(NoTask, Daily, 0)]
    /\ UNCHANGED <<clockVars, taskVars, last, lastDaily, proc, crashes>>

User ==
    \/ ToggleAutomation
    \/ \E t \in Tasks :
          \/ ToggleTask(t)
          \/ \E s \in Minutes \cup {Unscheduled} : CreateTask(t, s)
          \/ \E s \in Minutes : \/ UpdateTaskSchedule(t, s)
                                \/ UpdateDailySchedule(t, s)
    \/ \E r \in RunIds : EnqueueDaily(r)

-----------------------------------------------------------------------------
(* The tick: a job deferred every minute, executed when a worker is free.  *)

Step(w, frame) == proc' = [proc EXCEPT ![w] = frame]

TickStartMutant(w) ==          \* mutant: due only after its minute
    /\ proc[w].at = "idle"
    /\ switch
    /\ Step(w, [Idle EXCEPT !.at = "tick", !.today = day,
                  !.pending = {t \in Tasks :
                      /\ tasks[t].state = "on"
                      /\ tasks[t].schedule \in 0 .. minute - 1}])
    /\ UNCHANGED <<clockVars, taskVars, last, lastDaily, runs, crashes>>

\* The clock is read once, the enabled tasks are loaded once.
TickStart(w) ==
    /\ proc[w].at = "idle"
    /\ switch
    /\ Step(w, [Idle EXCEPT !.at = "tick", !.today = day,
                  !.pending = {t \in Tasks :
                      /\ tasks[t].state = "on"
                      /\ tasks[t].schedule \in 0 .. minute}])
    /\ UNCHANGED <<clockVars, taskVars, last, lastDaily, runs, crashes>>

LookMutant(w, t) ==            \* mutant: the placeholder is not compared
    /\ proc[w].at = "tick"
    /\ t \in proc[w].pending
    /\ Step(w, [proc[w] EXCEPT !.at = "place", !.task = t, !.seen = last[t]])
    /\ UNCHANGED <<clockVars, taskVars, last, lastDaily, runs, crashes>>

\* The next task: the placeholder is read, without a lock.
Look(w, t) ==
    /\ proc[w].at = "tick"
    /\ t \in proc[w].pending
    /\ Step(w, IF last[t] = proc[w].today
               THEN [proc[w] EXCEPT !.pending = @ \ {t}]
               ELSE [proc[w] EXCEPT !.at = "place", !.task = t,
                                    !.seen = last[t]])
    /\ UNCHANGED <<clockVars, taskVars, last, lastDaily, runs, crashes>>

\* The transaction is refused: an active run of the kind, or a settings row
\* that did not exist when it was looked for.
Refused(w) ==
    LET t == proc[w].task IN
    ~KindFree(Kind(t)) \/ (proc[w].seen = 0 /\ last[t] # 0)

\* Placeholder, run and job commit together.
Place(w, r) ==
    LET t == proc[w].task IN
    /\ proc[w].at = "place"
    /\ Fresh(r)
    /\ ~Refused(w)
    /\ last' = [last EXCEPT ![t] = proc[w].today]
    /\ runs' = [runs EXCEPT ![r] = NewRun(t, Kind(t), proc[w].today)]
    /\ Step(w, [proc[w] EXCEPT !.at = "tick", !.task = NoTask, !.seen = 0,
                               !.pending = @ \ {t}])
    /\ UNCHANGED <<clockVars, taskVars, lastDaily, crashes>>

AbortMutant(w) ==              \* mutant: the placeholder is committed first
    /\ proc[w].at = "place"
    /\ Refused(w)
    /\ last' = [last EXCEPT ![proc[w].task] = proc[w].today]
    /\ Step(w, Idle)
    /\ UNCHANGED <<clockVars, taskVars, lastDaily, runs, crashes>>

\* The IntegrityError is caught nowhere: the tick ends here.
Abort(w) ==
    /\ proc[w].at = "place"
    /\ Refused(w)
    /\ Step(w, Idle)
    /\ UNCHANGED <<clockVars, taskVars, last, lastDaily, runs, crashes>>

TickEnd(w) ==
    /\ proc[w].at = "tick"
    /\ proc[w].pending = {}
    /\ Step(w, Idle)
    /\ UNCHANGED <<clockVars, taskVars, last, lastDaily, runs, crashes>>

Tick(w) ==
    \/ \E t \in Tasks : Look(w, t)
    \/ \E r \in RunIds : Place(w, r)
    \/ Abort(w) \/ TickEnd(w)

-----------------------------------------------------------------------------
(* The execution of a run.                                                 *)

Mine(w) == runs[proc[w].run]

Goto(w, label) == Step(w, [proc[w] EXCEPT !.at = label])

\* The run's row after a commit of worker w, and where w goes on.
Record(w, run, label) ==
    /\ runs' = [runs EXCEPT ![proc[w].run] = run]
    /\ Goto(w, label)
    /\ UNCHANGED <<clockVars, taskVars, last, crashes>>

Fetch(w, r) ==
    /\ proc[w].at = "idle"
    /\ runs[r].job = "todo"
    /\ runs' = [runs EXCEPT ![r].job = "doing"]
    /\ Step(w, [Idle EXCEPT !.at = "start", !.run = r])
    /\ UNCHANGED <<clockVars, taskVars, last, lastDaily, crashes>>

GenericRunMutant(w) ==         \* mutant: logged, but the run is not ended
    /\ proc[w].at = "start"
    /\ Mine(w).kind # Daily
    /\ Record(w, Mine(w), "ended")
    /\ UNCHANGED lastDaily

\* run_automation_task: no other task has an executor.
GenericRun(w) ==
    /\ proc[w].at = "start"
    /\ Mine(w).kind # Daily
    /\ Record(w, [Mine(w) EXCEPT !.status = "failed"], "ended")
    /\ UNCHANGED lastDaily

DailyStart(w) ==
    /\ proc[w].at = "start"
    /\ Mine(w).kind = Daily
    /\ Record(w, [Mine(w) EXCEPT !.status = "running"], "guard")
    /\ UNCHANGED lastDaily

\* A scheduled run finds the day done.
AlreadyDone(w) == Mine(w).slot # 0 /\ lastDaily = day

DailySkip(w) ==
    /\ proc[w].at = "guard"
    /\ AlreadyDone(w)
    /\ Record(w, [Mine(w) EXCEPT !.status = "succeeded"], "ended")
    /\ UNCHANGED lastDaily

\* The day is read once, for the guard and for lastDailyRun.
DailyBegin(w) ==
    /\ proc[w].at = "guard"
    /\ ~AlreadyDone(w)
    /\ Step(w, [proc[w] EXCEPT !.at = "brief", !.today = day])
    /\ UNCHANGED <<clockVars, taskVars, last, lastDaily, runs, crashes>>

\* The report commits on its own, before the steps that may still fail.
DailyReport(w) ==
    /\ proc[w].at = "brief"
    /\ Record(w, [Mine(w) EXCEPT !.brief = proc[w].today], "extras")
    /\ UNCHANGED lastDaily

DailyFinishMutant(w) ==        \* mutant: the day is read again at the end
    /\ proc[w].at = "extras"
    /\ lastDaily' = day
    /\ \E s \in Completed : Record(w, [Mine(w) EXCEPT !.status = s], "ended")
\* Pressure, portfolio history and notification may have degraded it.
DailyFinish(w) ==
    /\ proc[w].at = "extras"
    /\ lastDaily' = proc[w].today
    /\ \E s \in Completed : Record(w, [Mine(w) EXCEPT !.status = s], "ended")

\* No superadmin to run as, or an exception anywhere in run_daily_job.
DailyFail(w) ==
    /\ proc[w].at \in DailySteps
    /\ Record(w, [Mine(w) EXCEPT !.status = "failed"], "ended")
    /\ UNCHANGED lastDaily

Return(w) ==
    /\ proc[w].at = "ended"
    /\ runs' = [runs EXCEPT ![proc[w].run].job = "ended"]
    /\ Step(w, Idle)
    /\ UNCHANGED <<clockVars, taskVars, last, lastDaily, crashes>>

Execute(w) ==
    \/ GenericRun(w) \/ DailyStart(w) \/ DailySkip(w) \/ DailyBegin(w)
    \/ DailyReport(w) \/ DailyFinish(w) \/ DailyFail(w) \/ Return(w)

\* The process dies; the job it executed stays in state doing.
Crash(w) ==
    /\ proc[w].at # "idle"
    /\ crashes < MaxCrashes
    /\ crashes' = crashes + 1
    /\ Step(w, Idle)
    /\ UNCHANGED <<clockVars, taskVars, last, lastDaily, runs>>

Next ==
    \/ Clock
    \/ User
    \/ \E w \in Workers :
          \/ TickStart(w) \/ Tick(w)
          \/ \E r \in RunIds : Fetch(w, r)
          \/ Execute(w) \/ Crash(w)

Spec == Init /\ [][Next]_vars

\* Ticks and runs wait in one queue that is served in order of their ids, so
\* neither is overtaken for ever: each is taken up if workers become free
\* again and again.  A worker that runs goes on.
FairSpec ==
    /\ Spec
    /\ \A w \in Workers :
          /\ WF_vars(Tick(w) \/ Execute(w))
          /\ SF_vars(TickStart(w))
          /\ \A r \in RunIds : SF_vars(Fetch(w, r))

-----------------------------------------------------------------------------
(* What automation promises.                                               *)

\* The day's slot of a task is used up only together with a run for it: a
\* refused transaction or a worker's death loses no day.
PlaceholderHasRun ==
    \A t \in Tasks : last[t] # 0 =>
        \E r \in RunIds : runs[r].task = t /\ runs[r].slot = last[t]

\* The placeholder keeps a task from being triggered twice for a day, by
\* ticks of any minutes, also after a crash in the middle of one.
OneScheduledRunPerDay ==
    \A q, r \in RunIds :
        /\ q # r
        /\ runs[q].task = runs[r].task
        /\ runs[q].slot = runs[r].slot
        => runs[q].slot = 0

\* lastDailyRun names a day for which a run that completed made a report,
\* although the report commits early, a run may cross midnight, and a run
\* may fail between the report and its end.
DailyMarkHasReport ==
    lastDaily # 0 =>
        \E r \in RunIds : runs[r].brief = lastDaily
                          /\ runs[r].status \in Completed

\* Once a daily run has completed for a day, no later scheduled run makes
\* that day's report again; after a failure one may.
NoReportAfterCompletion ==
    \A q, r \in RunIds :
        /\ q < r
        /\ runs[q].brief = runs[r].brief
        /\ runs[r].brief # 0
        /\ runs[r].slot # 0
        => runs[q].status \notin Completed

\* The unique index of the active kind keeps daily jobs apart, however many
\* workers there are and whoever triggered them.
OneDailyAtATime ==
    \A v, w \in Workers :
        v # w => ~(proc[v].at \in DailySteps /\ proc[w].at \in DailySteps)

\* lastDailyRun never goes back, although it is read when a job starts and
\* written when it ends, perhaps on another day.
LastDailyRunNeverGoesBack == [][lastDaily' >= lastDaily]_vars

\* Every run that is created comes to an end (no worker dies).
EveryRunSettles ==
    \A r \in RunIds :
        runs[r].status = "queued"
            ~> runs[r].status \in Completed \cup {"failed"}

Due(t) ==
    /\ switch
    /\ tasks[t].state = "on"
    /\ tasks[t].schedule \in 0 .. minute
    /\ last[t] # day

\* A task that is due is triggered, unless it is switched off, moved to
\* later, or the day ends: aborted ticks and busy kinds only delay it.
DueTaskIsTriggered ==
    \A t \in Tasks : Due(t) /\ day = LastDay ~> ~Due(t)

-----------------------------------------------------------------------------
(* What the documents of the repository say.                               *)

\* Technical plan 735: a single task's failure does not affect the others.
\* A tick does not end while a task it found due could still be triggered.
TickServesEveryTask ==
    [][\A w \in Workers :
          proc[w].at \in TickSteps /\ proc'[w].at = "idle" =>
              \A t \in proc[w].pending :
                  last[t] = proc[w].today \/ ~KindFree(Kind(t))]_vars
=============================================================================
