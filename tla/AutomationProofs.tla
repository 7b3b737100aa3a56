-------------------------- MODULE AutomationProofs --------------------------
(***************************************************************************)
(* Placeholders, runs and the day mark, for any number of tasks, workers,  *)
(* days, runs and worker deaths.                                           *)
(***************************************************************************)
EXTENDS AutomationInvariant, TLAPS

LEMMA Constants ==
    /\ 0 \in 0 .. LastDay
    /\ 0 \in 0 .. MaxRuns
    /\ Days \subseteq 0 .. LastDay
    /\ RunIds \subseteq 0 .. MaxRuns
    /\ RunIds \subseteq Nat
    /\ 0 .. LastDay \subseteq Nat
BY AutomationAssumption DEF Days, RunIds

LEMMA BlankRecords == Idle \in Frame /\ AbsentRun \in Run
<1>1. Idle \in Frame
  BY Constants DEF Idle, Frame
<1>2. AbsentRun \in Run
  BY Constants DEF AbsentRun, Run, Statuses
<1> QED
  BY <1>1, <1>2

LEMMA NewRunType ==
    ASSUME NEW t \in Tasks \cup {NoTask}, NEW k \in Tasks \cup {Daily},
           NEW slot \in 0 .. LastDay
    PROVE  NewRun(t, k, slot) \in Run
BY BlankRecords DEF NewRun, Run, Statuses, Running

LEMMA InitAutomationInv == Init => AutomationInv
<1> SUFFICES ASSUME Init PROVE AutomationInv
  OBVIOUS
<1>1. TypeOK
  <2>1. day \in Days /\ minute \in Minutes /\ crashes \in 0 .. MaxCrashes
    BY AutomationAssumption DEF Init, Days, Minutes
  <2>2. lastDaily \in 0 .. LastDay /\ last \in [Tasks -> 0 .. LastDay]
    BY Constants DEF Init
  <2>3. runs \in [RunIds -> Run] /\ proc \in [Workers -> Frame]
    BY BlankRecords DEF Init
  <2>4. /\ tasks \in [Tasks -> [state: {"absent", "off", "on"},
                                schedule: Minutes \cup {Unscheduled}]]
        /\ switch \in BOOLEAN
    BY DEF Init
  <2> QED
    BY <2>1, <2>2, <2>3, <2>4 DEF TypeOK
<1>2. \A r \in RunIds : runs[r] = AbsentRun
  BY DEF Init
<1>3. \A r \in RunIds :
        /\ runs[r].status = "absent" /\ runs[r].job = "none"
        /\ runs[r].brief = 0 /\ runs[r].slot = 0
  BY <1>2 DEF AbsentRun
<1>4. RowsInv
  BY <1>2, <1>3 DEF RowsInv
<1>5. \A w \in Workers : proc[w].at = "idle"
  BY DEF Init, Idle
<1>6. RunnerInv
  BY <1>5 DEF RunnerInv, Holds, DailySteps
<1>11. TickInv
  BY <1>5 DEF TickInv
<1>7. day = 1 /\ lastDaily = 0
  BY DEF Init
<1>8. DayInv
  <2>1. lastDaily <= day
    BY <1>7
  <2>2. \A r \in RunIds : runs[r].status \notin Completed
    BY <1>3 DEF Completed
  <2> QED
    BY <1>5, <2>1, <2>2 DEF DayInv
<1>9. \A t \in Tasks : last[t] = 0
  BY DEF Init
<1>10. PlaceholderHasRun /\ DailyMarkHasReport /\ NoReportAfterCompletion
  BY <1>3, <1>7, <1>9
     DEF PlaceholderHasRun, DailyMarkHasReport, NoReportAfterCompletion
<1> QED
  BY <1>1, <1>4, <1>6, <1>8, <1>10, <1>11 DEF AutomationInv

-----------------------------------------------------------------------------
(* Types.                                                                  *)

LEMMA StepType ==
    ASSUME TypeOK, NEW w \in Workers, NEW f \in Frame, Step(w, f)
    PROVE  proc' \in [Workers -> Frame]
BY DEF TypeOK, Step

LEMMA UserType ==
    ASSUME TypeOK, User
    PROVE  TypeOK'
<1> DEFINE Task == [state: {"absent", "off", "on"},
                    schedule: Minutes \cup {Unscheduled}]
<1>1. ASSUME NEW t \in Tasks, NEW x \in Task, SetTask(t, x) PROVE TypeOK'
  <2>1. tasks' \in [Tasks -> Task]
    BY <1>1 DEF SetTask, TypeOK
  <2> QED
    BY <1>1, <2>1 DEF SetTask, TypeOK, clockVars
<1>2. CASE ToggleAutomation
  BY <1>2 DEF ToggleAutomation, TypeOK, clockVars
<1>3. ASSUME NEW t \in Tasks, ToggleTask(t) PROVE TypeOK'
  <2>1. [tasks[t] EXCEPT !.state = IF @ = "on" THEN "off" ELSE "on"] \in Task
    BY DEF TypeOK
  <2> QED
    BY <1>1, <1>3, <2>1 DEF ToggleTask
<1>4. ASSUME NEW t \in Tasks, NEW s \in Minutes \cup {Unscheduled},
             CreateTask(t, s)
      PROVE  TypeOK'
  <2>1. [state |-> "off", schedule |-> s] \in Task
    OBVIOUS
  <2> QED
    BY <1>1, <1>4, <2>1 DEF CreateTask
<1>5. ASSUME NEW t \in Tasks, NEW s \in Minutes, UpdateTaskSchedule(t, s)
      PROVE  TypeOK'
  <2>1. [tasks[t] EXCEPT !.schedule = s] \in Task
    BY DEF TypeOK
  <2> QED
    BY <1>1, <1>5, <2>1 DEF UpdateTaskSchedule
<1>6. ASSUME NEW t \in Tasks, NEW s \in Minutes, UpdateDailySchedule(t, s)
      PROVE  TypeOK'
  <2>1. [state |-> IF tasks[t].state = "absent" THEN "off" ELSE tasks[t].state,
         schedule |-> s] \in Task
    BY DEF TypeOK
  <2> QED
    BY <1>1, <1>6, <2>1 DEF UpdateDailySchedule
<1>7. ASSUME NEW r \in RunIds, EnqueueDaily(r) PROVE TypeOK'
  <2>1. NewRun(NoTask, Daily, 0) \in Run
    BY NewRunType, Constants
  <2>2. runs' \in [RunIds -> Run]
    BY <1>7, <2>1 DEF EnqueueDaily, TypeOK
  <2> QED
    BY <1>7, <2>2 DEF EnqueueDaily, TypeOK, clockVars, taskVars
<1> QED
  BY <1>2, <1>3, <1>4, <1>5, <1>6, <1>7 DEF User

LEMMA TickType ==
    ASSUME TypeOK, TickInv, NEW w \in Workers,
           TickStart(w) \/ Tick(w) \/ Crash(w)
    PROVE  TypeOK' /\ TickInv'
<1>1. CASE TickStart(w)
  <2> DEFINE due == {t \in Tasks : /\ tasks[t].state = "on"
                                   /\ tasks[t].schedule \in 0 .. minute}
             f   == [Idle EXCEPT !.at = "tick", !.today = day, !.pending = due]
  <2>1. day \in 0 .. LastDay /\ due \in SUBSET Tasks
    BY Constants DEF TypeOK
  <2>2. Step(w, f)
    BY <1>1 DEF TickStart
  <2> HIDE DEF due
  <2>3. f \in Frame /\ f.at = "tick"
    BY <2>1, BlankRecords DEF Frame, TickSteps, Idle
  <2> HIDE DEF f
  <2>4. proc' \in [Workers -> Frame]
    BY <2>2, <2>3, StepType
  <2>5. TickInv'
    BY <2>2, <2>3 DEF Step, TypeOK, TickInv
  <2> QED
    BY <1>1, <2>4, <2>5 DEF TickStart, TypeOK, clockVars, taskVars
<1>2. ASSUME NEW t \in Tasks, Look(w, t) PROVE TypeOK' /\ TickInv'
  <2>1. proc[w] \in Frame /\ last[t] \in 0 .. LastDay
    BY DEF TypeOK
  <2>2. PICK f \in Frame : Step(w, f) /\ (f.at = "tick" \/ f.task = t)
    <3>1. [proc[w] EXCEPT !.pending = @ \ {t}] \in Frame
      BY <2>1 DEF Frame
    <3>2. [proc[w] EXCEPT !.at = "place", !.task = t, !.seen = last[t]] \in Frame
      BY <2>1 DEF Frame, TickSteps
    <3>3. CASE last[t] = proc[w].today
      BY <1>2, <2>1, <3>1, <3>3 DEF Look, Frame
    <3>4. CASE last[t] # proc[w].today
      BY <1>2, <2>1, <3>2, <3>4 DEF Look, Frame
    <3> QED
      BY <3>3, <3>4
  <2>3. proc' \in [Workers -> Frame]
    BY <2>2, StepType
  <2>4. TickInv'
    BY <2>2 DEF Step, TypeOK, TickInv
  <2> QED
    BY <1>2, <2>3, <2>4 DEF Look, TypeOK, clockVars, taskVars
<1>3. ASSUME NEW r \in RunIds, Place(w, r) PROVE TypeOK' /\ TickInv'
  <2> DEFINE t == proc[w].task
             f == [proc[w] EXCEPT !.at = "tick", !.task = NoTask, !.seen = 0,
                                  !.pending = @ \ {t}]
  <2>1. proc[w] \in Frame /\ proc[w].today \in 0 .. LastDay
    BY DEF TypeOK, Frame
  <2>2. t \in Tasks /\ Kind(t) \in Tasks \cup {Daily}
    BY <1>3 DEF Place, TickInv, Kind
  <2>3. NewRun(t, Kind(t), proc[w].today) \in Run
    BY <2>1, <2>2, NewRunType
  <2>4. last' \in [Tasks -> 0 .. LastDay]
    BY <1>3, <2>1 DEF Place, TypeOK
  <2>5. runs' \in [RunIds -> Run]
    BY <1>3, <2>3 DEF Place, TypeOK
  <2>6. Step(w, f)
    BY <1>3 DEF Place
  <2>7. f \in Frame /\ f.at = "tick"
    BY <2>1, Constants DEF Frame, TickSteps
  <2> HIDE DEF f, t
  <2>8. proc' \in [Workers -> Frame] /\ TickInv'
    BY <2>6, <2>7, StepType DEF Step, TypeOK, TickInv
  <2> QED
    BY <1>3, <2>4, <2>5, <2>8 DEF Place, TypeOK, clockVars, taskVars
<1>4. ASSUME Step(w, Idle) PROVE proc' \in [Workers -> Frame] /\ TickInv'
  BY <1>4, BlankRecords, StepType DEF Step, TypeOK, TickInv, Idle
<1>5. CASE Abort(w)
  BY <1>4, <1>5 DEF Abort, TypeOK, clockVars, taskVars
<1>6. CASE TickEnd(w)
  BY <1>4, <1>6 DEF TickEnd, TypeOK, clockVars, taskVars
<1>7. CASE Crash(w)
  <2>1. crashes' \in 0 .. MaxCrashes
    BY <1>7, AutomationAssumption DEF Crash, TypeOK
  <2> QED
    BY <1>4, <1>7, <2>1 DEF Crash, TypeOK, clockVars, taskVars
<1> QED
  BY <1>1, <1>2, <1>3, <1>5, <1>6, <1>7 DEF Tick

-----------------------------------------------------------------------------
(* Rows: inserting one, and moving one on.                                 *)

\* Row r becomes x: an update no execution step exceeds.
Progress(r, x) ==
    /\ runs[r].status # "absent"
    /\ x.status # "absent"
    /\ x.kind = runs[r].kind
    /\ x.task = runs[r].task
    /\ x.slot = runs[r].slot
    /\ x.job # "todo"
    /\ x.status \in Running => runs[r].status \in Running
    /\ x.status = "queued" => runs[r].status = "queued" /\ x.brief = runs[r].brief
    /\ x.brief # 0 => runs[r].brief # 0 \/ x.kind = Daily

LEMMA ProgressRows ==
    ASSUME TypeOK, RowsInv, NEW r \in RunIds, NEW x \in Run, Progress(r, x),
           runs' = [runs EXCEPT ![r] = x]
    PROVE  RowsInv'
<1>1. \A s \in RunIds : runs'[s] = IF s = r THEN x ELSE runs[s]
  BY DEF TypeOK
<1>2. \A s \in RunIds : runs'[s].status = "absent" <=> runs[s].status = "absent"
  BY <1>1 DEF Progress
<1>3. \A s \in RunIds : runs'[s].kind = runs[s].kind
  BY <1>1 DEF Progress
<1>4. \A s \in RunIds : runs'[s].status \in Running => runs[s].status \in Running
  BY <1>1 DEF Progress
<1>5. \A s \in RunIds : runs'[s].status = "absent" =>
        /\ runs'[s] = AbsentRun
        /\ \A q \in RunIds : s < q => runs'[q].status = "absent"
  BY <1>1, <1>2 DEF RowsInv, Progress
<1>6. \A q, s \in RunIds :
        q < s /\ runs'[s].status # "absent" /\ runs'[q].kind = runs'[s].kind
            => runs'[q].status \notin Running
  BY <1>2, <1>3, <1>4 DEF RowsInv
<1>7. \A s \in RunIds : runs'[s].job = "todo" => runs'[s].status = "queued"
  BY <1>1 DEF RowsInv, Progress
<1>8. \A s \in RunIds : runs'[s].status = "queued" => runs'[s].brief = 0
  BY <1>1 DEF RowsInv, Progress
<1>9. \A s \in RunIds : runs'[s].brief # 0 => runs'[s].kind = Daily
  BY <1>1, <1>3 DEF RowsInv, Progress
<1> QED
  BY <1>5, <1>6, <1>7, <1>8, <1>9 DEF RowsInv

\* What a new row looks like.
LEMMA NewRunFields ==
    ASSUME NEW t, NEW k, NEW slot
    PROVE  /\ NewRun(t, k, slot).status = "queued"
           /\ NewRun(t, k, slot).kind = k
           /\ NewRun(t, k, slot).task = t
           /\ NewRun(t, k, slot).slot = slot
           /\ NewRun(t, k, slot).brief = 0
BY DEF NewRun, AbsentRun

LEMMA InsertRows ==
    ASSUME TypeOK, RowsInv, NEW r \in RunIds, NEW x \in Run,
           x.status = "queued", x.brief = 0, Fresh(r), KindFree(x.kind),
           runs' = [runs EXCEPT ![r] = x]
    PROVE  RowsInv'
<1>1. \A s \in RunIds : runs'[s] = IF s = r THEN x ELSE runs[s]
  BY DEF TypeOK
<1>2. \A s \in RunIds : runs'[s].status = "absent" =>
        /\ runs'[s] = AbsentRun
        /\ \A q \in RunIds : s < q => runs'[q].status = "absent"
  <2> SUFFICES ASSUME NEW s \in RunIds, runs'[s].status = "absent"
               PROVE  /\ runs'[s] = AbsentRun
                      /\ \A q \in RunIds : s < q => runs'[q].status = "absent"
    OBVIOUS
  <2>1. s # r /\ runs[s].status = "absent"
    BY <1>1
  <2>2. ~(s < r)
    BY <2>1 DEF Fresh
  <2>3. \A q \in RunIds : s < q => q # r
    BY <2>2
  <2> QED
    BY <1>1, <2>1, <2>3 DEF RowsInv
<1>3. \A q, s \in RunIds :
        q < s /\ runs'[s].status # "absent" /\ runs'[q].kind = runs'[s].kind
            => runs'[q].status \notin Running
  <2> SUFFICES ASSUME NEW q \in RunIds, NEW s \in RunIds, q < s,
                      runs'[s].status # "absent",
                      runs'[q].kind = runs'[s].kind
               PROVE  runs'[q].status \notin Running
    OBVIOUS
  <2>1. CASE s = r
    <3>1. q # r
      BY <2>1, Constants
    <3> QED
      BY <1>1, <2>1, <3>1 DEF KindFree
  <2>2. CASE q = r
    <3>1. s # r
      BY <2>2, Constants
    <3>2. runs[r].status = "absent"
      BY DEF Fresh
    <3> QED
      BY <1>1, <2>2, <3>1, <3>2 DEF RowsInv
  <2>3. CASE s # r /\ q # r
    BY <1>1, <2>3 DEF RowsInv
  <2> QED
    BY <2>1, <2>2, <2>3
<1>4. \A s \in RunIds : runs'[s].job = "todo" => runs'[s].status = "queued"
  BY <1>1 DEF RowsInv
<1>5. \A s \in RunIds : runs'[s].status = "queued" => runs'[s].brief = 0
  BY <1>1 DEF RowsInv
<1>6. \A s \in RunIds : runs'[s].brief # 0 => runs'[s].kind = Daily
  BY <1>1 DEF RowsInv
<1> QED
  BY <1>2, <1>3, <1>4, <1>5, <1>6 DEF RowsInv

-----------------------------------------------------------------------------
(* What the execution of a run may do to its row, its worker and the day.  *)

Keeps(w, x, f) ==
    /\ lastDaily' = lastDaily
    /\ x.brief = Mine(w).brief
    /\ x.status \in Completed => proc[w].at = "guard" \/ Mine(w).status = x.status
    /\ f.at \notin {"brief", "extras"}
    /\ f.at = "guard" => Mine(w).status = "queued"

Begins(w, x, f) ==
    /\ proc[w].at = "guard"
    /\ lastDaily' = lastDaily
    /\ x = Mine(w)
    /\ f.at = "brief"
    /\ f.today = day
    /\ x.slot # 0 => lastDaily # day

Reports(w, x, f) ==
    /\ proc[w].at = "brief"
    /\ lastDaily' = lastDaily
    /\ x.brief = proc[w].today
    /\ x.status = "running"
    /\ f.at = "extras"
    /\ f.today = proc[w].today

Finishes(w, x, f) ==
    /\ proc[w].at = "extras"
    /\ lastDaily' = proc[w].today
    /\ x.brief = Mine(w).brief
    /\ x.status \in Completed
    /\ f.at = "ended"

\* Worker w moves its run to x and goes on as f.
Advance(w, x, f) ==
    /\ Holds(w)
    /\ Progress(proc[w].run, x)
    /\ runs' = [runs EXCEPT ![proc[w].run] = x]
    /\ Step(w, f)
    /\ UNCHANGED <<clockVars, taskVars, last, crashes>>
    /\ f.at # "idle" => /\ f.at \in {"ended"} \cup DailySteps
                        /\ f.run = proc[w].run
                        /\ x.job = "doing"
    /\ f.at \in DailySteps => x.status = "running" /\ x.kind = Daily
    /\ Mine(w).status \notin Running =>
          x.status = Mine(w).status /\ x.brief = Mine(w).brief
    /\ \/ Keeps(w, x, f) \/ Begins(w, x, f)
       \/ Reports(w, x, f) \/ Finishes(w, x, f)

LEMMA MineFacts ==
    ASSUME TypeOK, RowsInv, RunnerInv, NEW w \in Workers, Holds(w)
    PROVE  /\ proc[w] \in Frame
           /\ proc[w].run \in RunIds
           /\ Mine(w) \in Run
           /\ Mine(w).job = "doing"
           /\ Mine(w).status # "absent"
<1>1. proc[w].run \in RunIds /\ Mine(w).job = "doing"
  BY DEF RunnerInv
<1>2. Mine(w) # AbsentRun
  BY <1>1 DEF AbsentRun
<1> QED
  BY <1>1, <1>2 DEF TypeOK, RowsInv, Mine

LEMMA ExecuteAdvances ==
    ASSUME TypeOK, RowsInv, RunnerInv, NEW w \in Workers, Execute(w)
    PROVE  \E x \in Run, f \in Frame : Advance(w, x, f)
<1>1. Holds(w)
  BY DEF Execute, GenericRun, DailyStart, DailySkip, DailyBegin, DailyReport,
         DailyFinish, DailyFail, Return, Holds, DailySteps
<1> DEFINE me == Mine(w)
           r  == proc[w].run
<1>2. /\ proc[w] \in Frame /\ r \in RunIds
      /\ me \in Run /\ me.job = "doing" /\ me.status # "absent"
      /\ runs[r] = me
  BY <1>1, MineFacts DEF Mine
<1>3. proc[w].at = "start" => me.status = "queued"
  BY DEF RunnerInv
<1>4. proc[w].at \in DailySteps => me.status = "running" /\ me.kind = Daily
  BY DEF RunnerInv
<1> HIDE DEF me, r
<1>5. \A label \in {"ended"} \cup DailySteps :
        LET f == [proc[w] EXCEPT !.at = label] IN
        f \in Frame /\ f.at = label /\ f.run = r /\ f.today = proc[w].today
  BY <1>2 DEF Frame, r
<1>6. CASE GenericRun(w)
  <2> DEFINE x == [me EXCEPT !.status = "failed"]
             f == [proc[w] EXCEPT !.at = "ended"]
  <2>1. x \in Run /\ f \in Frame
    BY <1>2, <1>5 DEF Run, Statuses
  <2>2. /\ proc[w].at = "start" /\ lastDaily' = lastDaily
        /\ runs' = [runs EXCEPT ![r] = x] /\ Step(w, f)
        /\ UNCHANGED <<clockVars, taskVars, last, crashes>>
    BY <1>6 DEF GenericRun, Record, Goto, me, r
  <2>3. /\ x.status = "failed" /\ x.kind = me.kind /\ x.task = me.task
        /\ x.slot = me.slot /\ x.job = me.job /\ x.brief = me.brief
    BY <1>2 DEF Run
  <2>4. f.at = "ended" /\ f.run = r
    BY <1>5
  <2> HIDE DEF x, f
  <2>5. Progress(r, x)
    BY <1>2, <2>3 DEF Progress, Running
  <2>6. Keeps(w, x, f)
    BY <2>2, <2>3, <2>4 DEF Keeps, Completed, DailySteps, me
  <2> QED
    BY <1>1, <1>2, <1>3, <2>1, <2>2, <2>3, <2>4, <2>5, <2>6
       DEF Advance, me, r, DailySteps, Running
<1>7. CASE DailyStart(w)
  <2> DEFINE f == [proc[w] EXCEPT !.at = "guard"]
  <2> DEFINE x == [me EXCEPT !.status = "running"]
  <2>1. x \in Run /\ f \in Frame
    BY <1>2, <1>5 DEF Run, Statuses, Running, Completed, Frame, DailySteps
  <2>2. /\ proc[w].at = "start" /\ me.kind = Daily /\ lastDaily' = lastDaily
        /\ runs' = [runs EXCEPT ![r] = x] /\ Step(w, f)
        /\ UNCHANGED <<clockVars, taskVars, last, crashes>>
    BY <1>7 DEF DailyStart, Record, Goto, me, r
  <2>3. /\ x.status = "running" /\ x.kind = me.kind /\ x.task = me.task
        /\ x.slot = me.slot /\ x.job = me.job /\ x.brief = me.brief
    BY <1>2, <2>1, <2>2 DEF Run, Frame
  <2> HIDE DEF x
  <2>4. f.at = "guard" /\ f.run = r /\ f.today = proc[w].today
    BY <1>5 DEF DailySteps
  <2> HIDE DEF f
  <2>5. Progress(r, x)
    BY <1>2, <1>3, <2>2, <2>3 DEF Progress, Running, Completed, DailySteps
  <2>6. Keeps(w, x, f)
    BY <1>2, <1>3, <2>2, <2>3, <2>4 DEF Keeps, Completed, DailySteps, me
  <2> QED
    BY <1>1, <1>2, <1>3, <2>1, <2>2, <2>3, <2>4, <2>5, <2>6
       DEF Advance, me, r, DailySteps, Running, Completed
<1>8. CASE DailySkip(w)
  <2> DEFINE f == [proc[w] EXCEPT !.at = "ended"]
  <2> DEFINE x == [me EXCEPT !.status = "succeeded"]
  <2>1. x \in Run /\ f \in Frame
    BY <1>2, <1>5 DEF Run, Statuses, Running, Completed, Frame, DailySteps
  <2>2. /\ proc[w].at = "guard" /\ lastDaily' = lastDaily
        /\ runs' = [runs EXCEPT ![r] = x] /\ Step(w, f)
        /\ UNCHANGED <<clockVars, taskVars, last, crashes>>
    BY <1>8 DEF DailySkip, Record, Goto, me, r
  <2>3. /\ x.status = "succeeded" /\ x.kind = me.kind /\ x.task = me.task
        /\ x.slot = me.slot /\ x.job = me.job /\ x.brief = me.brief
    BY <1>2, <2>1, <2>2 DEF Run, Frame
  <2> HIDE DEF x
  <2>4. f.at = "ended" /\ f.run = r /\ f.today = proc[w].today
    BY <1>5 DEF DailySteps
  <2> HIDE DEF f
  <2>5. Progress(r, x)
    BY <1>2, <1>4, <2>2, <2>3 DEF Progress, Running, Completed, DailySteps
  <2>6. Keeps(w, x, f)
    BY <1>2, <1>4, <2>2, <2>3, <2>4 DEF Keeps, Completed, DailySteps, me
  <2> QED
    BY <1>1, <1>2, <1>4, <2>1, <2>2, <2>3, <2>4, <2>5, <2>6
       DEF Advance, me, r, DailySteps, Running, Completed
<1>9. CASE DailyFail(w)
  <2> DEFINE f == [proc[w] EXCEPT !.at = "ended"]
  <2> DEFINE x == [me EXCEPT !.status = "failed"]
  <2>1. x \in Run /\ f \in Frame
    BY <1>2, <1>5 DEF Run, Statuses, Running, Completed, Frame, DailySteps
  <2>2. /\ proc[w].at \in DailySteps /\ lastDaily' = lastDaily
        /\ runs' = [runs EXCEPT ![r] = x] /\ Step(w, f)
        /\ UNCHANGED <<clockVars, taskVars, last, crashes>>
    BY <1>9 DEF DailyFail, Record, Goto, me, r
  <2>3. /\ x.status = "failed" /\ x.kind = me.kind /\ x.task = me.task
        /\ x.slot = me.slot /\ x.job = me.job /\ x.brief = me.brief
    BY <1>2, <2>1, <2>2 DEF Run, Frame
  <2> HIDE DEF x
  <2>4. f.at = "ended" /\ f.run = r /\ f.today = proc[w].today
    BY <1>5 DEF DailySteps
  <2> HIDE DEF f
  <2>5. Progress(r, x)
    BY <1>2, <1>4, <2>2, <2>3 DEF Progress, Running, Completed, DailySteps
  <2>6. Keeps(w, x, f)
    BY <1>2, <1>4, <2>2, <2>3, <2>4 DEF Keeps, Completed, DailySteps, me
  <2> QED
    BY <1>1, <1>2, <1>4, <2>1, <2>2, <2>3, <2>4, <2>5, <2>6
       DEF Advance, me, r, DailySteps, Running, Completed
<1>10. CASE DailyReport(w)
  <2> DEFINE f == [proc[w] EXCEPT !.at = "extras"]
  <2> DEFINE x == [me EXCEPT !.brief = proc[w].today]
  <2>1. x \in Run /\ f \in Frame
    BY <1>2, <1>5 DEF Run, Statuses, Running, Completed, Frame, DailySteps
  <2>2. /\ proc[w].at = "brief" /\ lastDaily' = lastDaily
        /\ runs' = [runs EXCEPT ![r] = x] /\ Step(w, f)
        /\ UNCHANGED <<clockVars, taskVars, last, crashes>>
    BY <1>10 DEF DailyReport, Record, Goto, me, r
  <2>3. /\ x.status = me.status /\ x.kind = me.kind /\ x.task = me.task
        /\ x.slot = me.slot /\ x.job = me.job /\ x.brief = proc[w].today
    BY <1>2, <2>1, <2>2 DEF Run, Frame
  <2> HIDE DEF x
  <2>4. f.at = "extras" /\ f.run = r /\ f.today = proc[w].today
    BY <1>5 DEF DailySteps
  <2> HIDE DEF f
  <2>5. Progress(r, x)
    BY <1>2, <1>4, <2>2, <2>3 DEF Progress, Running, Completed, DailySteps
  <2>6. Reports(w, x, f)
    BY <1>2, <1>4, <2>2, <2>3, <2>4 DEF Reports, Completed, DailySteps, me
  <2> QED
    BY <1>1, <1>2, <1>4, <2>1, <2>2, <2>3, <2>4, <2>5, <2>6
       DEF Advance, me, r, DailySteps, Running, Completed
<1>11. ASSUME NEW s \in Completed, proc[w].at = "extras",
              lastDaily' = proc[w].today,
              Record(w, [Mine(w) EXCEPT !.status = s], "ended")
       PROVE  \E x \in Run, f \in Frame : Advance(w, x, f)
  <2> DEFINE x == [me EXCEPT !.status = s]
             f == [proc[w] EXCEPT !.at = "ended"]
  <2>1. x \in Run /\ f \in Frame
    BY <1>2, <1>5 DEF Run, Statuses, Completed
  <2>2. /\ runs' = [runs EXCEPT ![r] = x] /\ Step(w, f)
        /\ UNCHANGED <<clockVars, taskVars, last, crashes>>
    BY <1>11 DEF Record, Goto, me, r
  <2>3. /\ x.status = s /\ x.kind = me.kind /\ x.task = me.task
        /\ x.slot = me.slot /\ x.job = me.job /\ x.brief = me.brief
    BY <1>2 DEF Run
  <2>4. f.at = "ended" /\ f.run = r
    BY <1>5
  <2> HIDE DEF x, f
  <2>5. Progress(r, x)
    BY <1>2, <1>4, <1>11, <2>3 DEF Progress, Running, Completed, DailySteps
  <2>6. Finishes(w, x, f)
    BY <1>11, <2>2, <2>3, <2>4 DEF Finishes, me
  <2> QED
    BY <1>1, <1>2, <1>4, <1>11, <2>1, <2>2, <2>3, <2>4, <2>5, <2>6
       DEF Advance, me, r, DailySteps, Running, Completed
<1>12. CASE DailyFinish(w)
  BY <1>11, <1>12 DEF DailyFinish
<1>13. CASE DailyBegin(w)
  <2> DEFINE f == [proc[w] EXCEPT !.at = "brief", !.today = day]
  <2>1. day \in 0 .. LastDay
    BY Constants DEF TypeOK
  <2>2. f \in Frame /\ f.at = "brief" /\ f.run = r /\ f.today = day
    BY <1>2, <2>1 DEF Frame, DailySteps, r
  <2>3. runs' = [runs EXCEPT ![r] = me]
    BY <1>2, <1>13 DEF DailyBegin, TypeOK
  <2>4. /\ proc[w].at = "guard" /\ Step(w, f) /\ ~AlreadyDone(w)
        /\ lastDaily' = lastDaily
        /\ UNCHANGED <<clockVars, taskVars, last, crashes>>
    BY <1>13 DEF DailyBegin
  <2> HIDE DEF f
  <2>5. Progress(r, me)
    BY <1>2, <1>4, <2>4 DEF Progress, DailySteps, Running
  <2>6. Begins(w, me, f)
    BY <2>2, <2>4 DEF Begins, AlreadyDone, me
  <2> QED
    BY <1>1, <1>2, <1>4, <2>2, <2>3, <2>4, <2>5, <2>6
       DEF Advance, me, r, DailySteps
<1>14. CASE Return(w)
  <2> DEFINE x == [me EXCEPT !.job = "ended"]
  <2>1. x \in Run /\ Idle \in Frame
    BY <1>2, BlankRecords DEF Run
  <2>2. runs' = [runs EXCEPT ![r] = x]
    BY <1>2, <1>14 DEF Return, TypeOK, r
  <2>3. /\ x.status = me.status /\ x.kind = me.kind /\ x.task = me.task
        /\ x.slot = me.slot /\ x.job = "ended" /\ x.brief = me.brief
    BY <1>2 DEF Run
  <2>4. /\ Step(w, Idle) /\ lastDaily' = lastDaily
        /\ UNCHANGED <<clockVars, taskVars, last, crashes>>
    BY <1>14 DEF Return
  <2>5. Idle.at = "idle"
    BY DEF Idle
  <2> HIDE DEF x
  <2>6. Progress(r, x)
    BY <1>2, <2>3 DEF Progress
  <2>7. Keeps(w, x, Idle)
    BY <2>3, <2>4, <2>5 DEF Keeps, me
  <2> QED
    BY <1>1, <1>2, <2>1, <2>2, <2>3, <2>4, <2>5, <2>6, <2>7
       DEF Advance, me, r, DailySteps
<1> QED
  BY <1>6, <1>7, <1>8, <1>9, <1>10, <1>12, <1>13, <1>14 DEF Execute

\* A fetched run's row.
LEMMA FetchMoves ==
    ASSUME TypeOK, RowsInv, NEW w \in Workers, NEW r \in RunIds, Fetch(w, r)
    PROVE  \E x \in Run, f \in Frame :
              /\ Progress(r, x)
              /\ runs' = [runs EXCEPT ![r] = x]
              /\ x.status = "queued" /\ x.brief = 0 /\ x.job = "doing"
              /\ Step(w, f)
              /\ f.at = "start" /\ f.run = r
<1> DEFINE x == [runs[r] EXCEPT !.job = "doing"]
           f == [Idle EXCEPT !.at = "start", !.run = r]
<1>1. runs[r] \in Run /\ runs[r].status = "queued" /\ runs[r].brief = 0
  BY DEF Fetch, RowsInv, TypeOK
<1>2. r \in 0 .. MaxRuns
  BY Constants
<1>3. x \in Run /\ f \in Frame /\ f.at = "start" /\ f.run = r
  BY <1>1, <1>2, BlankRecords DEF Run, Frame, Idle
<1>4. runs' = [runs EXCEPT ![r] = x] /\ Step(w, f)
  BY <1>1 DEF Fetch, TypeOK
<1>5. /\ x.status = "queued" /\ x.brief = 0 /\ x.job = "doing"
      /\ x.kind = runs[r].kind /\ x.task = runs[r].task
      /\ x.slot = runs[r].slot
  BY <1>1 DEF Run
<1> HIDE DEF x, f
<1>6. Progress(r, x)
  BY <1>1, <1>5 DEF Progress
<1> QED
  BY <1>3, <1>4, <1>5, <1>6

-----------------------------------------------------------------------------
(* Every step inserts a row, moves one on, or leaves the table alone.      *)

LEMMA InsertFacts ==
    ASSUME TypeOK, TickInv, NEW r \in RunIds,
           EnqueueDaily(r) \/ \E w \in Workers : Place(w, r)
    PROVE  \E x \in Run :
              /\ Fresh(r) /\ KindFree(x.kind)
              /\ runs' = [runs EXCEPT ![r] = x]
              /\ x.status = "queued" /\ x.brief = 0
<1>1. CASE EnqueueDaily(r)
  <2> DEFINE x == NewRun(NoTask, Daily, 0)
  <2>1. x \in Run
    BY NewRunType, Constants
  <2>2. x.kind = Daily /\ x.status = "queued" /\ x.brief = 0
    BY NewRunFields
  <2> HIDE DEF x
  <2>3. Fresh(r) /\ KindFree(Daily) /\ runs' = [runs EXCEPT ![r] = x]
    BY <1>1 DEF EnqueueDaily, x
  <2> QED
    BY <2>1, <2>2, <2>3
<1>2. ASSUME NEW w \in Workers, Place(w, r)
      PROVE  \E x \in Run :
                /\ Fresh(r) /\ KindFree(x.kind)
                /\ runs' = [runs EXCEPT ![r] = x]
                /\ x.status = "queued" /\ x.brief = 0
  <2> DEFINE t == proc[w].task
             x == NewRun(t, Kind(t), proc[w].today)
  <2>1. proc[w].today \in 0 .. LastDay
    BY DEF TypeOK, Frame
  <2>2. t \in Tasks /\ Kind(t) \in Tasks \cup {Daily}
    BY <1>2 DEF Place, TickInv, Kind
  <2>3. x \in Run
    BY <2>1, <2>2, NewRunType
  <2>4. x.kind = Kind(t) /\ x.status = "queued" /\ x.brief = 0
    BY NewRunFields
  <2>5. Fresh(r) /\ KindFree(Kind(t)) /\ runs' = [runs EXCEPT ![r] = x]
    BY <1>2 DEF Place, Refused
  <2> HIDE DEF x, t
  <2> QED
    BY <2>3, <2>4, <2>5
<1> QED
  BY <1>1, <1>2

Inserts ==
    \E r \in RunIds : EnqueueDaily(r) \/ \E w \in Workers : Place(w, r)

Moves ==
    \E w \in Workers : Execute(w) \/ \E r \in RunIds : Fetch(w, r)

LEMMA StepKinds ==
    ASSUME [Next]_vars
    PROVE  Inserts \/ Moves \/ UNCHANGED runs
BY DEF Next, vars, Clock, User, ToggleAutomation, ToggleTask, CreateTask,
       UpdateTaskSchedule, UpdateDailySchedule, SetTask, TickStart, Tick, Look,
       Abort, TickEnd, Crash, Inserts, Moves

LEMMA MoveFacts ==
    ASSUME TypeOK, RowsInv, RunnerInv, Moves
    PROVE  \E r \in RunIds, x \in Run :
              Progress(r, x) /\ runs' = [runs EXCEPT ![r] = x]
<1>1. ASSUME NEW w \in Workers, Execute(w)
      PROVE  \E r \in RunIds, x \in Run :
                Progress(r, x) /\ runs' = [runs EXCEPT ![r] = x]
  <2>1. PICK x \in Run, f \in Frame : Advance(w, x, f)
    BY <1>1, ExecuteAdvances
  <2>2. proc[w].run \in RunIds
    BY <2>1, MineFacts DEF Advance
  <2> QED
    BY <2>1, <2>2 DEF Advance
<1> QED
  BY <1>1, FetchMoves DEF Moves

LEMMA StepRowsInv ==
    ASSUME TypeOK, RowsInv, TickInv, RunnerInv, [Next]_vars
    PROVE  RowsInv'
<1>1. CASE Inserts
  <2>1. PICK r \in RunIds : \E x \in Run :
              /\ Fresh(r) /\ KindFree(x.kind)
              /\ runs' = [runs EXCEPT ![r] = x]
              /\ x.status = "queued" /\ x.brief = 0
    BY <1>1, InsertFacts DEF Inserts
  <2> QED
    BY <2>1, InsertRows
<1>2. CASE Moves
  BY <1>2, MoveFacts, ProgressRows
<1>3. CASE UNCHANGED runs
  BY <1>3 DEF RowsInv
<1> QED
  BY <1>1, <1>2, <1>3, StepKinds

LEMMA StepTypeOK ==
    ASSUME TypeOK, RowsInv, TickInv, RunnerInv, [Next]_vars
    PROVE  TypeOK' /\ TickInv'
<1>1. CASE UNCHANGED vars
  BY <1>1 DEF vars, TypeOK, TickInv
<1>2. CASE Clock
  <2>1. day' \in Days /\ minute' \in Minutes
    BY <1>2, AutomationAssumption DEF Clock, TypeOK, Days, Minutes
  <2> QED
    BY <1>2, <2>1 DEF Clock, TypeOK, TickInv, taskVars
<1>3. CASE User
  <2>1. UNCHANGED proc
    BY <1>3 DEF User, ToggleAutomation, ToggleTask, CreateTask, SetTask,
               UpdateTaskSchedule, UpdateDailySchedule, EnqueueDaily
  <2> QED
    BY <1>3, <2>1, UserType DEF TickInv
<1>4. ASSUME NEW w \in Workers, Execute(w) PROVE TypeOK' /\ TickInv'
  <2>1. PICK x \in Run, f \in Frame : Advance(w, x, f)
    BY <1>4, ExecuteAdvances
  <2>2. Step(w, f) /\ f.at # "place"
    BY <2>1 DEF Advance, DailySteps
  <2>3. proc' \in [Workers -> Frame] /\ TickInv'
    BY <2>2, StepType DEF Step, TypeOK, TickInv
  <2>4. runs' \in [RunIds -> Run]
    BY <2>1 DEF Advance, TypeOK
  <2>5. lastDaily' \in 0 .. LastDay
    BY <2>1 DEF Advance, Keeps, Begins, Reports, Finishes, TypeOK, Frame
  <2>6. UNCHANGED <<clockVars, taskVars, last, crashes>>
    BY <2>1 DEF Advance
  <2> QED
    BY <2>3, <2>4, <2>5, <2>6 DEF TypeOK, clockVars, taskVars
<1>5. ASSUME NEW w \in Workers, NEW r \in RunIds, Fetch(w, r)
      PROVE  TypeOK' /\ TickInv'
  <2>1. PICK x \in Run, f \in Frame :
            runs' = [runs EXCEPT ![r] = x] /\ Step(w, f) /\ f.at = "start"
    BY <1>5, FetchMoves
  <2>2. proc' \in [Workers -> Frame] /\ TickInv'
    BY <2>1, StepType DEF Step, TypeOK, TickInv
  <2>3. runs' \in [RunIds -> Run]
    BY <2>1 DEF TypeOK
  <2> QED
    BY <1>5, <2>2, <2>3 DEF Fetch, TypeOK, clockVars, taskVars
<1> QED
  BY <1>1, <1>2, <1>3, <1>4, <1>5, TickType DEF Next

-----------------------------------------------------------------------------
(* One worker per run.                                                     *)

\* A tick, and a death, leave the worker without a run.
LEMMA TickFrames ==
    ASSUME TypeOK, NEW w \in Workers, TickStart(w) \/ Tick(w) \/ Crash(w)
    PROVE  \E f : Step(w, f) /\ f.at \in {"idle", "tick", "place"}
<1>1. CASE TickStart(w)
  <2> DEFINE f == [Idle EXCEPT !.at = "tick", !.today = day,
                     !.pending = {t \in Tasks :
                         /\ tasks[t].state = "on"
                         /\ tasks[t].schedule \in 0 .. minute}]
  <2>1. f.at = "tick"
    BY DEF Idle
  <2>2. Step(w, f)
    BY <1>1 DEF TickStart
  <2> HIDE DEF f
  <2> QED
    BY <2>1, <2>2
<1>2. ASSUME NEW t \in Tasks, Look(w, t)
      PROVE  \E f : Step(w, f) /\ f.at \in {"idle", "tick", "place"}
  <2>1. [proc[w] EXCEPT !.pending = @ \ {t}].at = "tick"
    BY <1>2 DEF Look, TypeOK, Frame
  <2>2. [proc[w] EXCEPT !.at = "place", !.task = t, !.seen = last[t]].at
          = "place"
    BY DEF TypeOK, Frame
  <2>3. CASE last[t] = proc[w].today
    BY <1>2, <2>1, <2>3 DEF Look
  <2>4. CASE last[t] # proc[w].today
    BY <1>2, <2>2, <2>4 DEF Look
  <2> QED
    BY <2>3, <2>4
<1>3. ASSUME NEW r \in RunIds, Place(w, r)
      PROVE  \E f : Step(w, f) /\ f.at \in {"idle", "tick", "place"}
  <2> DEFINE t == proc[w].task
             f == [proc[w] EXCEPT !.at = "tick", !.task = NoTask, !.seen = 0,
                                  !.pending = @ \ {t}]
  <2>1. Step(w, f)
    BY <1>3 DEF Place
  <2>2. f.at = "tick"
    BY DEF TypeOK, Frame
  <2> HIDE DEF f, t
  <2> QED
    BY <2>1, <2>2
<1>4. CASE Abort(w) \/ TickEnd(w) \/ Crash(w)
  BY <1>4 DEF Abort, TickEnd, Crash, Idle
<1> QED
  BY <1>1, <1>2, <1>3, <1>4 DEF Tick

\* Without a move, a worker that holds a run held it before, as it was.
LEMMA RunnersKept ==
    ASSUME TypeOK, RowsInv, TickInv, RunnerInv, [Next]_vars, ~Moves
    PROVE  \A v \in Workers : Holds(v)' =>
               Holds(v) /\ proc'[v] = proc[v] /\ Mine(v)' = Mine(v)
<1>1. \A v \in Workers : Holds(v)' => Holds(v) /\ proc'[v] = proc[v]
  <2>1. CASE UNCHANGED proc
    BY <2>1 DEF Holds
  <2>2. ASSUME NEW w \in Workers, TickStart(w) \/ Tick(w) \/ Crash(w)
        PROVE  \A v \in Workers : Holds(v)' => Holds(v) /\ proc'[v] = proc[v]
    <3>1. PICK f : Step(w, f) /\ f.at \in {"idle", "tick", "place"}
      BY <2>2, TickFrames
    <3> QED
      BY <3>1 DEF Step, TypeOK, Holds, DailySteps
  <2>3. Clock \/ User => UNCHANGED proc
    BY DEF Clock, User, ToggleAutomation, ToggleTask, CreateTask, SetTask,
           UpdateTaskSchedule, UpdateDailySchedule, EnqueueDaily
  <2> QED
    BY <2>1, <2>2, <2>3 DEF Next, vars, Moves
<1>2. \A v \in Workers : Holds(v) => runs'[proc[v].run] = runs[proc[v].run]
  <2>1. CASE Inserts
    <3>1. PICK r \in RunIds :
              Fresh(r) /\ \E x \in Run : runs' = [runs EXCEPT ![r] = x]
      BY <2>1, InsertFacts DEF Inserts
    <3>2. \A v \in Workers : Holds(v) =>
            proc[v].run \in RunIds /\ proc[v].run # r
      BY <3>1, MineFacts DEF Fresh, Mine
    <3> QED
      BY <3>1, <3>2 DEF TypeOK
  <2> QED
    BY <2>1, StepKinds
<1> QED
  BY <1>1, <1>2 DEF Mine

\* Worker w now holds r as x, and held r before or took a job to do.
LEMMA RunnerMoves ==
    ASSUME TypeOK, RunnerInv, NEW w \in Workers, NEW r \in RunIds,
           NEW x \in Run, NEW f \in Frame,
           runs' = [runs EXCEPT ![r] = x],
           Step(w, f),
           \A v \in Workers : v # w /\ Holds(v) => proc[v].run # r,
           \/ f.at = "idle"
           \/ /\ f.at \in {"start", "ended"} \cup DailySteps
              /\ f.run = r
              /\ x.job = "doing",
           f.at = "start" => x.status = "queued",
           f.at \in DailySteps => x.status = "running" /\ x.kind = Daily
    PROVE  RunnerInv'
<1>1. \A v \in Workers : proc'[v] = IF v = w THEN f ELSE proc[v]
  BY DEF Step, TypeOK
<1>2. \A s \in RunIds : runs'[s] = IF s = r THEN x ELSE runs[s]
  BY DEF TypeOK
<1>3. \A v \in Workers : v # w => Holds(v)' = Holds(v)
  BY <1>1 DEF Holds
<1>4. \A v \in Workers : v # w /\ Holds(v) =>
        proc[v].run \in RunIds /\ proc[v].run # r
  BY DEF RunnerInv
<1>5. \A v \in Workers : v # w /\ Holds(v) => Mine(v)' = Mine(v)
  BY <1>1, <1>2, <1>4 DEF Mine
<1>6. Holds(w)' => proc'[w].run = r /\ Mine(w)' = x /\ x.job = "doing"
  BY <1>1, <1>2 DEF Holds, Mine, DailySteps
<1>7. \A v \in Workers : Holds(v)' =>
        proc'[v].run \in RunIds /\ Mine(v)'.job = "doing"
  BY <1>1, <1>3, <1>4, <1>5, <1>6 DEF RunnerInv
<1>8. \A u, v \in Workers :
        u # v /\ Holds(u)' /\ Holds(v)' => proc'[u].run # proc'[v].run
  BY <1>1, <1>3, <1>4, <1>6 DEF RunnerInv
<1>9. \A v \in Workers :
        /\ proc'[v].at = "start" => Mine(v)'.status = "queued"
        /\ proc'[v].at \in DailySteps =>
              Mine(v)'.status = "running" /\ Mine(v)'.kind = Daily
  <2> SUFFICES ASSUME NEW v \in Workers
               PROVE  /\ proc'[v].at = "start" => Mine(v)'.status = "queued"
                      /\ proc'[v].at \in DailySteps =>
                            /\ Mine(v)'.status = "running"
                            /\ Mine(v)'.kind = Daily
    OBVIOUS
  <2>1. CASE v = w
    BY <1>1, <1>6, <2>1 DEF Holds
  <2>2. CASE v # w
    BY <1>1, <1>5, <2>2 DEF Holds, RunnerInv
  <2> QED
    BY <2>1, <2>2
<1> QED
  BY <1>7, <1>8, <1>9 DEF RunnerInv

LEMMA StepRunnerInv ==
    ASSUME TypeOK, RowsInv, TickInv, RunnerInv, [Next]_vars
    PROVE  RunnerInv'
<1>1. ASSUME NEW w \in Workers, Execute(w) PROVE RunnerInv'
  <2>1. PICK x \in Run, f \in Frame : Advance(w, x, f)
    BY <1>1, ExecuteAdvances
  <2> DEFINE r == proc[w].run
  <2>2. Holds(w) /\ r \in RunIds
    BY <2>1, MineFacts DEF Advance
  <2>3. \A v \in Workers : v # w /\ Holds(v) => proc[v].run # r
    BY <2>2 DEF RunnerInv
  <2>4. runs' = [runs EXCEPT ![r] = x] /\ Step(w, f)
    BY <2>1 DEF Advance
  <2>5. \/ f.at = "idle"
        \/ /\ f.at \in {"start", "ended"} \cup DailySteps
           /\ f.run = r
           /\ x.job = "doing"
    BY <2>1 DEF Advance
  <2>6. /\ f.at = "start" => x.status = "queued"
        /\ f.at \in DailySteps => x.status = "running" /\ x.kind = Daily
    BY <2>1 DEF Advance, DailySteps
  <2> HIDE DEF r
  <2> QED
    BY <2>2, <2>3, <2>4, <2>5, <2>6, RunnerMoves, ZenonT(30)
<1>2. ASSUME NEW w \in Workers, NEW r \in RunIds, Fetch(w, r) PROVE RunnerInv'
  <2>1. PICK x \in Run, f \in Frame :
              /\ runs' = [runs EXCEPT ![r] = x]
              /\ x.status = "queued" /\ x.job = "doing"
              /\ Step(w, f)
              /\ f.at = "start" /\ f.run = r
    BY <1>2, FetchMoves
  <2>2. \A v \in Workers : v # w /\ Holds(v) => proc[v].run # r
    BY <1>2 DEF Fetch, RunnerInv, Mine
  <2>3. f.at \notin DailySteps
    BY <2>1 DEF DailySteps
  <2> QED
    BY <2>1, <2>2, <2>3, RunnerMoves
<1>3. CASE ~Moves
  <2>1. \A v \in Workers : Holds(v)' =>
          Holds(v) /\ proc'[v] = proc[v] /\ Mine(v)' = Mine(v)
    BY <1>3, RunnersKept
  <2>2. \A v \in Workers :
          proc'[v].at = "start" \/ proc'[v].at \in DailySteps => Holds(v)'
    BY DEF Holds
  <2> QED
    BY <2>1, <2>2 DEF RunnerInv
<1> QED
  BY <1>1, <1>2, <1>3 DEF Moves

-----------------------------------------------------------------------------
(* The day.                                                                *)

\* A run of a kind is active only if no later run of the kind exists.
LEMMA OneDaily ==
    ASSUME TypeOK, RowsInv, RunnerInv
    PROVE  OneDailyAtATime
<1> SUFFICES ASSUME NEW v \in Workers, NEW w \in Workers, v # w,
                    proc[v].at \in DailySteps, proc[w].at \in DailySteps
             PROVE  FALSE
  BY DEF OneDailyAtATime
<1>1. Holds(v) /\ Holds(w)
  BY DEF Holds
<1>2. /\ Mine(v).status = "running" /\ Mine(v).kind = Daily
      /\ Mine(w).status = "running" /\ Mine(w).kind = Daily
  BY DEF RunnerInv
<1>3. proc[v].run \in RunIds /\ proc[w].run \in RunIds
      /\ proc[v].run # proc[w].run
  BY <1>1 DEF RunnerInv
<1>4. \A a, b \in Nat : a # b => a < b \/ b < a
  OBVIOUS
<1>5. proc[v].run < proc[w].run \/ proc[w].run < proc[v].run
  BY <1>3, <1>4, Constants
<1> QED
  BY <1>2, <1>3, <1>5 DEF RowsInv, Mine, Running

LEMMA DayTypes ==
    ASSUME TypeOK
    PROVE  /\ day \in Nat /\ day # 0 /\ lastDaily \in Nat
           /\ \A w \in Workers : proc[w].today \in Nat
           /\ \A r \in RunIds : runs[r].brief \in Nat /\ runs[r].slot \in Nat
<1>1. day \in Nat /\ day # 0
  BY AutomationAssumption DEF TypeOK, Days
<1>2. lastDaily \in Nat
  BY Constants DEF TypeOK
<1>3. \A w \in Workers : proc[w].today \in Nat
  BY Constants DEF TypeOK, Frame
<1>4. \A r \in RunIds : runs[r].brief \in Nat /\ runs[r].slot \in Nat
  BY Constants DEF TypeOK, Run
<1> QED
  BY <1>1, <1>2, <1>3, <1>4

LEMMA DayQuiet ==
    ASSUME TypeOK, TypeOK', RowsInv, TickInv, RunnerInv, DayInv,
           [Next]_vars, ~Moves
    PROVE  DayInv'
<1>1. day <= day' /\ day' \in Nat /\ lastDaily' = lastDaily
  <2>1. day' \in Nat
    BY AutomationAssumption DEF TypeOK, Days
  <2>2. lastDaily' = lastDaily
    BY DEF Next, Moves, vars, Clock, User, ToggleAutomation, ToggleTask,
       CreateTask, SetTask, UpdateTaskSchedule, UpdateDailySchedule,
       EnqueueDaily, TickStart, Tick, Look, Place, Abort, TickEnd, Crash
  <2>3. day' = day \/ day' = day + 1
    BY DEF Next, Moves, vars, Clock, User, ToggleAutomation, ToggleTask,
       CreateTask, SetTask, UpdateTaskSchedule, UpdateDailySchedule,
       EnqueueDaily, TickStart, Tick, Look, Place, Abort, TickEnd, Crash,
       clockVars
  <2> QED
    BY <2>1, <2>2, <2>3, DayTypes
<1>2. \A v \in Workers : Holds(v)' =>
          Holds(v) /\ proc'[v] = proc[v] /\ Mine(v)' = Mine(v)
  BY RunnersKept
<1>3. \A v \in Workers : proc'[v].at \in DailySteps => Holds(v)'
  BY DEF Holds
<1>4. \A r \in RunIds : runs'[r].status \in Completed => runs'[r] = runs[r]
  <2>1. CASE Inserts
    <3>1. PICK r \in RunIds : \E x \in Run :
              runs' = [runs EXCEPT ![r] = x] /\ x.status = "queued"
      BY <2>1, InsertFacts DEF Inserts
    <3> QED
      BY <3>1 DEF TypeOK, Completed
  <2> QED
    BY <2>1, StepKinds
<1>5. lastDaily' <= day'
  BY <1>1, DayTypes DEF DayInv
<1>6. \A v \in Workers : proc'[v].at \in {"brief", "extras"} =>
          /\ proc'[v].today # 0
          /\ proc'[v].today <= day'
          /\ lastDaily' <= proc'[v].today
          /\ Mine(v)'.slot # 0 => lastDaily' < proc'[v].today
  <2>1. \A v \in Workers : proc'[v].at \in {"brief", "extras"} =>
          proc'[v] = proc[v] /\ Mine(v)' = Mine(v)
    BY <1>2, <1>3 DEF DailySteps
  <2> QED
    BY <1>1, <2>1, DayTypes DEF DayInv
<1>7. \A v \in Workers :
        /\ proc'[v].at \in {"guard", "brief"} => Mine(v)'.brief = 0
        /\ proc'[v].at = "extras" => Mine(v)'.brief = proc'[v].today
  BY <1>2, <1>3 DEF DayInv, DailySteps
<1>8. \A r \in RunIds : runs'[r].status \in Completed =>
          runs'[r].brief <= lastDaily'
  BY <1>1, <1>4 DEF DayInv
<1> QED
  BY <1>5, <1>6, <1>7, <1>8 DEF DayInv

LEMMA DayAdvance ==
    ASSUME TypeOK, RowsInv, RunnerInv, DayInv, NEW w \in Workers,
           NEW x \in Run, NEW f \in Frame, Advance(w, x, f)
    PROVE  DayInv'
<1> DEFINE r == proc[w].run
<1>1. /\ Holds(w) /\ r \in RunIds /\ Mine(w) \in Run /\ runs[r] = Mine(w)
  BY MineFacts DEF Advance, Mine
<1>2. \A v \in Workers : proc'[v] = IF v = w THEN f ELSE proc[v]
  BY DEF Advance, Step, TypeOK
<1>3. \A s \in RunIds : runs'[s] = IF s = r THEN x ELSE runs[s]
  BY DEF Advance, TypeOK
<1>4. \A v \in Workers : v # w /\ proc[v].at \in DailySteps =>
        Mine(v)' = Mine(v)
  <2>1. \A v \in Workers : v # w /\ proc[v].at \in DailySteps =>
          proc[v].run \in RunIds /\ proc[v].run # r
    BY <1>1 DEF RunnerInv, Holds
  <2> QED
    BY <1>2, <1>3, <2>1 DEF Mine
<1>5. f.at \in DailySteps => Mine(w)' = x
  BY <1>1, <1>2, <1>3 DEF Advance, Mine, DailySteps
<1>6. day' = day /\ x.slot = Mine(w).slot
  BY <1>1 DEF Advance, Progress, clockVars
<1> HIDE DEF r
<1>7. /\ proc[w].at \in {"brief", "extras"} =>
            /\ proc[w].today # 0
            /\ proc[w].today <= day
            /\ lastDaily <= proc[w].today
            /\ Mine(w).slot # 0 => lastDaily < proc[w].today
      /\ proc[w].at \in {"guard", "brief"} => Mine(w).brief = 0
      /\ proc[w].at = "extras" => Mine(w).brief = proc[w].today
  BY DEF DayInv
<1>8. Keeps(w, x, f) \/ Begins(w, x, f) \/ Reports(w, x, f) \/ Finishes(w, x, f)
  BY DEF Advance
<1>9. lastDaily <= day
  BY DEF DayInv
<1>10. lastDaily' <= day' /\ lastDaily <= lastDaily' /\ lastDaily' \in Nat
  BY <1>6, <1>7, <1>8, <1>9, DayTypes DEF Keeps, Begins, Reports, Finishes
<1>11. \A v \in Workers : v # w /\ proc[v].at \in DailySteps =>
         lastDaily' = lastDaily
  BY <1>8, OneDaily
     DEF OneDailyAtATime, DailySteps, Keeps, Begins, Reports, Finishes
<1>12. \A v \in Workers : proc'[v].at \in {"brief", "extras"} =>
         /\ proc'[v].today # 0
         /\ proc'[v].today <= day'
         /\ lastDaily' <= proc'[v].today
         /\ Mine(v)'.slot # 0 => lastDaily' < proc'[v].today
  <2>1. ASSUME NEW v \in Workers, v # w, proc'[v].at \in {"brief", "extras"}
        PROVE  /\ proc'[v].today # 0
               /\ proc'[v].today <= day'
               /\ lastDaily' <= proc'[v].today
               /\ Mine(v)'.slot # 0 => lastDaily' < proc'[v].today
    <3>1. proc'[v] = proc[v] /\ lastDaily' = lastDaily /\ Mine(v)' = Mine(v)
      BY <1>2, <1>4, <1>11, <2>1 DEF DailySteps
    <3> QED
      BY <1>6, <2>1, <3>1 DEF DayInv
  <2>2. ASSUME f.at \in {"brief", "extras"}
        PROVE  /\ f.today # 0
               /\ f.today <= day
               /\ lastDaily' <= f.today
               /\ Mine(w).slot # 0 => lastDaily' < f.today
    <3>1. CASE Begins(w, x, f)
      BY <1>6, <1>9, <3>1, DayTypes DEF Begins
    <3>2. CASE Reports(w, x, f)
      BY <1>7, <3>2 DEF Reports
    <3> QED
      BY <1>8, <2>2, <3>1, <3>2 DEF Keeps, Finishes
  <2>3. proc'[w] = f
    BY <1>2
  <2>4. proc'[w].at \in {"brief", "extras"} =>
          /\ proc'[w].today # 0
          /\ proc'[w].today <= day'
          /\ lastDaily' <= proc'[w].today
          /\ Mine(w)'.slot # 0 => lastDaily' < proc'[w].today
    BY <1>5, <1>6, <2>2, <2>3 DEF DailySteps
  <2> QED
    BY <2>1, <2>4
<1>13. \A v \in Workers :
         /\ proc'[v].at \in {"guard", "brief"} => Mine(v)'.brief = 0
         /\ proc'[v].at = "extras" => Mine(v)'.brief = proc'[v].today
  <2>1. ASSUME NEW v \in Workers, v # w
        PROVE  /\ proc'[v].at \in {"guard", "brief"} => Mine(v)'.brief = 0
               /\ proc'[v].at = "extras" => Mine(v)'.brief = proc'[v].today
    BY <1>2, <1>4, <2>1 DEF DayInv, DailySteps
  <2>2. /\ f.at \in {"guard", "brief"} => x.brief = 0
        /\ f.at = "extras" => x.brief = f.today
    BY <1>1, <1>7, <1>8 DEF Keeps, Begins, Reports, Finishes, RowsInv
  <2>3. /\ proc'[w].at \in {"guard", "brief"} => Mine(w)'.brief = 0
        /\ proc'[w].at = "extras" => Mine(w)'.brief = proc'[w].today
    BY <1>2, <1>5, <2>2 DEF DailySteps
  <2> QED
    BY <2>1, <2>3
<1>14. \A s \in RunIds : runs'[s].status \in Completed =>
         runs'[s].brief <= lastDaily'
  <2>1. x.status \in Completed => x.brief <= lastDaily'
    <3>1. CASE Keeps(w, x, f) /\ proc[w].at = "guard"
      BY <1>7, <1>10, <3>1 DEF Keeps
    <3>2. CASE Keeps(w, x, f) /\ Mine(w).status = x.status
      BY <1>1, <3>2 DEF Keeps, DayInv
    <3>3. CASE Begins(w, x, f)
      BY <1>1, <3>3 DEF Begins, DayInv
    <3>4. CASE Reports(w, x, f)
      BY <3>4 DEF Reports, Completed
    <3>5. CASE Finishes(w, x, f)
      BY <1>7, <1>10, <3>5 DEF Finishes
    <3> QED
      BY <1>8, <3>1, <3>2, <3>3, <3>4, <3>5 DEF Keeps
  <2>2. \A s \in RunIds : runs[s].status \in Completed =>
          runs[s].brief <= lastDaily'
    BY <1>10, DayTypes DEF DayInv
  <2> QED
    BY <1>3, <2>1, <2>2
<1> QED
  BY <1>10, <1>12, <1>13, <1>14 DEF DayInv

LEMMA DayFetch ==
    ASSUME TypeOK, RowsInv, RunnerInv, DayInv, NEW w \in Workers,
           NEW r \in RunIds, Fetch(w, r)
    PROVE  DayInv'
<1>1. PICK x \in Run, f \in Frame :
          /\ runs' = [runs EXCEPT ![r] = x]
          /\ x.status = "queued"
          /\ Step(w, f)
          /\ f.at = "start"
  BY FetchMoves
<1>2. \A v \in Workers : proc'[v] = IF v = w THEN f ELSE proc[v]
  BY <1>1 DEF Step, TypeOK
<1>3. \A s \in RunIds : runs'[s] = IF s = r THEN x ELSE runs[s]
  BY <1>1 DEF TypeOK
<1>4. runs[r].job = "todo"
  BY DEF Fetch
<1>5. \A v \in Workers : proc'[v].at \in DailySteps =>
        proc'[v] = proc[v] /\ Mine(v)' = Mine(v)
  <2>1. \A v \in Workers : proc'[v].at \in DailySteps => proc'[v] = proc[v]
    BY <1>1, <1>2 DEF DailySteps
  <2>2. \A v \in Workers : proc[v].at \in DailySteps =>
          proc[v].run \in RunIds /\ proc[v].run # r
    BY <1>4 DEF RunnerInv, Holds, Mine
  <2> QED
    BY <1>3, <2>1, <2>2 DEF Mine
<1>6. UNCHANGED <<day, lastDaily>>
  BY DEF Fetch, clockVars
<1>7. \A s \in RunIds : runs'[s].status \in Completed =>
        runs'[s].brief <= lastDaily'
  BY <1>1, <1>3, <1>6 DEF DayInv, Completed
<1>8. \A v \in Workers : proc'[v].at \in {"guard", "brief", "extras"} =>
        proc'[v] = proc[v] /\ Mine(v)' = Mine(v)
  BY <1>5 DEF DailySteps
<1>9. \A v \in Workers : proc'[v].at \in {"brief", "extras"} =>
        /\ proc'[v].today # 0
        /\ proc'[v].today <= day'
        /\ lastDaily' <= proc'[v].today
        /\ Mine(v)'.slot # 0 => lastDaily' < proc'[v].today
  BY <1>6, <1>8 DEF DayInv
<1>10. \A v \in Workers :
         /\ proc'[v].at \in {"guard", "brief"} => Mine(v)'.brief = 0
         /\ proc'[v].at = "extras" => Mine(v)'.brief = proc'[v].today
  BY <1>8 DEF DayInv
<1>11. lastDaily' <= day'
  BY <1>6 DEF DayInv
<1> QED
  BY <1>7, <1>9, <1>10, <1>11 DEF DayInv

LEMMA StepDayInv ==
    ASSUME TypeOK, TypeOK', RowsInv, TickInv, RunnerInv, DayInv, [Next]_vars
    PROVE  DayInv'
BY DayQuiet, DayFetch, DayAdvance, ExecuteAdvances DEF Moves

-----------------------------------------------------------------------------
(* Placeholders, the day mark, and reports of a completed day.             *)

\* What no step takes back.
LEMMA RowsStay ==
    ASSUME TypeOK, RowsInv, TickInv, RunnerInv, [Next]_vars, NEW s \in RunIds
    PROVE  /\ runs[s].slot # 0 => runs'[s].task = runs[s].task
                                  /\ runs'[s].slot = runs[s].slot
           /\ runs[s].status \in Completed =>
                 runs'[s].status = runs[s].status
                 /\ runs'[s].brief = runs[s].brief
<1>1. CASE Inserts
  <2>1. PICK r \in RunIds :
            Fresh(r) /\ \E x \in Run : runs' = [runs EXCEPT ![r] = x]
    BY <1>1, InsertFacts DEF Inserts
  <2>2. runs[r].status = "absent" /\ runs[r].slot = 0
    BY <2>1 DEF Fresh, RowsInv, AbsentRun
  <2> QED
    BY <2>1, <2>2 DEF TypeOK, Completed
<1>2. ASSUME NEW w \in Workers, NEW r \in RunIds, Fetch(w, r)
      PROVE  /\ runs[s].slot # 0 => runs'[s].task = runs[s].task
                                    /\ runs'[s].slot = runs[s].slot
             /\ runs[s].status \in Completed =>
                   runs'[s].status = runs[s].status
                   /\ runs'[s].brief = runs[s].brief
  <2>1. PICK x \in Run : Progress(r, x) /\ runs' = [runs EXCEPT ![r] = x]
    BY <1>2, FetchMoves
  <2>2. runs[r].status = "queued"
    BY <1>2 DEF Fetch, RowsInv
  <2> QED
    BY <2>1, <2>2 DEF TypeOK, Progress, Completed
<1>3. ASSUME NEW w \in Workers, Execute(w)
      PROVE  /\ runs[s].slot # 0 => runs'[s].task = runs[s].task
                                    /\ runs'[s].slot = runs[s].slot
             /\ runs[s].status \in Completed =>
                   runs'[s].status = runs[s].status
                   /\ runs'[s].brief = runs[s].brief
  <2>1. PICK x \in Run, f \in Frame : Advance(w, x, f)
    BY <1>3, ExecuteAdvances
  <2>2. runs'[s] = IF s = proc[w].run THEN x ELSE runs[s]
    BY <2>1 DEF Advance, TypeOK
  <2> QED
    BY <2>1, <2>2 DEF Advance, Progress, Mine, Completed, Running
<1> QED
  BY <1>1, <1>2, <1>3, StepKinds DEF Moves

LEMMA StepPlaceholder ==
    ASSUME TypeOK, RowsInv, TickInv, RunnerInv, PlaceholderHasRun, [Next]_vars
    PROVE  PlaceholderHasRun'
<1> SUFFICES ASSUME NEW t \in Tasks, last'[t] # 0
             PROVE  \E r \in RunIds : runs'[r].task = t
                                      /\ runs'[r].slot = last'[t]
  BY DEF PlaceholderHasRun
<1>1. CASE last'[t] = last[t]
  <2>1. PICK r \in RunIds : runs[r].task = t /\ runs[r].slot = last[t]
    BY <1>1 DEF PlaceholderHasRun
  <2> QED
    BY <1>1, <2>1, RowsStay
<1>2. ASSUME NEW w \in Workers, NEW r \in RunIds, Place(w, r)
      PROVE  \E q \in RunIds : runs'[q].task = t /\ runs'[q].slot = last'[t]
  <2>1. last'[t] = IF t = proc[w].task THEN proc[w].today ELSE last[t]
    BY <1>2 DEF Place, TypeOK
  <2>2. runs'[r] = NewRun(proc[w].task, Kind(proc[w].task), proc[w].today)
    BY <1>2 DEF Place, TypeOK
  <2>3. runs'[r].task = proc[w].task /\ runs'[r].slot = proc[w].today
    BY <2>2, NewRunFields
  <2> QED
    BY <1>1, <2>1, <2>3
<1>3. (\E w \in Workers, r \in RunIds : Place(w, r)) \/ UNCHANGED last
  <2>1. ASSUME NEW w \in Workers, Execute(w) PROVE UNCHANGED last
    BY <2>1, ExecuteAdvances DEF Advance
  <2> QED
    BY <2>1 DEF Next, vars, Clock, User, ToggleAutomation, ToggleTask, CreateTask,
       SetTask, UpdateTaskSchedule, UpdateDailySchedule, EnqueueDaily,
       TickStart, Tick, Look, Abort, TickEnd, Crash, Fetch
<1> QED
  BY <1>1, <1>2, <1>3

LEMMA StepDailyMark ==
    ASSUME TypeOK, RowsInv, TickInv, RunnerInv, DayInv, DailyMarkHasReport,
           [Next]_vars
    PROVE  DailyMarkHasReport'
<1>1. CASE lastDaily' = lastDaily
  BY <1>1, RowsStay DEF DailyMarkHasReport
<1>2. ASSUME NEW w \in Workers, Execute(w), lastDaily' # lastDaily
      PROVE  DailyMarkHasReport'
  <2>1. PICK x \in Run, f \in Frame : Advance(w, x, f)
    BY <1>2, ExecuteAdvances
  <2>2. Finishes(w, x, f)
    BY <1>2, <2>1 DEF Advance, Keeps, Begins, Reports
  <2>3. proc[w].run \in RunIds
    BY <2>1, MineFacts DEF Advance
  <2>4. runs'[proc[w].run] = x
    BY <2>1, <2>3 DEF Advance, TypeOK
  <2>5. x.brief = lastDaily' /\ x.status \in Completed
    BY <2>2 DEF Finishes, DayInv
  <2> QED
    BY <2>3, <2>4, <2>5 DEF DailyMarkHasReport
<1>3. (\E w \in Workers : Execute(w)) \/ lastDaily' = lastDaily
  BY DEF Next, vars, Clock, User, ToggleAutomation, ToggleTask, CreateTask,
     SetTask, UpdateTaskSchedule, UpdateDailySchedule, EnqueueDaily,
     TickStart, Tick, Look, Place, Abort, TickEnd, Crash, Fetch
<1> QED
  BY <1>1, <1>2, <1>3

LEMMA StepNoReport ==
    ASSUME TypeOK, RowsInv, TickInv, RunnerInv, DayInv,
           NoReportAfterCompletion, [Next]_vars
    PROVE  NoReportAfterCompletion'
<1> DEFINE Later(q, r) == /\ q < r
                          /\ runs[q].brief = runs[r].brief
                          /\ runs[r].brief # 0
                          /\ runs[r].slot # 0
<1>1. \A q, r \in RunIds : Later(q, r) => runs[q].status \notin Completed
  BY DEF NoReportAfterCompletion
<1>2. ASSUME \A s \in RunIds :
               \/ runs'[s].brief = 0
               \/ /\ runs'[s].brief = runs[s].brief
                  /\ runs'[s].slot = runs[s].slot
                  /\ runs'[s].status \in Completed =>
                        runs[s].status \in Completed
      PROVE  NoReportAfterCompletion'
  <2> SUFFICES ASSUME NEW q \in RunIds, NEW r \in RunIds, q < r,
                      runs'[q].brief = runs'[r].brief,
                      runs'[r].brief # 0, runs'[r].slot # 0,
                      runs'[q].status \in Completed
               PROVE  FALSE
    BY DEF NoReportAfterCompletion
  <2> QED
    BY <1>1, <1>2
<1>3. CASE Inserts
  <2>1. PICK r \in RunIds, x \in Run :
            runs' = [runs EXCEPT ![r] = x] /\ x.brief = 0
    BY <1>3, InsertFacts DEF Inserts
  <2>2. \A s \in RunIds : runs'[s].brief = 0 \/ runs'[s] = runs[s]
    BY <2>1 DEF TypeOK
  <2> QED
    BY <1>2, <2>2
<1>4. CASE UNCHANGED runs
  BY <1>2, <1>4
<1>5. ASSUME NEW w \in Workers, NEW r \in RunIds, Fetch(w, r)
      PROVE  NoReportAfterCompletion'
  <2>1. PICK x \in Run : runs' = [runs EXCEPT ![r] = x] /\ x.brief = 0
    BY <1>5, FetchMoves
  <2>2. \A s \in RunIds : runs'[s].brief = 0 \/ runs'[s] = runs[s]
    BY <2>1 DEF TypeOK
  <2> QED
    BY <1>2, <2>2
<1>6. ASSUME NEW w \in Workers, Execute(w) PROVE NoReportAfterCompletion'
  <2>1. PICK x \in Run, f \in Frame : Advance(w, x, f)
    BY <1>6, ExecuteAdvances
  <2> DEFINE m == proc[w].run
  <2>2. /\ m \in RunIds /\ runs[m] = Mine(w) /\ runs[m] \in Run
    BY <2>1, MineFacts DEF Advance, Mine
  <2>3. \A s \in RunIds : runs'[s] = IF s = m THEN x ELSE runs[s]
    BY <2>1 DEF Advance, TypeOK
  <2>4. /\ x.slot = runs[m].slot /\ x.kind = runs[m].kind
    BY <2>1 DEF Advance, Progress
  <2>5. Keeps(w, x, f) \/ Begins(w, x, f) \/ Reports(w, x, f)
          \/ Finishes(w, x, f)
    BY <2>1 DEF Advance
  <2>6. Mine(w).status \notin Running =>
          x.status = Mine(w).status /\ x.brief = Mine(w).brief
    BY <2>1 DEF Advance
  <2> HIDE DEF m
  <2>7. SUFFICES ASSUME NEW q \in RunIds, NEW r \in RunIds, q < r,
                        runs'[q].brief = runs'[r].brief,
                        runs'[r].brief # 0, runs'[r].slot # 0,
                        runs'[q].status \in Completed
                 PROVE  FALSE
    BY DEF NoReportAfterCompletion
  <2>8. q # r
    BY <2>7, Constants
  <2>9. CASE q = m /\ runs[q].status \in Running
    \* q completes while a later run of its kind exists
    <3>1. runs'[r] = runs[r] /\ x.brief # 0
      BY <2>3, <2>7, <2>8, <2>9
    <3>2. runs[r].status # "absent"
      BY <2>7, <3>1 DEF RowsInv, AbsentRun
    <3>3. runs[r].kind = Daily
      BY <2>7, <3>1 DEF RowsInv
    <3>4. runs[q].kind = Daily
      BY <2>1, <2>2, <2>4, <2>9, <3>1 DEF Advance, Progress, RowsInv, m
    <3> QED
      BY <2>7, <2>9, <3>2, <3>3, <3>4 DEF RowsInv
  <2>10. \/ runs[q].status \in Completed /\ runs[q].brief = runs'[q].brief
         \/ q = m /\ runs[q].status \in Running
    BY <2>2, <2>3, <2>6, <2>7
  <2>11. CASE r = m /\ runs[q].status \in Completed
              /\ runs[q].brief = runs'[q].brief
    <3>1. runs'[r] = x /\ x.slot = runs[r].slot
      BY <2>3, <2>4, <2>11
    <3>2. CASE Reports(w, x, f)
      \* r reports a day that q completed before
      <4>1. lastDaily < proc[w].today
        BY <2>2, <2>7, <2>11, <3>1, <3>2 DEF Reports, DayInv
      <4>2. runs[q].brief = proc[w].today
        BY <2>7, <2>11, <3>1, <3>2 DEF Reports
      <4>3. runs[q].brief <= lastDaily
        BY <2>11 DEF DayInv
      <4> QED
        BY <4>1, <4>2, <4>3, DayTypes
    <3>3. CASE x.brief = runs[r].brief
      BY <1>1, <2>7, <2>11, <3>1, <3>3
    <3> QED
      BY <2>2, <2>5, <2>11, <3>2, <3>3 DEF Keeps, Begins, Finishes
  <2>12. CASE r # m /\ runs[q].status \in Completed
              /\ runs[q].brief = runs'[q].brief
    BY <1>1, <2>3, <2>7, <2>12
  <2> QED
    BY <2>9, <2>10, <2>11, <2>12
<1> QED
  BY <1>3, <1>4, <1>5, <1>6, StepKinds DEF Moves

-----------------------------------------------------------------------------
(* The theorems.                                                           *)

LEMMA StepAutomationInv ==
    ASSUME AutomationInv, [Next]_vars
    PROVE  AutomationInv'
<1>1. /\ TypeOK /\ RowsInv /\ TickInv /\ RunnerInv /\ DayInv
      /\ PlaceholderHasRun /\ DailyMarkHasReport /\ NoReportAfterCompletion
  BY DEF AutomationInv
<1>2. TypeOK' /\ TickInv'
  BY <1>1, StepTypeOK
<1>3. RowsInv' /\ RunnerInv'
  BY <1>1, StepRowsInv, StepRunnerInv
<1>4. DayInv'
  BY <1>1, <1>2, StepDayInv
<1>5. PlaceholderHasRun' /\ DailyMarkHasReport' /\ NoReportAfterCompletion'
  BY <1>1, StepPlaceholder, StepDailyMark, StepNoReport
<1> QED
  BY <1>2, <1>3, <1>4, <1>5 DEF AutomationInv

\* Every reachable state of the automation satisfies the invariant: rows in
\* order, one worker per run, and the days a daily job may still write.
THEOREM AutomationSafety == Spec => []AutomationInv
<1>1. Init => AutomationInv
  BY InitAutomationInv
<1>2. AutomationInv /\ [Next]_vars => AutomationInv'
  BY StepAutomationInv
<1> QED
  BY <1>1, <1>2, PTL DEF Spec

\* The state of clock, tasks, runs and workers keeps its types.
THEOREM AutomationTypeOK == Spec => []TypeOK
<1>1. AutomationInv => TypeOK
  BY DEF AutomationInv
<1> QED
  BY <1>1, AutomationSafety, PTL

\* A day's slot of a task is used up only together with a run for it,
\* whatever the tick's transaction and the workers' deaths do.
THEOREM SlotHasRun == Spec => []PlaceholderHasRun
<1>1. AutomationInv => PlaceholderHasRun
  BY DEF AutomationInv
<1> QED
  BY <1>1, AutomationSafety, PTL

\* lastDailyRun names a day for which a completed run made a report.
THEOREM DayMarkHasReport == Spec => []DailyMarkHasReport
<1>1. AutomationInv => DailyMarkHasReport
  BY DEF AutomationInv
<1> QED
  BY <1>1, AutomationSafety, PTL

\* No later scheduled run reports again a day a run has completed.
THEOREM NoSecondReport == Spec => []NoReportAfterCompletion
<1>1. AutomationInv => NoReportAfterCompletion
  BY DEF AutomationInv
<1> QED
  BY <1>1, AutomationSafety, PTL

\* Never are two workers inside the daily job.
THEOREM DailyJobsApart == Spec => []OneDailyAtATime
<1>1. AutomationInv => OneDailyAtATime
  BY OneDaily DEF AutomationInv
<1> QED
  BY <1>1, AutomationSafety, PTL

\* lastDailyRun never goes back, although a job writes the day it read at
\* its start.
THEOREM DayMarkMovesForward == Spec => LastDailyRunNeverGoesBack
<1>1. ASSUME AutomationInv, [Next]_vars PROVE [lastDaily' >= lastDaily]_vars
  <2>1. TypeOK /\ RowsInv /\ RunnerInv /\ DayInv
    BY <1>1 DEF AutomationInv
  <2>2. ASSUME NEW w \in Workers, Execute(w) PROVE lastDaily' >= lastDaily
    <3>1. PICK x \in Run, f \in Frame : Advance(w, x, f)
      BY <2>1, <2>2, ExecuteAdvances
    <3>2. lastDaily' = lastDaily \/ Finishes(w, x, f)
      BY <3>1 DEF Advance, Keeps, Begins, Reports
    <3>3. CASE lastDaily' = lastDaily
      BY <2>1, <3>3, DayTypes
    <3>4. CASE Finishes(w, x, f)
      BY <2>1, <3>4, DayTypes DEF Finishes, DayInv
    <3> QED
      BY <3>2, <3>3, <3>4
  <2>3. (\E w \in Workers : Execute(w)) \/ lastDaily' = lastDaily
    BY <1>1 DEF Next, vars, Clock, User, ToggleAutomation, ToggleTask,
       CreateTask, SetTask, UpdateTaskSchedule, UpdateDailySchedule,
       EnqueueDaily, TickStart, Tick, Look, Place, Abort, TickEnd, Crash, Fetch
  <2>4. lastDaily' = lastDaily => lastDaily' >= lastDaily
    BY <2>1, DayTypes
  <2> QED
    BY <2>2, <2>3, <2>4
<1> QED
  BY <1>1, AutomationSafety, PTL DEF Spec, LastDailyRunNeverGoesBack

-----------------------------------------------------------------------------
(* One scheduled run of a task per day, with one worker.                   *)

\* A step that places no run: it adds no slot and moves no placeholder.
LEMMA SlotsKept ==
    ASSUME TypeOK, SlotsInv, OneScheduledRunPerDay,
           UNCHANGED last, day' \in Days, day <= day',
           \A v \in Workers : proc'[v].at \in TickSteps => proc'[v] = proc[v],
           \A r \in RunIds : runs'[r].slot # 0 =>
               runs'[r].slot = runs[r].slot /\ runs'[r].task = runs[r].task
    PROVE  SlotsInv' /\ OneScheduledRunPerDay'
<1>1. /\ day \in Nat /\ day' \in Nat
      /\ \A t \in Tasks : last[t] \in Nat
      /\ \A w \in Workers : proc[w].today \in Nat
  BY Constants DEF TypeOK, Days, Frame
<1>2. \A t \in Tasks : last'[t] <= day'
  BY <1>1 DEF SlotsInv
<1>3. \A r \in RunIds : runs'[r].slot # 0 =>
        runs'[r].task \in Tasks /\ runs'[r].slot <= last'[runs'[r].task]
  BY DEF SlotsInv
<1>4. \A w \in Workers : proc'[w].at \in TickSteps =>
        /\ proc'[w].today <= day'
        /\ \A t \in Tasks : last'[t] <= proc'[w].today
        /\ proc'[w].at = "place" => last'[proc'[w].task] # proc'[w].today
  BY <1>1 DEF SlotsInv
<1>5. \A w \in Workers :
        proc'[w].at = "place" => last'[proc'[w].task] # proc'[w].today
  BY <1>4 DEF TickSteps
<1>6. OneScheduledRunPerDay'
  BY DEF OneScheduledRunPerDay
<1> QED
  BY <1>2, <1>3, <1>4, <1>5, <1>6 DEF SlotsInv

\* The placeholder is compared with the day of the tick, and nobody else
\* moves it before the run is placed: the new slot is a later day.
LEMMA SlotsPlaced ==
    ASSUME \A v, w \in Workers : v = w,
           TypeOK, TickInv, SlotsInv, OneScheduledRunPerDay,
           NEW w \in Workers, NEW r \in RunIds, Place(w, r)
    PROVE  SlotsInv' /\ OneScheduledRunPerDay'
<1> DEFINE u == proc[w].task
           d == proc[w].today
<1>1. /\ u \in Tasks /\ d \in Nat /\ day \in Nat /\ day' = day
      /\ \A t \in Tasks : last[t] \in Nat
  BY Constants DEF TypeOK, Days, Frame, TickInv, Place, clockVars
<1>2. d <= day /\ last[u] < d /\ \A t \in Tasks : last[t] <= d
  BY <1>1 DEF SlotsInv, Place, TickSteps
<1>3. \A t \in Tasks : last'[t] = IF t = u THEN d ELSE last[t]
  BY DEF Place, TypeOK
<1>4. /\ runs'[r].task = u /\ runs'[r].slot = d
      /\ \A s \in RunIds \ {r} : runs'[s] = runs[s]
  BY NewRunFields DEF Place, TypeOK
<1>5. proc'[w].at = "tick" /\ proc'[w].today = d
  BY DEF Place, Step, TypeOK, Frame
<1> HIDE DEF u, d
<1>6. \A t \in Tasks : last'[t] <= day' /\ last'[t] <= d /\ last[t] <= last'[t]
  BY <1>1, <1>2, <1>3
<1>7. ASSUME NEW s \in RunIds, runs'[s].slot # 0
      PROVE  runs'[s].task \in Tasks /\ runs'[s].slot <= last'[runs'[s].task]
  <2>1. CASE s = r
    BY <1>1, <1>3, <1>4, <2>1
  <2>2. CASE s # r
    <3>1. /\ runs[s].task \in Tasks /\ runs[s].slot <= last[runs[s].task]
          /\ runs[s].slot \in Nat
      BY <1>4, <1>7, <2>2, Constants DEF SlotsInv, TypeOK, Run
    <3>2. last'[runs[s].task] \in Nat /\ last[runs[s].task] <= last'[runs[s].task]
      BY <1>1, <1>3, <1>6, <3>1
    <3> QED
      BY <1>1, <1>4, <2>2, <3>1, <3>2
  <2> QED
    BY <2>1, <2>2
<1>8. \A s \in RunIds \ {r} : ~(runs[s].task = u /\ runs[s].slot = d /\ d # 0)
  BY <1>1, <1>2 DEF SlotsInv
<1>9. OneScheduledRunPerDay'
  BY <1>4, <1>8 DEF OneScheduledRunPerDay
<1>10. \A v \in Workers : proc'[v].today = d /\ proc'[v].at = "tick"
  BY <1>5
<1>11. SlotsInv'
  BY <1>1, <1>2, <1>6, <1>7, <1>10 DEF SlotsInv
<1> QED
  BY <1>9, <1>11

LEMMA StepSlots ==
    ASSUME \A v, w \in Workers : v = w,
           AutomationInv, SlotsInv, OneScheduledRunPerDay, [Next]_vars
    PROVE  SlotsInv' /\ OneScheduledRunPerDay'
<1>1. TypeOK /\ RowsInv /\ TickInv /\ RunnerInv /\ TypeOK'
  BY StepTypeOK DEF AutomationInv
<1>2. day' \in Days /\ day \in Nat
  BY <1>1 DEF TypeOK, Days
<1>3. ASSUME UNCHANGED <<last, runs>>, day <= day',
             \A v \in Workers : proc'[v].at \in TickSteps => proc'[v] = proc[v]
      PROVE  SlotsInv' /\ OneScheduledRunPerDay'
  BY <1>1, <1>2, <1>3, SlotsKept
<1>4. CASE Clock
  <2>1. day <= day'
    BY <1>2, <1>4 DEF Clock
  <2> QED
    BY <1>3, <1>4, <2>1 DEF Clock
<1>5. CASE User
  <2>1. UNCHANGED <<day, last, proc>>
    BY <1>5 DEF User, ToggleAutomation, ToggleTask, CreateTask, SetTask,
       UpdateTaskSchedule, UpdateDailySchedule, EnqueueDaily, clockVars
  <2>2. \A r \in RunIds : runs'[r].slot # 0 => runs'[r] = runs[r]
    <3>1. ASSUME NEW q \in RunIds, EnqueueDaily(q)
          PROVE  \A r \in RunIds : runs'[r].slot # 0 => runs'[r] = runs[r]
      BY <1>1, <3>1, NewRunFields DEF EnqueueDaily, TypeOK
    <3>2. UNCHANGED runs \/ \E q \in RunIds : EnqueueDaily(q)
      BY <1>5 DEF User, ToggleAutomation, ToggleTask, CreateTask, SetTask,
         UpdateTaskSchedule, UpdateDailySchedule
    <3> QED
      BY <3>1, <3>2
  <2> QED
    BY <1>1, <1>2, <2>1, <2>2, SlotsKept
<1>6. ASSUME NEW w \in Workers, TickStart(w)
      PROVE  SlotsInv' /\ OneScheduledRunPerDay'
  <2>1. proc'[w].today = day /\ proc'[w].at = "tick"
    BY <1>1, <1>6 DEF TickStart, Step, TypeOK, Idle
  <2>2. UNCHANGED <<day, last, runs>>
    BY <1>6 DEF TickStart, clockVars
  <2>3. \A v \in Workers : proc'[v].today = day /\ proc'[v].at = "tick"
    BY <2>1
  <2> QED
    BY <1>2, <2>2, <2>3 DEF SlotsInv, OneScheduledRunPerDay
<1>7. ASSUME NEW w \in Workers, NEW t \in Tasks, Look(w, t)
      PROVE  SlotsInv' /\ OneScheduledRunPerDay'
  <2>1. /\ proc'[w].today = proc[w].today
        /\ proc'[w].at = "place" =>
              proc'[w].task = t /\ last[t] # proc[w].today
    BY <1>1, <1>7 DEF Look, Step, TypeOK, Frame
  <2>2. UNCHANGED <<day, last, runs>> /\ proc[w].at \in TickSteps
    BY <1>7 DEF Look, clockVars, TickSteps
  <2>3. \A v \in Workers : v = w
    OBVIOUS
  <2> QED
    BY <2>1, <2>2, <2>3 DEF SlotsInv, OneScheduledRunPerDay
<1>8. ASSUME NEW w \in Workers, Abort(w) \/ TickEnd(w) \/ Crash(w)
      PROVE  SlotsInv' /\ OneScheduledRunPerDay'
  <2>1. \A v \in Workers : proc'[v].at \in TickSteps => proc'[v] = proc[v]
    BY <1>1, <1>8 DEF Abort, TickEnd, Crash, Step, TypeOK, Idle, TickSteps
  <2>2. UNCHANGED <<day, last, runs>>
    BY <1>8 DEF Abort, TickEnd, Crash, clockVars
  <2> QED
    BY <1>2, <1>3, <2>1, <2>2
<1>9. CASE Moves
  <2>1. PICK r \in RunIds, x \in Run :
            Progress(r, x) /\ runs' = [runs EXCEPT ![r] = x]
    BY <1>1, <1>9, MoveFacts
  <2>2. \A s \in RunIds : runs'[s].slot = runs[s].slot /\ runs'[s].task = runs[s].task
    BY <1>1, <2>1 DEF Progress, TypeOK
  <2>3. \E w \in Workers, f \in Frame : Step(w, f) /\ f.at \notin TickSteps
    <3>1. ASSUME NEW w \in Workers, Execute(w)
          PROVE  \E f \in Frame : Step(w, f) /\ f.at \notin TickSteps
      BY <1>1, <3>1, ExecuteAdvances DEF Advance, DailySteps, TickSteps
    <3>2. ASSUME NEW w \in Workers, NEW q \in RunIds, Fetch(w, q)
          PROVE  \E f \in Frame : Step(w, f) /\ f.at \notin TickSteps
      BY <1>1, <3>2, FetchMoves DEF TickSteps
    <3> QED
      BY <1>9, <3>1, <3>2 DEF Moves
  <2>4. \A v \in Workers : proc'[v].at \in TickSteps => proc'[v] = proc[v]
    BY <1>1, <2>3 DEF Step, TypeOK
  <2>5. UNCHANGED <<day, last>>
    <3>1. ASSUME NEW w \in Workers, Execute(w) PROVE UNCHANGED <<day, last>>
      BY <1>1, <3>1, ExecuteAdvances DEF Advance, clockVars
    <3> QED
      BY <1>9, <3>1 DEF Moves, Fetch, clockVars
  <2> QED
    BY <1>1, <1>2, <2>2, <2>4, <2>5, SlotsKept
<1>10. CASE UNCHANGED vars
  BY <1>2, <1>3, <1>10 DEF vars
<1> QED
  BY <1>1, <1>4, <1>5, <1>6, <1>7, <1>8, <1>9, <1>10, SlotsPlaced
  DEF Next, Tick, Moves

\* With the one worker that docker-compose.yml starts, a task is triggered at
\* most once for a day, by ticks of any minutes and after a death in the
\* middle of one.  (With two it may be: both can have read the placeholder of
\* an earlier day before the first run of the new day is placed and ended.)
THEOREM TriggeredOncePerDay ==
    ASSUME \A v, w \in Workers : v = w
    PROVE  Spec => []OneScheduledRunPerDay
<1>1. Init => SlotsInv /\ OneScheduledRunPerDay
  BY DEF Init, SlotsInv, OneScheduledRunPerDay, Idle, AbsentRun, TickSteps
<1>2. AutomationInv /\ SlotsInv /\ OneScheduledRunPerDay /\ [Next]_vars
        => SlotsInv' /\ OneScheduledRunPerDay'
  BY StepSlots
<1> QED
  BY <1>1, <1>2, AutomationSafety, PTL DEF Spec
=============================================================================
