------------------------- MODULE AutomationInvariant -------------------------
(***************************************************************************)
(* The inductive invariant behind the theorems of AutomationProofs.        *)
(***************************************************************************)
EXTENDS AutomationRuns

Holds(w) == proc[w].at \in {"start", "ended"} \cup DailySteps

\* Rows are used in order; a kind's row is inserted only when the earlier
\* ones of the kind have ended; only daily runs make reports.
RowsInv ==
    /\ \A r \in RunIds : runs[r].status = "absent" =>
          /\ runs[r] = AbsentRun
          /\ \A s \in RunIds : r < s => runs[s].status = "absent"
    /\ \A q, r \in RunIds :
          q < r /\ runs[r].status # "absent" /\ runs[q].kind = runs[r].kind
              => runs[q].status \notin Running
    /\ \A r \in RunIds : runs[r].job = "todo" => runs[r].status = "queued"
    /\ \A r \in RunIds : runs[r].status = "queued" => runs[r].brief = 0
    /\ \A r \in RunIds : runs[r].brief # 0 => runs[r].kind = Daily

\* A tick that is about to place a run has a task for it.
TickInv == \A w \in Workers : proc[w].at = "place" => proc[w].task \in Tasks

\* A run being executed is held by one worker.
RunnerInv ==
    /\ \A w \in Workers : Holds(w) =>
          proc[w].run \in RunIds /\ Mine(w).job = "doing"
    /\ \A v, w \in Workers :
          v # w /\ Holds(v) /\ Holds(w) => proc[v].run # proc[w].run
    /\ \A w \in Workers : proc[w].at = "start" => Mine(w).status = "queued"
    /\ \A w \in Workers : proc[w].at \in DailySteps =>
          Mine(w).status = "running" /\ Mine(w).kind = Daily

\* The day a daily job took at its start, and what it may still write.
DayInv ==
    /\ lastDaily <= day
    /\ \A w \in Workers : proc[w].at \in {"brief", "extras"} =>
          /\ proc[w].today # 0
          /\ proc[w].today <= day
          /\ lastDaily <= proc[w].today
          /\ Mine(w).slot # 0 => lastDaily < proc[w].today
    /\ \A w \in Workers : proc[w].at \in {"guard", "brief"} => Mine(w).brief = 0
    /\ \A w \in Workers : proc[w].at = "extras" => Mine(w).brief = proc[w].today
    /\ \A r \in RunIds : runs[r].status \in Completed =>
          runs[r].brief <= lastDaily

\* With one worker: no placeholder is ahead of the tick that may write the
\* next one, and every scheduled run is as old as its task's placeholder.
SlotsInv ==
    /\ \A t \in Tasks : last[t] <= day
    /\ \A r \in RunIds : runs[r].slot # 0 =>
          runs[r].task \in Tasks /\ runs[r].slot <= last[runs[r].task]
    /\ \A w \in Workers : proc[w].at \in TickSteps =>
          /\ proc[w].today <= day
          /\ \A t \in Tasks : last[t] <= proc[w].today
    /\ \A w \in Workers :
          proc[w].at = "place" => last[proc[w].task] # proc[w].today

AutomationInv ==
    /\ TypeOK /\ RowsInv /\ TickInv /\ RunnerInv /\ DayInv
    /\ PlaceholderHasRun /\ DailyMarkHasReport /\ NoReportAfterCompletion
=============================================================================
