--------------------------- MODULE DebateLifecycle ---------------------------
(***************************************************************************)
(* The life of a debate: the row of table debates, the queue job that runs *)
(* it, the three API handlers that write both (api/decisions.py) and the   *)
(* worker that executes the job (services/debate_runner.py).               *)
(*                                                                         *)
(* Every step below is one database transaction, or the code between two   *)
(* of them.  A worker keeps an ORM copy of its row, seen[w]: sessions are  *)
(* made with expire_on_commit=False (db.py:23) and no query asks for       *)
(* populate_existing, so the copy changes only on session.get,             *)
(* session.refresh and after a rollback that had a transaction to undo;    *)
(* SELECT ... FOR UPDATE takes the row lock but keeps the loaded values.   *)
(* A flush writes only the columns whose value in the copy was changed.    *)
(***************************************************************************)
EXTENDS Integers, Sequences, FiniteSets

CONSTANTS
    Debates,      \* ids create_debate may use (ULIDs)
    Subject,      \* Subject[d]: the (owner_id, instrument_id) of debate d
    JobIds,       \* ids of the procrastinate_jobs table
    Workers,      \* worker processes; docker-compose.yml starts one
    NoDebate,     \* the debate of a job id that was never deferred
    NoJob,        \* queue_job_id before create, and what an idle worker holds
    Marks,        \* progress of each update_stage call, in order
    MaxRetries,   \* retry= of task run_debate (3 in tasks.py)
    MaxCrashes    \* bound: worker deaths in a behaviour

ASSUME DebateAssumption ==
    /\ NoDebate \notin Debates
    /\ NoJob \notin JobIds
    /\ Marks \in Seq(Nat)
    /\ Len(Marks) > 0
    /\ MaxRetries \in Nat
    /\ MaxCrashes \in Nat

VARIABLES
    rows,      \* table debates
    jobs,      \* table procrastinate_jobs, task run_debate
    cancels,   \* jobs an API process is about to pass to queue.cancel_job
    pc,        \* where each worker is in execute_debate
    held,      \* the job each worker has fetched
    seen,      \* each worker's ORM copy of the row it works on
    stage,     \* index in Marks of the next update_stage call
    crashes

vars == <<rows, jobs, cancels, pc, held, seen, stage, crashes>>

-----------------------------------------------------------------------------
(* The two tables.                                                         *)

Active     == {"queued", "running"}
Terminal   == {"done", "failed", "canceled"}
Statuses   == {"absent"} \cup Active \cup Terminal
JobStates  == {"absent", "todo", "doing", "succeeded", "failed", "cancelled"}
PcValues   == {"idle", "load", "drop", "claim", "check", "mark", "save",
               "stopping", "errorFresh", "errorStale", "returned", "raised"}

Row == [status: Statuses, cancelReq: BOOLEAN, attempt: Nat, progress: Nat,
        job: JobIds \cup {NoJob}, report: BOOLEAN]

Job == [state: JobStates, debate: Debates \cup {NoDebate},
        attempts: Nat, abort: BOOLEAN]

AbsentRow == [status |-> "absent", cancelReq |-> FALSE, attempt |-> 0,
              progress |-> 0, job |-> NoJob, report |-> FALSE]

NewJob(d) == [state |-> "todo", debate |-> d, attempts |-> 0, abort |-> FALSE]

AbsentJob == [state |-> "absent", debate |-> NoDebate,
              attempts |-> 0, abort |-> FALSE]

ClaimMark == 10       \* progress written when an attempt starts
DoneMark  == 100

Raise(p, m) == IF p < m THEN m ELSE p

\* The test execute_debate makes on its copy before every decision.
Canceling(r) == r.status = "canceled" \/ r.cancelReq

\* uq_debates_owner_instrument_active: a row may hold status s only if no
\* other row of its owner and instrument is active.
IndexAllows(d, s) ==
    s \in Active =>
        \A e \in Debates \ {d} :
            Subject[e] = Subject[d] => rows[e].status \notin Active

\* One column of an UPDATE: written only when the session changed it.
Column(old, new, stored) == IF new = old THEN stored ELSE new

\* The row after the session flushes copy `new', loaded as `old'.
Flush(old, new, stored) ==
    [status    |-> Column(old.status, new.status, stored.status),
     cancelReq |-> Column(old.cancelReq, new.cancelReq, stored.cancelReq),
     attempt   |-> Column(old.attempt, new.attempt, stored.attempt),
     progress  |-> Column(old.progress, new.progress, stored.progress),
     job       |-> Column(old.job, new.job, stored.job),
     report    |-> Column(old.report, new.report, stored.report)]

TypeOK ==
    /\ rows \in [Debates -> Row]
    /\ jobs \in [JobIds -> Job]
    /\ cancels \subseteq JobIds
    /\ pc \in [Workers -> PcValues]
    /\ held \in [Workers -> JobIds \cup {NoJob}]
    /\ seen \in [Workers -> Row]
    /\ stage \in [Workers -> 1 .. Len(Marks) + 1]
    /\ crashes \in 0 .. MaxCrashes

Init ==
    /\ rows = [d \in Debates |-> AbsentRow]
    /\ jobs = [j \in JobIds |-> AbsentJob]
    /\ cancels = {}
    /\ pc = [w \in Workers |-> "idle"]
    /\ held = [w \in Workers |-> NoJob]
    /\ seen = [w \in Workers |-> AbsentRow]
    /\ stage = [w \in Workers |-> 1]
    /\ crashes = 0

-----------------------------------------------------------------------------
(* API handlers.  Whether the user has a default LLM profile (422) is left *)
(* open: a request may be refused at any time by not being taken.          *)

workerVars == <<pc, held, seen, stage, crashes>>

CreateUndeferredMutant(d, j) ==    \* mutant: the job is not deferred
    /\ rows[d].status = "absent"
    /\ jobs[j].state = "absent"
    /\ IndexAllows(d, "queued")
    /\ rows' = [rows EXCEPT ![d] =
                  [AbsentRow EXCEPT !.status = "queued", !.job = j]]
    /\ UNCHANGED <<jobs, cancels, workerVars>>

\* POST /debates: the row and its job commit together or not at all.
Create(d, j) ==
    /\ rows[d].status = "absent"
    /\ jobs[j].state = "absent"
    /\ IndexAllows(d, "queued")
    /\ rows' = [rows EXCEPT ![d] =
                  [AbsentRow EXCEPT !.status = "queued", !.job = j]]
    /\ jobs' = [jobs EXCEPT ![j] = NewJob(d)]
    /\ UNCHANGED <<cancels, workerVars>>

\* POST /debates/{id}/cancel under the row lock; the queue is told after
\* the commit, in a transaction of its own.
Cancel(d) ==
    /\ rows[d].status \notin {"absent", "done", "failed"}
    /\ rows' = [rows EXCEPT ![d] =
                  [@ EXCEPT !.status = "canceled", !.cancelReq = TRUE]]
    /\ cancels' = cancels \cup {rows[d].job}
    /\ UNCHANGED <<jobs, workerVars>>

\* queue.cancel_job: a waiting job is cancelled, a running one flagged.
Cancelled(b) ==
    [b EXCEPT !.state = IF @ = "todo" THEN "cancelled" ELSE @,
              !.abort = @ \/ b.state = "doing"]

CancelJob(j) ==
    /\ j \in cancels
    /\ cancels' = cancels \ {j}
    /\ jobs' = [jobs EXCEPT ![j] = Cancelled(@)]
    /\ UNCHANGED <<rows, workerVars>>

\* The call fails, or the API process dies after its commit.
CancelJobLost(j) ==
    /\ j \in cancels
    /\ cancels' = cancels \ {j}
    /\ UNCHANGED <<rows, jobs, workerVars>>

ReopenedMutant(r, j) ==        \* mutant: queue_job_id is not renewed
    [r EXCEPT !.status = "queued", !.progress = 0, !.cancelReq = FALSE]

Reopened(r, j) ==
    [r EXCEPT !.status = "queued", !.progress = 0, !.cancelReq = FALSE,
              !.job = j]

\* POST /debates/{id}/resume under the row lock: always a new job.
Resume(d, j) ==
    /\ rows[d].status = "failed"
    /\ jobs[j].state = "absent"
    /\ IndexAllows(d, "queued")
    /\ rows' = [rows EXCEPT ![d] = Reopened(@, j)]
    /\ jobs' = [jobs EXCEPT ![j] = NewJob(d)]
    /\ UNCHANGED <<cancels, workerVars>>

-----------------------------------------------------------------------------
(* The queue's side of a worker: fetch a job, record how it ended.         *)

Target(w) == jobs[held[w]].debate

InState(b, s) == [b EXCEPT !.state = s]
Retried(b)    == [b EXCEPT !.state = "todo", !.attempts = @ + 1]

Goto(w, label) == pc' = [pc EXCEPT ![w] = label]

LetGo(w) ==
    /\ Goto(w, "idle")
    /\ held' = [held EXCEPT ![w] = NoJob]
    /\ seen' = [seen EXCEPT ![w] = AbsentRow]
    /\ stage' = [stage EXCEPT ![w] = 1]

\* FOR UPDATE SKIP LOCKED: no two workers fetch the same job.
Fetch(w, j) ==
    /\ pc[w] = "idle"
    /\ jobs[j].state = "todo"
    /\ jobs' = [jobs EXCEPT ![j] = InState(@, "doing")]
    /\ held' = [held EXCEPT ![w] = j]
    /\ Goto(w, "load")
    /\ UNCHANGED <<rows, cancels, seen, stage, crashes>>

Return(w) ==
    /\ pc[w] = "returned"
    /\ jobs' = [jobs EXCEPT ![held[w]] = InState(@, "succeeded")]
    /\ LetGo(w)
    /\ UNCHANGED <<rows, cancels, crashes>>

\* The task raised: retried at once while attempts remain.  Whether the
\* queue still retries a job flagged for abort is left open.
JobRetried(w) ==
    /\ pc[w] = "raised"
    /\ jobs[held[w]].attempts < MaxRetries
    /\ jobs' = [jobs EXCEPT ![held[w]] = Retried(@)]
    /\ LetGo(w)
    /\ UNCHANGED <<rows, cancels, crashes>>

JobFailed(w) ==
    /\ pc[w] = "raised"
    /\ jobs[held[w]].attempts >= MaxRetries \/ jobs[held[w]].abort
    /\ jobs' = [jobs EXCEPT ![held[w]] = InState(@, "failed")]
    /\ LetGo(w)
    /\ UNCHANGED <<rows, cancels, crashes>>

\* The process dies and is started again.  Nothing in src/ takes back the
\* jobs it leaves in state doing.
Crash(w) ==
    /\ pc[w] # "idle"
    /\ crashes < MaxCrashes
    /\ crashes' = crashes + 1
    /\ LetGo(w)
    /\ UNCHANGED <<rows, jobs, cancels>>

-----------------------------------------------------------------------------
(* execute_debate.                                                         *)

LoadMutant(w) ==               \* mutant: a finished debate runs again
    LET row == rows[Target(w)] IN
    /\ pc[w] = "load"
    /\ seen' = [seen EXCEPT ![w] = row]
    /\ Goto(w, IF row.status = "canceled" THEN "returned"
               ELSE IF row.cancelReq THEN "drop"
               ELSE "claim")
    /\ UNCHANGED <<rows, jobs, cancels, held, stage, crashes>>

\* session.get without a lock, and the early returns that follow it.
Load(w) ==
    LET row == rows[Target(w)] IN
    /\ pc[w] = "load"
    /\ seen' = [seen EXCEPT ![w] = row]
    /\ Goto(w, IF row.status \in {"done", "canceled"} THEN "returned"
               ELSE IF row.cancelReq THEN "drop"
               ELSE "claim")
    /\ UNCHANGED <<rows, jobs, cancels, held, stage, crashes>>

\* Commit of a copy: what the session changed goes to the row.
Commit(w, new) ==
    /\ rows' = [rows EXCEPT ![Target(w)] = Flush(seen[w], new, @)]
    /\ seen' = [seen EXCEPT ![w] = new]

WithStatus(r, s) == [r EXCEPT !.status = s]

\* A cancel was requested before the attempt started.
Drop(w) ==
    /\ pc[w] = "drop"
    /\ Commit(w, WithStatus(seen[w], "canceled"))
    /\ Goto(w, "returned")
    /\ UNCHANGED <<jobs, cancels, held, stage, crashes>>

Claimed(r) ==
    [r EXCEPT !.status = "running", !.attempt = @ + 1,
              !.progress = Raise(@, ClaimMark)]

\* The attempt starts: an unlocked write of what Load read.
Claim(w) ==
    LET d == Target(w)
        stored == Flush(seen[w], Claimed(seen[w]), rows[d])
    IN
    /\ pc[w] = "claim"
    /\ IndexAllows(d, stored.status)
    /\ Commit(w, Claimed(seen[w]))
    /\ stage' = [stage EXCEPT ![w] = 1]
    /\ Goto(w, "check")
    /\ UNCHANGED <<jobs, cancels, held, crashes>>

\* ... which the unique index refuses outside the try: the task raises.
ClaimRefused(w) ==
    LET d == Target(w)
        stored == Flush(seen[w], Claimed(seen[w]), rows[d])
    IN
    /\ pc[w] = "claim"
    /\ ~IndexAllows(d, stored.status)
    /\ Goto(w, "raised")
    /\ UNCHANGED <<rows, jobs, cancels, held, seen, stage, crashes>>

CheckMutant(w) ==              \* mutant: update_stage does not test for cancel
    /\ pc[w] = "check"
    /\ seen' = [seen EXCEPT ![w] = rows[Target(w)]]
    /\ Goto(w, "mark")
    /\ UNCHANGED <<rows, jobs, cancels, held, stage, crashes>>

\* update_stage, first half: session.refresh and the cancellation test.
Check(w) ==
    /\ pc[w] = "check"
    /\ seen' = [seen EXCEPT ![w] = rows[Target(w)]]
    /\ Goto(w, IF Canceling(rows[Target(w)]) THEN "stopping" ELSE "mark")
    /\ UNCHANGED <<rows, jobs, cancels, held, stage, crashes>>

Marked(r, m) == [r EXCEPT !.progress = Raise(@, m)]

\* update_stage, second half: write the stage and commit.
Mark(w) ==
    /\ pc[w] = "mark"
    /\ Commit(w, Marked(seen[w], Marks[stage[w]]))
    /\ Goto(w, IF stage[w] = Len(Marks) THEN "save" ELSE "check")
    /\ stage' = [stage EXCEPT ![w] = @ + 1]
    /\ UNCHANGED <<jobs, cancels, held, crashes>>

\* Work between two stages raises.  Before the first stage, and in a failed
\* refresh, a transaction is open and its rollback expires the copy; a
\* failing graph node (the judge) leaves no transaction to roll back.
WorkFails(w) ==
    /\ pc[w] = "check"
    /\ \/ Goto(w, "errorFresh")
       \/ stage[w] > 1 /\ Goto(w, "errorStale")
    /\ UNCHANGED <<rows, jobs, cancels, held, seen, stage, crashes>>

Completed(r) ==
    [r EXCEPT !.status = "done", !.report = TRUE, !.progress = DoneMark]

\* The terminal transaction: lock the row, decide on the copy, commit.
Save(w) ==
    /\ pc[w] = "save"
    /\ Commit(w, IF Canceling(seen[w]) THEN WithStatus(seen[w], "canceled")
                 ELSE Completed(seen[w]))
    /\ Goto(w, "returned")
    /\ UNCHANGED <<jobs, cancels, held, stage, crashes>>

\* The report cannot be stored; the lock's transaction is rolled back.
SaveFails(w) ==
    /\ pc[w] = "save"
    /\ Goto(w, "errorFresh")
    /\ UNCHANGED <<rows, jobs, cancels, held, seen, stage, crashes>>

StopMutant(w) ==               \* mutant: DebateCanceled is only logged
    /\ pc[w] = "stopping"
    /\ Goto(w, "returned")
    /\ UNCHANGED <<rows, jobs, cancels, held, seen, stage, crashes>>

\* except DebateCanceled.
Stop(w) ==
    /\ pc[w] = "stopping"
    /\ rows' = [rows EXCEPT ![Target(w)] = WithStatus(@, "canceled")]
    /\ Goto(w, "returned")
    /\ UNCHANGED <<jobs, cancels, held, seen, stage, crashes>>

ConvergeMutant(w) ==           \* mutant: a failure ignores the cancel
    LET d    == Target(w)
        copy == IF pc[w] = "errorFresh" THEN rows[d] ELSE seen[w]
    IN
    /\ pc[w] \in {"errorFresh", "errorStale"}
    /\ rows' = [rows EXCEPT ![d] = Flush(copy, WithStatus(copy, "failed"), @)]
    /\ Goto(w, "raised")
    /\ UNCHANGED <<jobs, cancels, held, seen, stage, crashes>>

\* except Exception: lock the row, decide on the copy, commit.
Converge(w) ==
    LET d    == Target(w)
        copy == IF pc[w] = "errorFresh" THEN rows[d] ELSE seen[w]
        new  == WithStatus(copy, IF Canceling(copy) THEN "canceled"
                                 ELSE "failed")
    IN
    /\ pc[w] \in {"errorFresh", "errorStale"}
    /\ rows' = [rows EXCEPT ![d] = Flush(copy, new, @)]
    /\ Goto(w, IF Canceling(copy) THEN "returned" ELSE "raised")
    /\ UNCHANGED <<jobs, cancels, held, seen, stage, crashes>>

-----------------------------------------------------------------------------
User ==
    \/ \E d \in Debates, j \in JobIds : Create(d, j) \/ Resume(d, j)
    \/ \E d \in Debates : Cancel(d)
    \/ \E j \in JobIds : CancelJob(j) \/ CancelJobLost(j)

Execute(w) ==
    \/ Load(w) \/ Drop(w) \/ Claim(w) \/ ClaimRefused(w) \/ Check(w)
    \/ Mark(w) \/ WorkFails(w) \/ Save(w) \/ SaveFails(w) \/ Stop(w)
    \/ Converge(w)

WorkerStep(w) ==
    \/ \E j \in JobIds : Fetch(w, j)
    \/ Execute(w)
    \/ Return(w) \/ JobRetried(w) \/ JobFailed(w)

Next ==
    \/ User
    \/ \E w \in Workers : WorkerStep(w) \/ Crash(w)

Spec == Init /\ [][Next]_vars

\* A running worker keeps going: the queue polls, LLM calls time out after
\* 60 s (llm/client.py).  Nothing obliges a user to act or a worker to die.
FairSpec == Spec /\ \A w \in Workers : WF_vars(WorkerStep(w))

-----------------------------------------------------------------------------
(* What the debate subsystem promises.                                     *)

\* At most one debate of an owner on an instrument is queued or running, at
\* every commit: create, resume, an automatic retry and a crash together.
OneActive ==
    \A d, e \in Debates :
        /\ d # e
        /\ Subject[d] = Subject[e]
        => ~(rows[d].status \in Active /\ rows[e].status \in Active)

\* The job that queue_job_id of a queued debate names is still waiting, or
\* was fetched and has not been recorded as ended: no late cancel_job, retry
\* or return, meant for an older job or attempt, takes the job away.
QueuedHasJob ==
    \A d \in Debates : rows[d].status = "queued" =>
        /\ rows[d].job \in JobIds
        /\ jobs[rows[d].job].debate = d
        /\ jobs[rows[d].job].state \in {"todo", "doing"}

\* Executions still working on d from a copy that shows no cancellation.
BlindTo(d) ==
    {w \in Workers : /\ pc[w] \in {"claim", "check", "mark", "save", "errorStale"}
                     /\ Target(w) = d
                     /\ ~Canceling(seen[w])}

\* A canceled debate leaves that state only through an execution that read
\* the row before the cancel; once no such execution is left, canceled is
\* final whatever jobs are retried, resumed or delivered late.
CanceledUnlessBlind ==
    [][\A d \in Debates :
          rows[d].status = "canceled" /\ rows'[d].status # "canceled"
              => BlindTo(d) # {}]_vars

\* No write of a worker erases a user's cancel request, not even one based
\* on a stale copy: only a resume of the failed debate withdraws it.
CancelRequestSurvives ==
    [][\A d \in Debates :
          rows[d].cancelReq /\ ~rows'[d].cancelReq
              => rows[d].status = "failed" /\ rows'[d].status = "queued"]_vars

\* With one worker a finished debate stays finished: a pending retry of an
\* earlier attempt, a resumed job or a late cancel leaves row and report.
DoneIsFinal ==
    [][\A d \in Debates :
          rows[d].status = "done" => rows'[d] = rows[d]]_vars

\* Every debate that is queued or running comes to rest, unless a worker dies.
EveryDebateSettles ==
    \A d \in Debates :
        rows[d].status \in Active ~> rows[d].status \in Terminal \/ crashes > 0

\* The lost update of a cancel heals: a debate shown as active although the
\* user canceled it is put to rest by the next cancellation test, unless
\* the worker dies.
CancelTakesEffect ==
    \A d \in Debates :
        rows[d].cancelReq
            ~> rows[d].status \in Terminal \/ ~rows[d].cancelReq \/ crashes > 0

-----------------------------------------------------------------------------
(* What the comments and documents of the repository say.                  *)

\* api/decisions.py:175: cancel first, then canceled; completion first, then
\* 409.  A debate that is canceled never becomes done.
CancelFirstWins ==
    [][\A d \in Debates :
          rows[d].status = "canceled" => rows'[d].status # "done"]_vars

\* debate_runner.py:176-177: converging to failed locks the latest row and
\* respects a concurrent cancel.
FailureRespectsCancel ==
    [][\A d \in Debates :
          rows[d].status = "canceled" => rows'[d].status # "failed"]_vars

\* Technical plan 530: the debate id is the queueing lock; a second delivery
\* for the same debate is refused while one waits.
OneWaitingJobPerDebate ==
    \A d \in Debates :
        Cardinality({j \in JobIds :
            jobs[j].debate = d /\ jobs[j].state = "todo"}) <= 1

\* Technical plan 707 and 710: after a worker's death its job is taken again,
\* or the debate is failed by a timeout.  Neither is implemented.
CrashRecovery ==
    \A d \in Debates :
        rows[d].status \in Active ~> rows[d].status \in Terminal
=============================================================================
