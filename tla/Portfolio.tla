----------------------------- MODULE Portfolio -----------------------------
(***************************************************************************)
(* Positions and watchlist items (api/portfolio.py), the instruments they  *)
(* create (services/instrument_service.py) and their analysis by the       *)
(* worker (services/analyzer.py), which reads a row, asks the model for    *)
(* minutes and writes the row it read: requests change and delete rows     *)
(* meanwhile.                                                              *)
(***************************************************************************)
EXTENDS Naturals, FiniteSets

CONSTANTS
    Ids,             \* row ids of positions and watchlist_items
    Owners, Instruments,
    Requests,        \* API requests that may be in progress together
    Jobs,            \* rows of the queue analysis
    NoRow, NoJob,
    Shares,          \* holdings a user may enter
    MaxRetries,      \* retries of the two tasks (2 in the code)
    MaxEdits, MaxFaults    \* bounds: changes by users, failures

Kinds    == {"position", "watch"}
Statuses == {"pending", "analyzing", "done", "failed"}

\* shares stands for shares and cost; note for reason and risk of a position,
\* thesis, advice and risk of a watchlist item; snap is the holding recorded
\* in analysis_detail.position_snapshot, 0 before any.
Row == [kind: Kinds, owner: Owners, inst: Instruments, shares: Shares,
        note: {"user", "llm"}, snap: Shares \cup {0}, status: Statuses]

ASSUME PortfolioAssumption ==
    /\ NoRow \notin Row /\ NoRow \notin Ids /\ NoJob \notin Jobs
    /\ 0 \notin Shares
    /\ {MaxRetries, MaxEdits, MaxFaults} \subseteq Nat

VARIABLES
    instruments,     \* table instruments: the identities it holds
    rows,            \* tables positions and watchlist_items
    jobs,            \* table procrastinate_jobs
    worker,          \* the worker's frame
    request,         \* the frames of adds in progress
    edits, faults,
    lost,            \* history: rows whose job died or failed before the end
    held             \* history: holdings since the pending analysis was asked for

vars == <<instruments, rows, jobs, worker, request, edits, faults, lost, held>>
budget == <<edits, faults>>

-----------------------------------------------------------------------------
Job == [state: {"none", "todo", "doing", "ended"}, row: Ids \cup {NoRow}, tries: 0 .. MaxRetries]

Resting == [at |-> "idle"]
Adding  == [at: {"adding"}, kind: Kinds, owner: Owners, inst: Instruments,
            shares: Shares, known: BOOLEAN, found: Ids \cup {NoRow}]

TypeOK ==
    /\ instruments \subseteq Instruments
    /\ rows \in [Ids -> Row \cup {NoRow}]
    /\ jobs \in [Jobs -> Job]
    /\ worker \in [job: Jobs \cup {NoJob}, at: {"idle", "begin", "llm"}, read: Row \cup {NoRow}]
    /\ request \in [Requests -> {Resting} \cup Adding]
    /\ {edits, faults} \subseteq Nat
    /\ lost \subseteq Ids
    /\ held \in [Ids -> SUBSET Shares]

IdleWorker == [job |-> NoJob, at |-> "idle", read |-> NoRow]

Init ==
    /\ instruments \in SUBSET Instruments
    /\ rows = [r \in Ids |-> NoRow]
    /\ jobs = [j \in Jobs |-> [state |-> "none", row |-> NoRow, tries |-> 0]]
    /\ worker = IdleWorker
    /\ request = [q \in Requests |-> Resting]
    /\ edits = 0 /\ faults = 0
    /\ lost = {} /\ held = [r \in Ids |-> {}]

Present(r) == rows[r] # NoRow
Target     == jobs[worker.job].row

\* Jobs that will still run or are running.
Live(j, r) == jobs[j].row = r /\ (jobs[j].state = "todo" \/ worker.job = j)

Edit  == edits < MaxEdits /\ edits' = edits + 1
Fault == faults < MaxFaults /\ faults' = faults + 1

-----------------------------------------------------------------------------
(* Adding: look for the instrument and the user's watchlist item, then      *)
(* insert or update in the transaction's commit                             *)

AddRead(q, kind, owner, inst, shares) ==
    /\ Edit
    /\ request[q] = Resting
    /\ \E f \in Ids \cup {NoRow} :
         LET Mine == {r \in Ids : /\ Present(r) /\ kind = "watch"
                                  /\ rows[r].kind = "watch"
                                  /\ rows[r].owner = owner /\ rows[r].inst = inst} IN
         /\ IF Mine = {} THEN f = NoRow ELSE f \in Mine
         /\ request' = [request EXCEPT ![q] =
              [at |-> "adding", kind |-> kind, owner |-> owner, inst |-> inst,
               shares |-> shares, known |-> inst \in instruments, found |-> f]]
    /\ UNCHANGED <<instruments, rows, jobs, worker, faults, lost, held>>

\* uq_instrument_identity and uq_watchlist_owner_instrument.
IdentityFree(inst) == inst \notin instruments

WatchFree(owner, inst) == ~ \E r \in Ids :
    /\ Present(r) /\ rows[r].kind = "watch"
    /\ rows[r].owner = owner /\ rows[r].inst = inst

\* A new uuid: nothing refers to it.
Fresh(r) ==
    /\ ~Present(r) /\ held[r] = {}
    /\ \A j \in Jobs : jobs[j].row # r
    /\ \A q \in Requests : request[q].at = "adding" => request[q].found # r

Insert(o) == \E r \in Ids :
    /\ Fresh(r)
    /\ o.known \/ IdentityFree(o.inst)
    /\ o.kind = "watch" => WatchFree(o.owner, o.inst)
    /\ instruments' = instruments \cup {o.inst}
    /\ rows' = [rows EXCEPT ![r] =
         [kind |-> o.kind, owner |-> o.owner, inst |-> o.inst, shares |-> o.shares,
          note |-> "user", snap |-> 0, status |-> "pending"]]

\* Adding a watched instrument again replaces its texts and leaves the status.
Update(o) ==
    /\ o.found # NoRow
    /\ Present(o.found)
    /\ rows' = [rows EXCEPT ![o.found].note = "user"]
    /\ UNCHANGED instruments

AddWrite(q) ==
    /\ request[q].at = "adding"
    /\ IF request[q].found = NoRow THEN Insert(request[q]) ELSE Update(request[q])
    /\ request' = [request EXCEPT ![q] = Resting]
    /\ UNCHANGED <<jobs, worker, budget, lost, held>>

\* A unique index or a vanished row refuses the write: the request answers 500.
AddRefused(q) == LET o == request[q] IN
    /\ o.at = "adding"
    /\ IF o.found = NoRow
         THEN \/ ~o.known /\ o.inst \in instruments
              \/ o.kind = "watch" /\ ~WatchFree(o.owner, o.inst)
         ELSE ~Present(o.found)
    /\ request' = [request EXCEPT ![q] = Resting]
    /\ UNCHANGED <<instruments, rows, jobs, worker, budget, lost, held>>

UpdatePosition(r, shares) ==
    /\ Edit
    /\ Present(r) /\ rows[r].kind = "position"
    /\ rows' = [rows EXCEPT ![r].shares = shares]
    /\ held' = [held EXCEPT ![r] = IF @ = {} THEN @ ELSE @ \cup {shares}]
    /\ UNCHANGED <<instruments, jobs, worker, request, faults, lost>>

DeleteRow(r) ==
    /\ Edit
    /\ Present(r)
    /\ rows' = [rows EXCEPT ![r] = NoRow]
    /\ lost' = lost \ {r}
    /\ UNCHANGED <<instruments, jobs, worker, request, faults, held>>

-----------------------------------------------------------------------------
(* The analysis, refused to a user without a default profile.  The job is   *)
(* deferred in the request's transaction; only a position shows "analyzing" *)
(* from then on                                                             *)

Analyze(r, j) ==
    /\ Present(r)
    /\ jobs[j].state = "none"
    /\ jobs' = [jobs EXCEPT ![j] = [state |-> "todo", row |-> r, tries |-> 0]]
    /\ rows' = IF rows[r].kind = "position"
                 THEN [rows EXCEPT ![r].status = "analyzing"] ELSE rows
    /\ held' = [held EXCEPT ![r] =
         IF \E i \in Jobs : Live(i, r) THEN @ ELSE {rows[r].shares}]
    /\ UNCHANGED <<instruments, worker, request, budget, lost>>

Fetch(j) ==
    /\ worker.at = "idle"
    /\ jobs[j].state = "todo"
    /\ jobs' = [jobs EXCEPT ![j].state = "doing"]
    /\ worker' = [worker EXCEPT !.job = j, !.at = "begin"]
    /\ UNCHANGED <<instruments, rows, request, budget, lost, held>>

Ended == /\ jobs' = [jobs EXCEPT ![worker.job].state = "ended"]
         /\ worker' = IdleWorker

\* The row is gone: the task returns.
BeginNothing ==
    /\ worker.at = "begin"
    /\ ~Present(Target)
    /\ Ended
    /\ UNCHANGED <<instruments, rows, request, budget, lost, held>>

\* Read the row and commit "analyzing"; the objects are not expired, so the
\* holding that was read goes into the prompt and the snapshot.
BeginMutant ==
    /\ worker.at = "begin"
    /\ Present(Target)
    /\ rows' = [rows EXCEPT ![Target].status = "analyzing"]
    /\ worker' = [worker EXCEPT !.at = "llm", !.read =
         [rows[Target] EXCEPT !.shares = IF rows[Target].snap = 0 THEN @ ELSE rows[Target].snap]]
    /\ UNCHANGED <<instruments, jobs, request, budget, lost, held>>

Begin ==
    /\ worker.at = "begin"
    /\ Present(Target)
    /\ rows' = [rows EXCEPT ![Target].status = "analyzing"]
    /\ worker' = [worker EXCEPT !.at = "llm", !.read = rows[Target]]
    /\ UNCHANGED <<instruments, jobs, request, budget, lost, held>>

\* Before its try block the task raises: retried, then failed, and nothing
\* resets the status.
BeginRaises ==
    /\ Fault
    /\ worker.at = "begin"
    /\ IF jobs[worker.job].tries < MaxRetries
         THEN /\ jobs' = [jobs EXCEPT ![worker.job].state = "todo", ![worker.job].tries = @ + 1]
              /\ UNCHANGED lost
         ELSE /\ jobs' = [jobs EXCEPT ![worker.job].state = "ended"]
              /\ lost' = lost \cup {Target}
    /\ worker' = IdleWorker
    /\ UNCHANGED <<instruments, rows, request, edits, held>>

\* UPDATE by primary key of the columns the analysis sets.
Analysed(r) == [rows[r] EXCEPT !.note = "llm", !.status = "done",
    !.snap = IF rows[r].kind = "position" THEN worker.read.shares ELSE 0]

\* The UPDATE of a deleted row matches nothing; the error lands in the same
\* except branch, which finds no row either.
Write ==
    /\ worker.at = "llm"
    /\ rows' = IF Present(Target) THEN [rows EXCEPT ![Target] = Analysed(Target)] ELSE rows
    /\ lost' = lost \ {Target}
    /\ Ended
    /\ UNCHANGED <<instruments, request, budget, held>>

\* No profile, no answer, an answer that does not parse: rollback, "failed".
AnalysisFailsMutant ==
    /\ worker.at = "llm"
    /\ lost' = lost \ {Target}
    /\ Ended
    /\ UNCHANGED <<instruments, rows, request, budget, held>>

AnalysisFails ==
    /\ worker.at = "llm"
    /\ rows' = IF Present(Target) THEN [rows EXCEPT ![Target].status = "failed"] ELSE rows
    /\ lost' = lost \ {Target}
    /\ Ended
    /\ UNCHANGED <<instruments, request, budget, held>>

\* The process dies; its job stays "doing" and is not fetched again.
WorkerDies ==
    /\ Fault
    /\ worker.at # "idle"
    /\ worker' = IdleWorker
    /\ lost' = lost \cup {Target}
    /\ UNCHANGED <<instruments, rows, jobs, request, edits, held>>

-----------------------------------------------------------------------------
WorkerRun == BeginNothing \/ Begin \/ Write \/ AnalysisFails

Next ==
    \/ \E q \in Requests :
         \/ \E k \in Kinds, o \in Owners, i \in Instruments, s \in Shares : AddRead(q, k, o, i, s)
         \/ AddWrite(q)
         \/ AddRefused(q)
    \/ \E r \in Ids : \/ \E s \in Shares : UpdatePosition(r, s)
                      \/ DeleteRow(r)
                      \/ \E j \in Jobs : Analyze(r, j)
    \/ \E j \in Jobs : Fetch(j)
    \/ WorkerRun
    \/ BeginRaises
    \/ WorkerDies

Spec == Init /\ [][Next]_vars

\* The worker process fetches what is in the queue and runs it to its end.
FairSpec == Spec /\ WF_vars(\E j \in Jobs : Fetch(j)) /\ WF_vars(WorkerRun)

-----------------------------------------------------------------------------
(* Properties *)

\* A row that shows "analyzing" has a job that will end it, unless the worker
\* died under the job or the task failed before its try block: then nothing
\* in the code resets the row until its owner asks again.
AnalyzingHasJob == \A r \in Ids :
    Present(r) /\ rows[r].status = "analyzing" => r \in lost \/ \E j \in Jobs : Live(j, r)

\* One watchlist item per user and instrument, although add_watchlist decides
\* between insert and update on what it read before.
WatchedOnce == \A r, s \in Ids :
    /\ Present(r) /\ Present(s)
    /\ rows[r].kind = "watch" /\ rows[s].kind = "watch"
    /\ rows[r].owner = rows[s].owner /\ rows[r].inst = rows[s].inst
    => r = s

\* The holding an analysis reports is one the position had after the analysis
\* was asked for, however often it was edited and analysed before.
SnapshotSinceRequest == \A r \in Ids :
    Present(r) /\ rows[r].kind = "position" /\ rows[r].status = "done" => rows[r].snap \in held[r]

\* What the two tables, the queue and their columns promise together.
RowsAndJobsAgree == TypeOK /\ AnalyzingHasJob /\ WatchedOnce

\* "analyzing" ends, except where a job was lost.
AnalysisSettles == \A r \in Ids :
    Present(r) /\ rows[r].status = "analyzing" ~>
        ~Present(r) \/ rows[r].status # "analyzing" \/ r \in lost
=============================================================================
