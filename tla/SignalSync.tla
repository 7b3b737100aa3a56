---------------------------- MODULE SignalSync ----------------------------
(***************************************************************************)
(* The community signals read from a Feishu document (api/signals.py): the *)
(* runs of source_sync_runs and their queue jobs, the retry of what failed,*)
(* the versions of a day's section, the legacy import that writes the same *)
(* tables (scripts/import_sqlite.py).                                      *)
(* What a job does inside execute_signal_sync_run (app.services.           *)
(* signal_ingestion) is not in the repository: it is modelled from the     *)
(* columns it fills, and it may raise or die anywhere.                     *)
(***************************************************************************)
EXTENDS Integers, FiniteSets, FiniteSetsExt

CONSTANTS
    Days,          \* sections of the document, numbered by date
    MaxSpan,       \* the 89 days a backfill may span
    Contents,      \* what a section may say
    Legacy,        \* days the SQLite source has signals of
    Runs, NoRun, NoDay,
    MaxVersion, MaxEdits, MaxImports, MaxCrashes   \* bounds

\* SignalSyncRequest: a backfill has both dates, in order, within the span.
ValidRange(from, to) == from <= to /\ to - from <= MaxSpan

Bodies ==
    {[mode |-> "incremental", from |-> NoDay, to |-> NoDay]}
    \cup {b \in [mode : {"backfill"}, from : Days, to : Days] : ValidRange(b.from, b.to)}

RunRow == [body : Bodies, trigger : {"manual", "retry"}, covers : SUBSET Days,
           status : {"queued", "running", "succeeded", "partial", "failed"},
           todo : SUBSET Days, failed : SUBSET Days]

ASSUME SignalAssumption ==
    /\ Days \subseteq Nat /\ Legacy \subseteq Days
    /\ \E last \in Days : \A d \in Days : d <= last
    /\ NoDay \notin Days /\ Contents # {} /\ 0 \notin Contents
    /\ NoRun \notin RunRow
    /\ MaxVersion \in Nat \ {0} /\ MaxSpan \in Nat

VARIABLES
    runs,          \* table source_sync_runs
    jobs,          \* status of the run's job in queue "signals"
    dead,          \* history: runs whose worker died under them
    document,      \* what Feishu holds
    sections,      \* day |-> [ver, content, byRun], ver 0 when there is no row
    signals,       \* <<day, version>> |-> "absent", "active", "superseded"
    reimported,    \* history: days an import wrote since a run last did
    writes, imports, crashes

vars == <<runs, jobs, dead, document, sections, signals, reimported, writes, imports, crashes>>

bounds == <<writes, imports, crashes>>

-----------------------------------------------------------------------------
Versions == 1 .. MaxVersion
Signals  == Days \X Versions

Scope(b) == IF b.mode = "incremental" THEN Days ELSE b.from .. b.to \cap Days

TypeOK ==
    /\ runs \in [Runs -> RunRow \cup {NoRun}]
    /\ jobs \in [Runs -> {"none", "todo", "doing", "succeeded", "failed"}]
    /\ dead \subseteq Runs
    /\ document \in [Days -> Contents]
    /\ sections \in [Days -> [ver : 0 .. MaxVersion, content : Contents \cup {0}, byRun : BOOLEAN]]
    /\ signals \in [Signals -> {"absent", "active", "superseded"}]
    /\ reimported \subseteq Days

Init ==
    /\ runs = [r \in Runs |-> NoRun]
    /\ jobs = [r \in Runs |-> "none"]
    /\ dead = {}
    /\ document = [d \in Days |-> CHOOSE c \in Contents : TRUE]
    /\ sections = [d \in Days |-> [ver |-> 0, content |-> 0, byRun |-> FALSE]]
    /\ signals = [g \in Signals |-> "absent"]
    /\ reimported = {}
    /\ writes = 0 /\ imports = 0 /\ crashes = 0

Known  == {r \in Runs : runs[r] # NoRun}
Active == {r \in Known : runs[r].status \in {"queued", "running"}}
Ended  == Known \ Active

-----------------------------------------------------------------------------
(* The superadmin's requests                                               *)

\* uq_source_sync_runs_active_key; the key is made of the whole body.
KeyFree(b)       == \A r \in Active : runs[r].body # b

\* _enqueue_signal_sync: the run and its job in one transaction, or neither.
Enqueue(r, b, trigger, failures) ==
    /\ runs[r] = NoRun
    /\ KeyFree(b)
    /\ jobs' = [jobs EXCEPT ![r] = "todo"]
    /\ runs' = [runs EXCEPT ![r] =
         [body |-> b, trigger |-> trigger, covers |-> failures, status |-> "queued",
          todo |-> {}, failed |-> {}]]
    /\ UNCHANGED <<dead, document, sections, signals, reimported, bounds>>

\* What a retry of a run asks for; an invalid range raises, and the request
\* fails before anything is written.
RetryBodyMutant(failures) ==
    IF failures = {} THEN [mode |-> "incremental", from |-> NoDay, to |-> NoDay]
    ELSE [mode |-> "backfill", from |-> Min(failures), to |-> Min(failures)]

RetryBody(failures) ==
    IF failures = {} THEN [mode |-> "incremental", from |-> NoDay, to |-> NoDay]
    ELSE [mode |-> "backfill", from |-> Min(failures), to |-> Max(failures)]

Retry(previous, r) ==
    /\ previous \in Ended
    /\ runs[previous].status \in {"partial", "failed"}
    /\ LET b == RetryBody(runs[previous].failed) IN
       b \in Bodies /\ Enqueue(r, b, "retry", runs[previous].failed)

-----------------------------------------------------------------------------
(* The worker: a job of sync_feishu_signal_source                          *)

\* The worker takes the job; the run knows nothing of it yet.
FetchJob(r) ==
    /\ jobs[r] = "todo"
    /\ jobs' = [jobs EXCEPT ![r] = "doing"]
    /\ UNCHANGED <<runs, dead, document, sections, signals, reimported, bounds>>

InHand(r) == jobs[r] = "doing" /\ r \notin dead

\* The job's own first commit.
Claim(r) ==
    /\ InHand(r) /\ runs[r].status = "queued"
    /\ runs' = [runs EXCEPT ![r].status = "running", ![r].todo = Scope(runs[r].body)]
    /\ UNCHANGED <<jobs, dead, document, sections, signals, reimported, bounds>>

Running(r) == InHand(r) /\ runs[r].status = "running"

\* A section whose content changed gets its next version; the signals of the
\* previous one are superseded.
SyncDay(r, d) ==
    /\ Running(r) /\ d \in runs[r].todo
    /\ runs' = [runs EXCEPT ![r].todo = @ \ {d}]
    /\ LET ver == sections[d].ver IN
       IF document[d] = sections[d].content THEN UNCHANGED <<sections, signals, reimported>>
       ELSE /\ ver < MaxVersion
            /\ sections' = [sections EXCEPT ![d] =
                 [ver |-> ver + 1, content |-> document[d], byRun |-> TRUE]]
            /\ signals' = [g \in Signals |->
                 IF g = <<d, ver + 1>> THEN "active"
                 ELSE IF g[1] = d /\ signals[g] = "active" THEN "superseded" ELSE signals[g]]
            /\ reimported' = reimported \ {d}
    /\ UNCHANGED <<jobs, dead, document, bounds>>

FailDay(r, d) ==
    /\ Running(r) /\ d \in runs[r].todo
    /\ runs' = [runs EXCEPT ![r].todo = @ \ {d}, ![r].failed = @ \cup {d}]
    /\ UNCHANGED <<jobs, dead, document, sections, signals, reimported, bounds>>

\* The run ends with its days, or fails as a whole with what it noted so far:
\* the retry reads a failed run's failure_dates as possibly missing.
Finish(r) ==
    /\ Running(r)
    /\ \E end \in IF runs[r].todo = {} /\ runs[r].failed = {} THEN {"succeeded"}
                  ELSE IF runs[r].todo = {} /\ runs[r].failed # Scope(runs[r].body)
                  THEN {"partial"} ELSE {"failed"} :
         runs' = [runs EXCEPT ![r].status = end]
    /\ UNCHANGED <<jobs, dead, document, sections, signals, reimported, bounds>>

\* The job returns once its run has ended, or an exception leaves it at any
\* point; nothing catches it and the task has no retry.
EndJob(r) ==
    /\ InHand(r)
    /\ \/ r \in Ended /\ jobs' = [jobs EXCEPT ![r] = "succeeded"]
       \/ jobs' = [jobs EXCEPT ![r] = "failed"]
    /\ UNCHANGED <<runs, dead, document, sections, signals, reimported, bounds>>

\* The worker dies: nothing takes the job up again.
Crash(r) ==
    /\ InHand(r) /\ crashes < MaxCrashes
    /\ crashes' = crashes + 1
    /\ dead' = dead \cup {r}
    /\ UNCHANGED <<runs, jobs, document, sections, signals, reimported, writes, imports>>

-----------------------------------------------------------------------------
(* The document and the legacy import                                      *)

Write(d, c) ==
    /\ writes < MaxEdits /\ document[d] # c
    /\ writes' = writes + 1
    /\ document' = [document EXCEPT ![d] = c]
    /\ UNCHANGED <<runs, jobs, dead, sections, signals, reimported, imports, crashes>>

\* _upsert_public_data: every source signal is merged as an active first
\* version; a section a run has written since is left alone.
ImportMutant(c) ==
    /\ imports < MaxImports
    /\ imports' = imports + 1
    /\ signals' = [g \in Signals |-> IF g[1] \in Legacy /\ g[2] = 1 THEN "active" ELSE signals[g]]
    /\ sections' = [d \in Days |-> IF d \in Legacy
                                   THEN [ver |-> 1, content |-> c, byRun |-> FALSE] ELSE sections[d]]
    /\ reimported' = reimported \cup {d \in Legacy : sections[d].byRun}
    /\ UNCHANGED <<runs, jobs, dead, document, writes, crashes>>

Import(c) ==
    /\ imports < MaxImports
    /\ imports' = imports + 1
    /\ signals' = [g \in Signals |-> IF g[1] \in Legacy /\ g[2] = 1 THEN "active" ELSE signals[g]]
    /\ sections' = [d \in Days |->
         IF d \in Legacy /\ sections[d].ver <= 1 /\ ~sections[d].byRun
         THEN [ver |-> 1, content |-> c, byRun |-> FALSE] ELSE sections[d]]
    /\ reimported' = reimported \cup {d \in Legacy : sections[d].byRun}
    /\ UNCHANGED <<runs, jobs, dead, document, writes, crashes>>

Worker(r) ==
    \/ FetchJob(r) \/ Claim(r) \/ Finish(r) \/ EndJob(r)
    \/ \E d \in Days : SyncDay(r, d) \/ FailDay(r, d)

Next ==
    \/ \E r \in Runs, b \in Bodies : Enqueue(r, b, "manual", {})
    \/ \E p, r \in Runs : Retry(p, r)
    \/ \E r \in Runs : Worker(r) \/ Crash(r)
    \/ \E d \in Days, c \in Contents : Write(d, c)
    \/ \E c \in Contents : Import(c)

Spec == Init /\ [][Next]_vars

-----------------------------------------------------------------------------
(* Properties                                                              *)

(* A run that has not ended has its job waiting, in execution, left behind *)
(* by a worker that died or failed by an exception: none is left without   *)
(* one, however requests are refused or retried, and a waiting job always  *)
(* finds its run queued.                                                   *)
RunsHaveJobs ==
    \A r \in Runs :
      /\ r \in Active => jobs[r] \in {"todo", "doing", "failed"}
      /\ jobs[r] = "todo" => r \in Known /\ runs[r].status = "queued"
      /\ r \in Known <=> jobs[r] # "none"

(* Two runs over the same range are never active together, be they manual   *)
(* or the retry of one another.                                             *)
OneActiveRunPerRange ==
    \A r, s \in Active : r # s => runs[r].body # runs[s].body

(* A retry goes over every day its predecessor failed on, although its      *)
(* range is made of the first and the last of them alone.                   *)
RetryCoversFailures ==
    \A r \in Known : runs[r].trigger = "retry" => runs[r].covers \subseteq Scope(runs[r].body)

(* The ledger's version of a day is the last one that has signals, and that *)
(* one is active: an import between two runs never makes a run number a     *)
(* version twice or list none as current.                                   *)
SectionKnowsLastVersion ==
    \A d \in Days :
      /\ \A v \in Versions : v > sections[d].ver => signals[<<d, v>>] = "absent"
      /\ sections[d].ver > 0 => signals[<<d, sections[d].ver>>] = "active"

(* What is shown of a day is the version on record and nothing older, but  *)
(* for the very first version where an import came after a run: it sets    *)
(* that one active again, until the day's section changes.                 *)
LastVersionShown ==
    \A d \in Days, v \in Versions :
      signals[<<d, v>>] = "active" => v = sections[d].ver \/ (v = 1 /\ d \in reimported)

(* The ledger of runs agrees with the queue, and the ledger of versions    *)
(* with the signals shown, in every order of runs, retries, imports,       *)
(* exceptions and deaths of the worker, also between a job's start and the *)
(* run's own.                                                              *)
LedgersAgree ==
    /\ TypeOK /\ RunsHaveJobs /\ OneActiveRunPerRange
    /\ SectionKnowsLastVersion /\ LastVersionShown
=============================================================================
