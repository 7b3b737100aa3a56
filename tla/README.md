# A TLA+ development of the financial research workbench

This directory holds TLA+ models of the parts of the workbench whose
correctness depends on the order in which concurrent parties act: API requests,
queue jobs, worker executions and their retries, scheduler ticks, scripts run
beside a working system, crashes. TLC checks the models on small instances;
TLAPS proves the most important results for every value of the constants.
`PROJECT.json` lists the components, the runs, the source lines of each
definition, the hazards and the theorems.

All source paths below are relative to `src/backend/app/` unless they begin with
`scripts/` (then `src/backend/`) or `src/`.

## 1. Inventory of the system

The workbench is a FastAPI service over PostgreSQL, one `procrastinate` worker
process (docker-compose starts exactly one, `restart: unless-stopped`), LangGraph
agents that debate an instrument, and a React frontend. State that matters is in
PostgreSQL tables, in the queue tables of procrastinate (same database), in the
LangGraph checkpoint tables, in HTML files on disk and, for the market indices,
in the memory of the API process.

| Component | State | Operations | Interacts with | Hard behaviour |
|---|---|---|---|---|
| Debate lifecycle (`api/decisions.py`, `services/debate_runner.py`, `models/debate.py`) | row of `debates`; queue job; the worker's ORM copy | create, cancel, resume; `execute_debate` | queue (defer in the same transaction; `cancel_job` in another), debate graph | cancel against completion, unlocked claim, stale copies, automatic retry against resume, worker death |
| Debate graph (`agents/decision/graph.py`) | checkpoint of a LangGraph thread; `model_assignments` | fresh turn, resumed turn, eight roles | LLM profiles, debate row | which turn is resumed with which models |
| Automation (`services/scheduler_service.py`, `services/automation.py`, `api/jobs.py`, `api/tasks.py`) | `automation_tasks`, `automation_runs`, settings `automationEnabled`, `lastAutomationTaskRun:*`, `lastDailyRun`; queue jobs | tick each minute, manual daily run, toggles, schedules, daily job | report store, pressure monitor, portfolio history, notification | at most once per day, overlap, abort of a tick, midnight, failure after the report |
| LLM profiles (`api/settings.py`, `llm/client.py`) | `llm_profiles`, `llm_agent_routes` | create, patch, delete, set default, put routes, resolve a role | debate create/resume (422 without a default), router | check-then-write races on default and enabled |
| Portfolio and analysis (`api/portfolio.py`, `services/analyzer.py`, `services/instrument_service.py`) | positions, watchlist, instruments, `analysis_status` | add, update, delete, analyze; the worker's analysis | queue, LLM, quotes | results written over newer edits, `analyzing` after a crash, find-or-create |
| Portfolio history (`services/portfolio_history.py`) | `daily_bars` | sync, curve and its coverage | providers, pressure monitor | row locks of overlapping syncs, coverage of the curve |
| Reports (`services/report_lifecycle.py`, `report_store.py`, `report_assets.py`, `report_actions.py`) | rows, files, personal states, links | create, import, delete, publish, daily upsert, mark, link | file system | file and row are not written atomically |
| Signals (`api/signals.py`) | signals, sections, user states, `source_sync_runs` | sync, retry, mark | queue, the legacy import | retry of a retry, replaced signals, two writers of one ledger |
| Pressure index (`services/pressure.py`, `pressure_monitor.py`) | daily bars, crossing signals | compute, monitor | providers, portfolio history (same rows) | locks held over awaits, crossing against status |
| Market cache and quotes (`services/market.py`, `api/market.py`, `main.py`) | process memory; `quote_overrides` | poll, snapshot; save and delete an override | providers | a poller between the reads of a request |
| Authentication (`services/auth_service.py`, `core/*`, `bootstrap.py`) | users, sessions, invites, rate-limit buckets | login, logout, register, change password, limit, make the superadmin | every request | revocation, windows, two makers of the superadmin |
| Legacy migration (`scripts/import_sqlite.py`, `repair_migrated_data.py`, `verify_migration.py`) | all tables, report files | import, quarantine, repair, verify | users at work between the runs | reruns, rebinding by symbol, files moved after the commit |
| Providers, research and briefing texts, templates, exports, DDL, frontend | – | – | – | no protocol of their own |

Not in the repository, and therefore modelled only from how the code uses them:
procrastinate, LangGraph and its PostgreSQL saver, SQLAlchemy's unit of work,
PostgreSQL, and the modules `services/run_lifecycle.py`, `repositories/scoping.py`,
`services/signal_ingestion`, `services/research_data_hub`,
`services/notification_delivery`, `agents/decision/role_registry.py`, and
`change_own_password` with the disabling of accounts.

### What makes each component correct

- **Debate lifecycle.** One active debate per owner and instrument; a queued
  debate always has a job that will run it; a cancel request is never erased by a
  stale write; a debate leaves `canceled` only through an execution that read it
  before; finished is final with one worker; every debate comes to rest if no
  worker dies.
- **Debate graph.** A report is made of one turn, from the evidence it shows, by
  one set of models; work of a failed attempt is continued, not repeated, when
  the models have not changed.
- **Automation.** A day's placeholder is taken only together with a run; a task
  is triggered once per day; `lastDailyRun` names a day whose report exists and
  never goes back; a due task is eventually triggered; every run ends.
- **LLM profiles.** At most one default; a route is served by the profile it
  names; a default, once there, is lost only by deletion.
- **Portfolio and analysis.** `analyzing` has a job behind it and ends; results
  describe a holding of the time since the request; one watchlist item per
  instrument.
- **Reports.** A report serves the text its row was saved with; content is
  missing only after a deletion; the automation makes one briefing a day; no link or
  personal state outlives its report, no automatic link the text it was made from.
- **Signals.** One active run per range; a retry covers what failed; the last
  version of a day is shown, none but the first ever beside it, and the ledger knows it;
  an active run has its job.
- **Bars, pressure, curve.** A crossing is stored with the rows it was computed
  from; crossing and status agree; the curve ends at what the portfolio is worth;
  every sync ends.
- **Market cache.** Once there is a market, every answer shows one; an answer that
  says "ok" is no older than the last fetch; the cache catches up; of an override the
  last accepted edit stands.
- **Sessions.** Attempts are bounded in any stretch of a window; a session rests on
  an attempt of its own that was let through; roles are stable, a revoked session stays
  revoked; a disabled account enters no handler.
- **Migration.** A rerun changes nothing; positions entered by users survive; no
  file is taken from a report; nothing refers to a removed instrument.

`PROJECT.json` lists under "hazards" where each of these could go wrong.

## 2. Plan

| Step | Modules | Composes / refines | State |
|---|---|---|---|
| 1 | `DebateLifecycle`, `DebateOutcome`, `DebateRefinement`, `DebateInvariant`, `DebateProofs`, `MCDebate` | lifecycle implements outcome | done |
| 2 | `DebateGraph`, `DebateGraphInvariant`, `MCDebateGraph` | attempts of one debate over a checkpoint thread; proved in `DebateProofs` | done |
| 3 | `AutomationRuns`, `AutomationInvariant`, `AutomationProofs`, `MCAutomation` | tick, runs, daily job | done |
| 4 | `LlmProfiles`, `LlmProfilesProofs`, `MCLlmProfiles` | the routing `DebateGraph` takes as an environment | done |
| 5 | `ReportStore`, `ReportStoreProofs`, `MCReportStore` | file and row; the daily upsert that `AutomationRuns` abstracts to a report's day | done |
| 6 | `Portfolio`, `PortfolioProofs`, `MCPortfolio` | positions and watchlist against analysis jobs | done |
| 7 | `SignalSync`, `MarketCache`, `Sessions`, `SessionsProofs`, `MCSessions` | – | done; the first two are run directly with `SignalSync.cfg` and `MarketCache.cfg` |
| 8 | `PressureIndex`, `PortfolioSeries`, `BarSync`, `MCBarSync` | `BarSync` EXTENDS the two pure modules: the functions are evaluated on the rows its jobs store | done |
| 9 | `LegacyMigration`, `LegacyProofs`, `MCLegacyMigration` | – | done; verification of equal lots only checked |
| 10 | `MarketProofs` | the proofs of `SignalSync`, `BarSync` and `MarketCache`, what comes in from outside | done |

`MarketProofs` extends three specifications at once and `DebateProofs` two, so the
definitions of `BarSync`, `MarketCache` and `DebateGraph` that every specification has
carry a prefix (`BarInit`, `CacheNext`, `graphVars`, ...).

Left for later: an abstract specification of a report store as a map from id to content, which the file and row protocol implements
outside of `torn` and `crossed`; a reader's own state of signals and of reports under concurrent
toggles.

## 3. The modules and the code

### 3.1 Debate lifecycle: `DebateLifecycle`

State:

| Variable | In the code |
|---|---|
| `rows` | table `debates`: status, `cancel_requested_at` set or not, `queue_job_id`, `attempt`, `progress`, report present |
| `jobs` | `procrastinate_jobs`: state, the debate it is for, attempts |
| `cancels` | `cancel_job` calls on their way after `cancel_debate` has committed |
| `pc`, `held`, `stage` | where each worker is in `execute_debate`, with which job, before which `update_stage` |
| `seen` | the ORM instance `debate` of the worker's session |
| `crashes` | history, bounds worker deaths |

The important modelling decision is `seen`. `SessionLocal` is created with
`expire_on_commit=False` and `autoflush=False` (`db.py:23`), so an execution works
on a copy that is re-read only by `session.refresh` (in `update_stage`) or after a
rollback that ends an open transaction. SQLAlchemy writes only the columns whose
value changed against the copy. `Flush(old, new, row)` says exactly that: a column
of the database row is overwritten only if `old` and `new` differ in it. Whether a
user's `cancel_requested_at` survives therefore depends on the copy, and the model
shows it.

Commits are the atomic steps. Between two commits the copy, not the row, is what
the code decides on; `SELECT ... FOR UPDATE` without `populate_existing` locks the
row but does not refresh an instance already in the session, so `Save` and
`Converge` decide on `seen` (`errorStale`) or, after a rollback that had something
to undo, on a fresh row (`errorFresh`).

`Create`, `Cancel`, `Resume` are the handlers of `api/decisions.py`, each with its
deferred or cancelled job; `Load` … `Converge` are the segments of
`execute_debate`; `Fetch`, `Return`, `JobRetried`, `JobFailed` are procrastinate's
side, with `retry=3` of `tasks.py:102` as `MaxRetries`; `Crash` is the death of a
worker, after which its job stays `doing`.

`DebateOutcome` is the abstract specification: per debate the status the user sees
and whether a cancel stands, per worker only what it may act on (nothing, a row
read without cancellation, one with it, or "will look again"). It allows a status
change only to the user or to an execution acting on what it last read.
`DebateRefinement` holds the refinement mapping.

### 3.2 Debate content: `DebateGraph`

One debate whose attempts run a LangGraph workflow over one checkpoint thread.
`routing` is what `make_role_chat_router` would return now, as an opaque value for
all eight roles (`LlmProfiles` models how it comes about); `debate` the row;
`thread` the checkpoint (turn number, the turn's input, the set of nodes that
succeeded, and what each node last left in the channels: turn, models, evidence);
`attempt` the locals. Channels are not cleared by a new turn, exactly as with
LangGraph, so "no part of an older turn reaches the report" is a property and not
an assumption. Evidence is named by the attempt that collected it. `Route` freezes
the router and commits `model_assignments` together with the decision to resume;
`FreshTurn`/`Continue` is the entry of `run_debate_graph`; `RunNode(n)` follows the
edges of `build_graph`; `Fail` may happen at every place that raises, `Stop` where
`update_stage` is called. Delivery and retry are abstracted: a queued or failed
debate may be attempted again. A worker death is left out because the job of a
dead worker is never fetched again, so its thread is never continued. `lost` is a
history variable of two properties; nothing reads it but `Fail` and `FreshTurn`,
which maintain it.

### 3.3 Automation: `AutomationRuns`

`tasks`, `switch`, `last`, `lastDaily` are `automation_tasks` and the settings
`automationEnabled`, `lastAutomationTaskRun:{id}`, `lastDailyRun`; `runs` is
`automation_runs`, each row with the state of its queue job (run and job are
created in one transaction and are never retried); `proc` says where each worker
is in a tick or a job, with the locals `now`/`today`, the enabled due tasks it has
loaded, and the placeholder it has read. A tick commits once per task, so `Look`
(read the placeholder) and `Place` (placeholder, run and job) are separate steps;
`Abort` is the `IntegrityError` nobody catches. The daily job is `DailyStart`,
`DailySkip` or `DailyBegin`, `DailyReport` (which commits on its own),
`DailyFinish` or `DailyFail`. `Clock` lets minutes and days pass at any time, also
in the middle of a job. Not modelled: the status strings of single steps, the
signal sub-run, the redundant setting `dailyScheduleTime`, and step contents.
`services/run_lifecycle.py` is absent from the repository: `create_automation_run`,
`mark_run_running` and `finish_run` are taken to do what their callers rely on.

### 3.4 Model profiles and routes: `LlmProfiles`

`profiles` and `routes` are the two tables of one user (every statement of
`api/settings.py` is scoped to the user, so users do not interact); `request` is
what each handler in progress has read. `Begin` is everything a handler checks,
`Create`, `SetEnabled`, `SetDefault`, `Delete`, `PutRoutes` the one transaction it
ends with, `Refused` a transaction that an index, a foreign key or a vanished row
refuses, or that is cut off. The unit of work writes only columns that differ from
what was read, which is why `SetEnabled` may write nothing. `UPDATE ... SET
is_default = false` may run before or after a row another handler inserts is
committed: `reach` is that choice. `Resolve` is `make_role_chat_router`'s choice of a
profile. `stale` is a history variable: some handler wrote after another commit had
changed what it had read. Two properties hold for all behaviours, two only while it
is false, and section 4 shows why.

### 3.5 Reports: `ReportStore`

`rows`, `files`, `states`, `links` are the three tables and the directory
`data/reports/<day>/<id>.html`; `op` is what each request and the worker's daily job
is in the middle of. A save is `StartSave` (the row is built; `Research`, `Import`,
`Briefing` differ in owner, visibility, id and day), `WriteFile`, `Merge`
(`session.merge` loads the row, unless the session holds it since
`_find_existing_automation`) and `SaveRow` (flush, automatic links, commit). The flush
writes the columns in which the new row differs from the loaded one (`Flushed`), so that
two saves that overlap may leave the text of one with the day, visibility or links of the
other; it is refused when the row has come or gone since the merge (`SaveRefused`). An
import takes id, day, title, topic and type from its caller and is the automation's when
the caller names that origin or a scheduled source (`services/report_lifecycle.py:168`):
`daily` is the whole of what `_find_existing_automation` looks for, so that an imported
report may be a second briefing of its day, or the one the worker goes on with. A deletion
is `DeleteFile`, `DeleteRow`; a toggle of star or archive reads in one step and writes in
another. `Fail` ends any of them between two steps and leaves on disk what is on disk. A
text stands for a brief and everything rendered from it. `unlinked` (files removed by a
deletion and not rewritten), `torn` (ids with a save that failed after its file was
written), `crossed` (ids two saves of which overlapped) and `claimed` (ids an import named
the automation's) are history. `OneBriefingPerDay` leaves out `claimed`,
`AutoLinksFollowText` leaves out `crossed`: what is left is what the code can promise.

### 3.6 Positions, watchlist, analysis: `Portfolio`

`rows` is both tables, told apart by `kind`; shares stand for shares and cost, a
note for the texts the analysis may overwrite, `snap` for the holding recorded in
`analysis_detail.position_snapshot`. `AddRead`/`AddWrite` are the two halves of an
add: what it finds (instrument, the user's own item) and the insert or update in its
commit; `AddRefused` is the unique index that then refuses. `Begin`, `Write`,
`AnalysisFails` are the worker in `analyze_position` and `analyze_watchlist_item`:
the row is read and `analyzing` committed, the LLM is called without a lock, and the
columns are updated by primary key from the copy. `BeginRaises` is an exception
before the `try` block (the task is retried twice), `WorkerDies` a death at any
place, after which the job is never fetched again. `held` (the holdings since the
analysis was asked for) and `lost` are history.

### 3.7 Signals: `SignalSync`

`runs` is `source_sync_runs`, `jobs` the job of each run, `sections` and `signals` the
versions of each day, `document` what Feishu holds. `Enqueue` and `Retry` are the
requests of the superadmin. The worker takes a job (`FetchJob`) before the run knows of
it; `Claim`, `SyncDay`, `FailDay` and `Finish` stand for the ingestion
(`execute_signal_sync_run`), which is not in the repository: they are known only by the
columns it fills, and are marked external; that a changed section gets the next version
and supersedes the signals of the previous one is taken from those columns, and what the
properties say of versions is about this and the import meeting. What is in the repository is what surrounds them:
`sync_feishu_signal_source` has no handler and its task no retry (`tasks.py:68`, `:108`),
so that an exception may end the job at any point (`EndJob`) and a death leaves it
`doing` for ever (`Crash`, `dead`), both also before the run's own first commit. The run
then stays queued or running. `Import` is `_upsert_public_data` of the legacy
import, the second writer of the same two tables: it merges every source signal as an
active first version and leaves a section alone that a run has written. `covers`, `dead`
and `reimported` are history.

### 3.8 Bars, pressure, curve: `PressureIndex`, `PortfolioSeries`, `BarSync`

`PressureIndex` holds the functions of `services/pressure.py` and `PortfolioSeries`
those of `services/portfolio_history.py`, without state and without rounding: a ratio
is a fraction, a percentile a multiple of `1 / Scale`, and windows are defined over
sets of dated rows. `BarSync` extends both. A job (pressure monitor, portfolio sync,
the bars an analysis fetches) is one transaction: `pend` are the rows it has written
and therefore locked, `read` what it had loaded before, `cross` and `dels` the
signals it adds and removes. `UpsertBars` takes the row locks or blocks; psycopg2
blocks in the event loop, so a blocked job keeps the loop (`Busy`, `LoopFree`). `Unblock` is an
upsert that goes on after the other's commit, or the `IntegrityError` of an insert;
`Abort` is PostgreSQL ending one transaction of a cycle; `Stop` the end of a process.
Providers answer with every bar up to today or fail, so `bars[s] = d` says which rows
are stored. An exchange that cannot be reached looks like one without bars
(`providers/eastmoney.py:581`), so that the rows of a six-digit code may come from the
fund interface in either case (`Fetch`).

### 3.9 Market cache and overrides: `MarketCache`

The poller of `main.py` assigns the fields of `_cache` one after the other in the
event loop, and `get_market_snapshot` reads them one after the other in a thread of
the pool; each assignment and each read is a step. Time stamps are set or not, the
market is a number. An override of a quote is a row of columns that a request reads
(`BeginSave`, `BeginDelete`) and writes at its commit: a save assigns its body to the row
it read, and only the columns this changed are flushed (`Flushed`), so that two saves
that overlap may leave a row that neither submitted. A save is refused when the row has
come or gone meanwhile; the deletion of a row that is gone is accepted. `reader.had`,
`reader.failed`, `reader.due`, `tried`, `standing` and `crossed` are history: what a
request found when it began, the market when a fetch last ended, the last accepted edit
and the bodies other saves left while it was under way.

### 3.10 Accounts and sessions: `Sessions`

`Login` and `Register` are the attempt and the checks (the rate limiter commits
first), `Insert`, `RegisterLogin`, `Issue` the rest of them; `Look` and `Admit` are the
two reads of `get_current_user`, the session's row and the user's, after which a handler
works with what was read. The commit in `Admit` writes `last_seen_at` alone, which is why
a session revoked between the two stays revoked. `ChangePassword` is the handler, and
`ChangeOwnPassword` what it calls, which is not in the repository: that it revokes the
other sessions is taken from the arguments and the answer of the call, and no property
rests on it. `Bootstrap` and
`BootstrapInsert` are the two halves of `ensure_superadmin`, `EnsureAdmin` the one of
the import. A window is `Window` seconds and starts at its multiples, as
`window_start` does. `admitted` (the attempts let
through, those of one second numbered) and `by` (of a handler and of a session, the
attempt it rests on) are history.

### 3.11 The legacy data: `LegacyMigration`

`Import(s)` is one run of `scripts/import_sqlite.py --apply` on a snapshot `s`: the
phases of `run_import` as operators over the tables, in the order of the code
(`Ensured`, `Watched`, `Held`, `Merged`, `Scheduled`, `Swept`), in which a source row
is matched against the list read at the beginning and extended on the way, so that an
item rebound earlier in the same run is still paired with its old instrument
(`pairs`). A row whose code and market name no instrument is skipped (`Unresolved`).
`Clash` is a primary key or the unique index that rolls the run back. `Quarantine` moves the
listed files after the commit, or the script dies first. `Repair` is
`repair_migrated_data.py`; `LegacyReportsHome`, `LegacyPositionsHome`,
`LegacyWatchHome` are what `verify_migration.py` demands. Users add, edit and delete
rows, link instruments and save reports between the runs and between a commit and its
file moves. `last`, `touched`, `byHand`, `raced` are history.

`LegacyPositionsHome` says of the whole list what the script finds row by row: every
source row normalises, no position with its symbol and numbers lies on another identity,
and equal rows have as many positions. `ScriptsDeliver` excuses an import from it only
where a user entered or changed a position of the superadmin that has a row's symbol and
numbers, or entered the instrument of a row (`ByHand`); `byHand` follows those positions,
so that what another snapshot brought excuses nothing. A repeated import may change tasks
only when a task no snapshot has carries the name of a source task (`TaskByHand`).

`OnlyUsersBlockImports` needs the exceptions of `InTheWay`, all of them about a
position an earlier import stored under the id that this import derives from the same
source row (`_stable_uuid`): it is found again by symbol and numbers, so that a
snapshot in which the legacy shares, cost or symbol of a row have changed does not
find it, inserts a second position under the same id and is rolled back
(`scripts/import_sqlite.py:573` to `:592`); and neither does a row whose equal comes
before it, or one that finds two equal lots and none on its own instrument. The
snapshot `grown` shows the first, which `MCLegacyMigration_StableKeysUpsert` keeps as a
disagreement. For a list that only corrects identities, which is
what the script is rerun for, nothing but a user's step stands in the way.

## 4. What TLC checks

| Run | Instance | Shows |
|---|---|---|
| `debate_deployed` | 1 worker, 2 debates on one instrument, 2 jobs, 1 retry, 1 worker death, fair | a queued debate has its job; the lifecycle implements `DebateOutcome`; a canceled debate changes only blindly; finished is final; every debate settles and a cancel takes effect, both unless a worker dies |
| `graph_attempts` | 2 sets of models, 4 attempts | what a report is made of, and what a continued turn reuses |
| `automation_scaled` | 2 workers, a daily task, 2 days of 2 minutes, 3 runs, 1 manual, 1 death | placeholder, run, report and day mark stay together across midnight |
| `automation_live` | 1 fair worker, a daily and a generic task, 1 day, no death | one scheduled run a day, every run settles, a due task is triggered |
| `reports` | 2 requests and the daily job, 2 ids, a briefing of today or none at the start, 2 texts, 2 days, imports with and without the automation's name, 2 saves, 1 edit, 1 mark or fault | file, row, links and states against failures and overlaps |
| `portfolio` | 2 rows, 2 requests, 2 jobs, 2 holdings, 1 retry, 3 edits, 2 faults, fair | status and job, snapshot, one item per instrument, an analysis ends |
| `profiles_overlap` | 3 profiles, 2 roles, 2 overlapping requests, 5 in all | routes and default under overlap |
| `migration_rerun` | 3 snapshots, 3 instruments (two with one symbol), ids of the sources and one of users for positions and for tasks, 3 script runs, 2 user steps | reruns, rebinding, quarantine, repair, what users keep |
| `signals` | 3 days, ranges of 2, 2 runs, 1 edit, 1 import, 1 death, exceptions without bound | runs and jobs, the two ledgers, retries |
| `sessions` | 2 names, 2 handlers, 2 sessions, windows of 2 with limit 1, 3 attempts | limiter, sessions and the attempts they rest on, roles, revocation |
| `bars` | 2 jobs on 2 loops, 2 themes over 3 secids, 3 holdings and a foreign stock, 2 markets, 2 days, fair | locks, crossings and their rows, the curve, syncs end |
| `market` | 1 reader, 2 edits at once of 2 columns with 2 values, a market that moves twice, 2 turns of the session or the providers and edits together, fair | honest answers, edits that stand, the cache catches up |

Why the bounds suffice.

- Debates: the races need one execution, one user and at most one other job of the
  same debate; a second debate is needed only for the unique index. Two marks stand
  for "a stage that is not the last" and "the last stage before saving".
- Four attempts of a debate are one more than the longest known way to a mixed
  report.
- Days: a today and a yesterday are all that comparisons of dates tell apart.
  `LastMinute = 0` makes a schedule either due or not understood; the run with two
  workers has a minute before the due one as well.
- Reports: two saves are the least in which one overwrites or overlaps another, and
  two ids the least in which a briefing may find another of its day; the briefing that
  may be there at the start stands for the saves before.
- Portfolio: two jobs of one row are a repeated analysis, three edits the least in
  which a holding changes twice around an analysis.
- Profiles: three are a default, a routed one and a candidate for promotion.
- Migration: an ETF and a fund with one symbol is the case the import rebinds; the
  second snapshot corrects the first, the third changes the numbers of its position;
  three script runs are import, correction and import again.
- Signals: three days and ranges of two make failures that fit in one retry and
  failures that do not.
- Sessions: `Window = 2` and `Limit = 1` have a window's end next to the next one's
  start, where the double limit is reached; `SessionTTL = 0` lets a session expire
  within the three instants of the run.
- Market cache: two columns are the least in which overlapping saves mix, and a market
  that moves twice has one that is old, one that is shown and one that is current; an
  edit shares no state with the cache, so that turns and edits share a bound.
- Bars: windows of two and periods of one or two days let an index exist on some rows
  and not on others; the market "level" has missing days and volumes, "rising" none.

Bounds are constants of the modules and named there (`MaxRetries`, the code's own;
`MaxCrashes`, `MaxEdits`, `MaxTurns`, `MaxFaults`, `MaxRequests`, `MaxScripts`, `MaxAttempts` and
the like; `LastDay`, `LastMinute`; the sizes of the sets). `CHECK_DEADLOCK FALSE`
everywhere: when all debates are finished, all days used or all bounds reached, the
modelled part of the system really has nothing to do. Symmetry is used only in runs
without liveness properties.

The type invariant and three to four safety properties of a component are often one
conjunction (`ReportsConsistent`, `LedgersAgree`, ...); the parts are named, each with
what it says. Several properties are theorems only, because the theorem covers every
instance: `TypeOK`, `OneActive`, `CancelRequestSurvives` of the debate lifecycle,
`TypeOK` of the graph, `TypeOK`, `NoReportAfterCompletion`, `OneDailyAtATime` of
automation, `TypeOK`, `OneDefault` of the profiles.

### Disagreements with what the repository says

Each configuration below checks one sentence the repository says of the program, and
TLC finds it violated (the technical plan is
`src/.doc/投研工作台全栈重构技术方案.md`): `tlc -config <configuration>.cfg <module>`, where the module is
the part of the name before the underscore. They are kept beside the runs and show
what the other properties have to leave out.

| Configuration | Says | What the counterexample does |
|---|---|---|
| `MCDebate_CancelFirstWins` | “取消先到则取消、完成先到则 409” (`api/decisions.py:175`; the lock is at `services/debate_runner.py:147`) | cancel commits after the last `update_stage`; the terminal transaction writes `done` over `canceled` |
| `MCDebate_FailureRespectsCancel` | “先恢复 Session，再锁定最新业务行……并尊重并发取消” (`debate_runner.py:176`) | cancel, then a node raises; `failed` is written over `canceled` (`:178`) |
| `MCDebate_OneWaitingJob` | “以 `debate_id` 为 procrastinate queueing lock……重复投递去重” (technical plan, line 530) | resume while a retry waits: two waiting jobs for one debate; the job is deferred without a lock (`api/decisions.py:238`) |
| `MCDebate_CrashRecovery` | “procrastinate 重新领取……无检查点的 running 任务超时后标 failed” (technical plan, lines 707, 710) | the worker dies: the debate stays `running` for ever (fair specification); nothing fetches a job left `doing` or times out (`tasks.py:99`) |
| `MCDebateGraph_OneAssignment` | with other models the whole graph is run again, “避免把旧分析与新模型混为同一场” (`debate_runner.py:109`) | routes change, the next attempt fails before the graph, the one after continues the old turn with the new models (`:114`) |
| `MCAutomation_TickServesEveryTask` | “单任务失败不影响其他” (technical plan, line 735) | a manual daily run is active; the tick aborts at the daily task (`services/scheduler_service.py:75`) and the other due task is not triggered |
| `MCLlmProfiles_DefaultStaysEnabled` | "默认 Profile 必须保持启用" (`src/frontend/src/pages/SettingsPage.tsx:46`) | one request makes a profile the default while another, which read it as not the default, disables it (`api/settings.py:228`) |
| `MCLegacyMigration_WatchlistVerifies` | the legacy watchlist is wholly covered after an import (`scripts/verify_migration.py:209`) | two stocks with one symbol: the second finds the item of the first as its only candidate and takes it over (`import_sqlite.py:537`), although an instrument is identified by exchange and class as well (`models/instrument.py:4`) |
| `MCLegacyMigration_StableKeysUpsert` | “迁移通过稳定主键/UUID5 upsert” (`scripts/import_sqlite.py:3`) | the legacy numbers of a position change between two imports, no user did anything: the second does not find it by symbol and numbers (`:573`), inserts its row under the same stable id (`:592`) and is rolled back |
| `MCSessions_StartSucceeds` | "幂等：超管已存在则跳过" (`bootstrap.py:3`) | the import makes a second superadmin under a new configured name (`import_sqlite.py:140`); at the next start the query for one row raises (`bootstrap.py:26`) |
| `MCBarSync_LoopGivenBack` | “同步 SQLAlchemy 阻塞事件循环……路由用 `def` 走线程池” (technical plan, line 1025) | two syncs in the API's one event loop write the same rows: the second waits in psycopg2 for a lock and keeps the loop in which the first would commit (`services/pressure_monitor.py:178`, `api/pressure.py:26`, `api/portfolio.py:281`) |

Two smaller ones, not modelled as properties: the sync of a fund listed as a stock
stores the bars under the fund's secid (`services/portfolio_history.py:300`) and reads
them back under the stock's (`:174`); and an imported report is shared where the
documentation says private by default.

### Fairness

Every live run assumes weak fairness of the processes the deployment keeps alive, and
of nothing a user does.

- `DebateLifecycle!FairSpec`: each worker's steps. The procrastinate worker polls for
  ever and every LLM call has a timeout (`llm/client.py:99`). No `CancelJob` delivery
  and no death is fair. A debate whose worker died is excused by the two liveness
  properties: for it they are false, which `MCDebate_CrashRecovery` shows.
- `AutomationRuns!FairSpec`: weak fairness of a worker inside a tick or a job; strong
  fairness of starting a tick and of fetching each job, because procrastinate serves a
  queue in order of job ids, so a waiting job cannot be overtaken for ever by later
  ones, and the periodic tick is deferred every minute. The clock and the superadmin
  are not fair. The run excludes worker death.
- `Portfolio!FairSpec`: some waiting job is fetched, and the worker's run ends; a run
  whose worker died or whose task raised before its `try` is excused (`lost`).
- `BarSync!FairBarSpec`: the steps of each job: providers answer or time out (httpx),
  loops run their coroutines, PostgreSQL hands a lock to the one who waits and ends a
  cycle of waits. The two jobs of the run are on two loops, as a request and a
  worker's job are; on one loop the property is false (`MCBarSync_LoopGivenBack`).
- `MarketCache!FairCacheSpec`: the poller. `CacheCatchesUp` speaks of behaviours in which a
  session stays open and the providers stay up.

## 5. What is proved

TLAPS checks every theorem and lemma of the `*Proofs` modules, for all values of
the constants that satisfy the assumption named in the module: sets of debates,
jobs, tasks, workers, profiles, rows, days, names of any size (no finiteness is
assumed, except of the profiles, whose defaults are counted, and of the holdings and
the bars of a market, which are summed), and any value of the bounds.

| Assumption | Says | Because |
|---|---|---|
| `DebateAssumption` | `NoDebate`, `NoJob` are no debate and no job; there is at least one progress mark | a row without a job and a job for nobody are told apart from real ones; `execute_debate` calls `update_stage` at 20 before the graph and at 99 before saving |
| `GraphAssumption` | `None` is no assignment | a debate without `model_assignments` |
| `AutomationAssumption` | daily tasks are tasks; the kind `daily_briefing` and the empty task id are no task's id; there is a first day | `uuid` task ids; `task_id` is `NULL` in a manual run |
| `ProfilesAssumption` | finitely many ids; "no profile" and "no route" are none | `uuid` ids; the partial unique index counts defaults |
| `PortfolioAssumption` | "no row", "no job" are none; no holding is 0 | 0 names a snapshot not yet taken; holdings are values of a set and never computed with |
| `SignalAssumption` | days are numbers with a last one; legacy days are days; no content is 0 | dates; a section without a row has no content |
| `SessionAssumption` | configured names are names; "no name", "no token" are none; window and limit are positive, and the clock reaches the end of the first window | settings of the limiter |
| `ReportAssumption` | the administrator and the readers are users; a text mentions a set of instruments, and some are known at first; an import may claim the automation's origin and title; the worker is no request; "no file", "no row", "no state" are none | one `superadmin`; `sync_auto_report_asset_links` scans the text |
| `BarAssumption` | there is a first and a last day; the curve reaches back by a number of days; the themes' secids and what a resolver names can be stored; what is held is an instrument | `THEME_CONFIGS` and `resolve_bar_secid` |
| `MarketAssumption` | a theme has sub-indicators of the three kinds over stored secids; a market has finitely many bars of a secid, one a day, with positive closes; "no price", "no secid" are none | `THEME_CONFIGS`; the unique index of `daily_bars`; prices are counted in their smallest unit |
| `HeldAssumption` | finitely many positions with amounts | rows of one user; shares and cost in their smallest units |
| `PressureAssumption` | windows and periods are positive, the lower threshold is below the upper; `Scale` is a multiple of every size a window can have | constants of `services/pressure.py`; a percentile is then a whole number of `1 / Scale` |
| `MigrationAssumption` | "no row", "no snapshot" and "unresolved" are none; test accounts are not the superadmin | `uuid` ids; `repair_migrated_data.py` names its accounts |
| `SourceAssumption` | a snapshot is a list of rows of the four tables, each with an instrument or unresolved; no two positions have one id | primary keys of the SQLite tables |
| `CacheAssumption` | "nothing" is no number, no override and no accepted save | `_cache` starts with no indices; a code may have no override |

### Debate lifecycle: `DebateProofs`

`OneActive` and `QueuedHasJob` are not inductive. That a queued debate has a job
that will run it is only kept because (`QueuedInv`) no `cancel_job` call is on its
way to that job and no worker that holds the job has got past its first commit;
this in turn needs that one job is held by one worker (`HoldInv`), that rows and
jobs refer to each other (`RefInv`), and that a worker which will still write has
a copy without a cancellation (`CopyInv`). `OneActive` enters because `Resume`
makes a finished row active again, and the unique index refuses it. `DebateInv` is
the conjunction; `DebateProofs` shows that `Init` implies it and that every action
preserves it, with one lemma per group of actions and one on what `Flush` leaves
alone. The theorems are

- `DebateOneActive`, `DebateQueuedHasJob`, `DebateTypeOK`;
- `DebateCancelRequestSurvives`: only `Resume` clears a cancel request, whatever
  a stale copy writes;
- `DebateCanceledUnlessBlind`: a canceled debate changes only through an execution
  that read it before the cancel, or through `Resume`;
- `LifecycleImplementsOutcome`: `DebateLifecycle` implements `DebateOutcome` under
  the mapping of `DebateRefinement`. Each action is shown to be one action of the
  abstract specification or a stutter; `CopyInv` is what makes a write over a
  cancellation impossible except for a worker the mapping calls blind;
- `DebateDoneIsFinal`: a finished debate never changes again, under the hypothesis
  that there is one worker, as `docker-compose.yml` starts one. `DoneInv` says that a
  worker which will still write or claim works on a debate that is not done. With two
  workers neither holds: the claim in `execute_debate` takes no lock, so two jobs of
  one debate may both have read it as queued, and TLC finds the behaviour.

### Debate graph: `DebateProofs`, second part

Channels keep what earlier turns left, so "a report is of one turn" needs to know
which channels are of this turn: `NodesInv` says that nodes which succeeded in the
turn did so after all the nodes they wait for and on the evidence of the turn. A
report is saved when `persist` has succeeded, and every node is before `persist`
(`AllBeforePersist`, from the edges of `build_graph`): `GraphReportIsWhole`, of one turn
and of the evidence beside it. `AssignInv` ties the three
copies of the assignments (row, locals, turn input) for every position of the
attempt, as long as no attempt was lost between `Route` and the graph; this gives
`GraphOldTurnOnlyAfterLostTurn` and `GraphWorkIsKept`. The exception cannot be
removed: it is the behaviour of `MCDebateGraph_OneAssignment`.

### Automation: `AutomationProofs`

The key is `RowsInv`: while a run of a kind is active no later row of the kind
exists, because the unique index refused it. With `RunnerInv` (a run in execution
is held by one worker and its row is `running`) it gives `DailyJobsApart` for any
number of workers. `DayInv` then bounds what the daily job may still write by what
it read at its start: `lastDaily <= today <= day`, and `lastDaily < today` for a
scheduled run, because nobody else can have moved the mark meanwhile. From this
follow `DayMarkMovesForward`, `DayMarkHasReport` and `NoSecondReport`;
`SlotHasRun` rests on placeholder, run and job committing together. All steps of
an execution are first shown to satisfy one relation, `Advance`, which says what
may happen to the row, the worker and the day; the invariants are proved from it.

`TriggeredOncePerDay` (the schedule triggers a task at most once a day) has the
hypothesis of one worker as well. `SlotsInv` says that every run a tick made is of a
day its task's placeholder has reached, and that a tick under way reads no earlier
day than any placeholder; the second half is what two ticks at once would break, and
a tick that decided before midnight and places after it is the hard case. The steps
of the runs do not touch slots (`SlotsKept`); the rest is the tick's.

### Profiles: `LlmProfilesProofs`

`ReadInv` keeps, for every handler in progress, what it had checked of what it read:
a commit over unchanged tables may therefore rely on it, and any other sets `stale`; `NewIdInv` that nobody
else uses an id a create is about to insert; `RouteInv` and `DefaultInv` that routes
name present (and, unless stale, enabled) profiles and that the default is enabled.
`ProfilesOneDefault` rests on the index alone, for any overlap. From the invariant
follow `ProfilesRoutesServe`, `ProfilesDefaultServes` and, as an action property,
`ProfilesDefaultLost`.

### Portfolio: `PortfolioProofs`

`Pending` are the rows with a live job. `StatusInv` says that `analyzing` means
pending or lost, `WorkerInv` that a worker in the middle of a task holds a job in
execution for a real row, and `HeldInv` that the history of a pending row contains
both its present holding and the one the worker read, which is what
`SnapshotSinceRequest` needs at the moment of the write. `WatchedOnce` needs nothing
but the unique index, at each insert.

### Sessions: `SessionsProofs`

`RequestInv` says that a handler that logs in or is inside acts for an account that
exists, `OwnerInv` the same of a session, and since no action removes an account both
stay. `SessionsRest` says that every session rests on an attempt of its own that the
limiter let through for its user. That is kept because (`HeldInv`) a handler between
attempt and session holds an attempt of its name that no other handler holds and no
session was made of, and attempts of one second are numbered (`PassInv`). What a change of
password revokes plays no part in it. `AccountsStandStill` is the action property: roles
never change, a handler is entered only for an account that was active when its row was
read, and a revoked session stays revoked.

`AttemptsStayBounded` needs no induction over time. A stretch as long as a window
meets two windows of the limiter at most (`TwoWindows`, integer division), and for
each window the bucket has counted every attempt before it was judged, so that it is
never behind the number let through, which the limit stops (`WindowInv`); the bound
is the sum of two such sets. Twice the limit is what the code gives, not the limit: a
burst at the end of a window and one at the beginning of the next are let through.

### Reports: `ReportStoreProofs`

`StoreInv` is inductive. To `ReportsConsistent` and `MissingOnlyByDeletion` it adds
what requests in the middle of a save are about to do: `BriefInv`, that of the ids no
import claimed only the worker saves briefings and that the one it saves is the only one
of its day; `CopyInv`, what the copies of the row can be that saves hold and will flush
against; `LostInv`, that a row about to be committed will find its file unless a deletion
took it in between; `SingleInv`, that a report no saves of which overlapped has one save
at a time, whose copy keeps day and text, so that a flush of the changed columns is as
good as one of all; `WholeInv`, that if none failed late either, its file is ahead of the
row only between the write and the commit. `StoreConsistent`,
`StoreMissingOnlyByDeletion` and `StoreServesItsText` follow. The exceptions (`unlinked`,
`torn`, `crossed`, `claimed`) are what the code does: two saves of one report that overlap
may leave the file or the links of one under the text of the other.

### Signals: `MarketProofs`, first part

The invariant has two independent halves. `RunsInv`: run and job are inserted in one
transaction, and whatever is raised or dies between them later, a job is waiting only
while its run is queued and an active run has its job waiting, in execution or failed; the active key is unique, and a retry's range runs from the first to the last failed
day, so that it contains them all (`Min` and `Max` exist because days are numbers with
a last one: from the well-foundedness of `<`). `VersionsInv` needs `FirstVersions`: a
section no run has written is at version 1 at most, which is why an import, writing
version 1, never hides a later version from the ledger and shows none but the first
beside it.

### Bars and their signals: `MarketProofs`, second part

`BarsAndSignals` says that a signal is stored only together with the bars it was
computed from, that no theme has two of one day, and that a row has one writer. The
inductive `BarInv` relates each job to the committed rows (`JobOk`): it works on what
its kind allows, and the crossings it will add are one a theme and computed from rows
that are never ahead of those it will commit, `Later(bars, pend)`. The last survives
another job's commit because stored rows only grow, and a roll-back because it drops
crossings and rows together. `OneWriter` is the row lock: a writer that has to wait
holds nothing of that secid.

The functions are proved too. `CrossingIsAMove`: a theme said to have crossed a
threshold upwards is never shown as one that does not rise, and the other way round,
for every composite whose days are days and whose sums are integers. That the
composites of the code are such is the harder half of `CrossingAgrees`, which carries
every reachable set of rows through the index: the closes and volumes of a secid are a
function of the day, a mean or a return a fraction with a positive denominator, a
percentile the rank of a fraction in its window (`RankFacts`), a day's composite a sum
over the theme's sub-indicators that lies between 0 and full scale. `CurveEnd` is the
same for `portfolio_history.py`: the last point of the curve is at the as-of date, the
sum of shares times latest close over the positions that have one, beside the sum of
their costs; earlier days may lack positions, full coverage begins no later than the
end.

Sums over sets are folds of the library, of which the provers know nothing, and
induction over the size of a set is not available as a rule with an operator in it. It
is replaced by a least counterexample: among the sizes for which a claim fails there
would be a least one (`Least`, from the well-foundedness of `<`), and it does not fail
there. In this way a recursion over the subsets of a finite set is shown to have a
solution (`RecursionExists`), the fold to be one (`SumIsSumming`), and any two
orders of summing to agree (`SummingCoheres`); from this follow that a sum takes its
terms in any order (`SumTakesAny`), that terms that are 0 may be left out
(`SumOfPart`), and bounds (`SumIsBounded`).

### The market cache: `MarketProofs`, third part

`CacheInv` says what the poller has done where it is (`PollerInv`) and, for every
request under way, what it may still find (`ReaderInv`): once there was a market when
the request began, there is one at each later read, and a failure it could have seen
is still in the error field or in the status it has formed, and while it may still say
"ok" the cache is no older than the fetch that had last ended when it began (`Promising`,
`due`). `SnapshotsAreHonest` follows for any number of requests. It rests on the order of the assignments
(indices, time stamp, error last) and of the reads (error before status before
indices), not on a lock: there is none.

`EditsStand` is about overrides with any columns. `EditInv` says of a save under way that
each column of the row still is as it read it, or another save has changed it since; the
flush of the changed columns then leaves in each column what the save submitted, or what
it found as submitted and a save that crossed it changed.

### The legacy data: `LegacyProofs`

`LegacyInv` adds to `RowsAndFilesAgree` that a file listed for the quarantine had no
row when it was listed (`ListedBefore`), and, as long as users have not touched them,
what only the scripts write (`OnlyScripts`): all instruments and positions are theirs,
each symbol has one watchlist item, and it lies under an id that an instrument of its
symbol has. The last is what the import needs, because a new item takes the id of its
instrument and a later import may rebind it to another of the symbol.

Three phases of an import are loops, each row of which is matched against what the
rows before it left. A loop is a fold over a sequence, for which the library has no
theorem; as with sums it is shown to be a recursion over the sets of rows already done
(`FoldingStays`), and then what a turn keeps is kept by the loop (`WatchedStays`,
`HeldStays`, `ScheduledStays`). `LotsSoFar` is the invariant of the loop over
positions, after which every position is as before or brought by one of the rows done,
and an insert that met its id is one of the exceptions of `InTheWay`; `QuietStocks` says
of the loop over stocks that no two items have one symbol, so that no insert is refused.

- `LegacyRowsAndFiles`: no row refers to a removed instrument, no file is taken from a
  report, in any order of imports, quarantines, repairs and users' steps;
- `LegacyOnlyUsersBlock`: the unique indexes refuse no import, whatever was imported
  before, unless users interfered or a lot is in the way. The attempt to prove it found the
  exceptions;
- `LegacySparesUsers`: a position is left alone or brought, an item of the watchlist
  rebound only between imported instruments of one symbol, and a repair leaves what it
  promises.

## 6. What is only model-checked

- Liveness under fairness (`EveryDebateSettles`, `CancelTakesEffect`,
  `EveryRunSettles`, `DueTaskIsTriggered`, `AnalysisSettles`, `SyncsEnd`,
  `CacheCatchesUp`): out of the prover's reach.
- `ScriptsDeliver` of `LegacyMigration`: what `verify_migration.py` demands after an
  import is not true of every snapshot. Two equal lots of two instruments with one symbol
  are imported as they are, and the verification then finds the lot of one on the
  identity of the other (`Snapshots = {"twins"}` in `MCLegacyMigration_rerun.cfg` gives
  the behaviour). It is checked for the snapshots of the run, which correct identities
  and change numbers.
- Of the exceptions of `InTheWay`, the run reaches changed numbers; that of two equal
  rows is only in the proof.

`DoneIsFinal` and `OneScheduledRunPerDay` are checked and proved for the one worker
that is deployed, not for several.

## 7. What is not modelled

- The components marked `not_modelled` in `PROJECT.json`: providers, research and
  briefing texts, templates, read-only endpoints, the schema's DDL and the frontend
  keep no state whose correctness depends on an order of steps.
- Hazards seen and not covered by a property: a scheduled run queued before midnight
  and executed after it counts for the new day (`services/automation.py:89`); the
  analysis overwrites texts saved meanwhile (`services/analyzer.py:236`, in the model,
  but nothing says it must not); concurrent toggles of one reader's state, of which one
  is lost (`api/report_actions.py:75`, likewise); find-or-create of an instrument by
  two requests, one of which fails (`services/instrument_service.py:24`, `AddRefused`);
  a reader's own state of signals (`api/signals.py:110`); a rerun under another day
  (`services/report_lifecycle.py:232`); the poller's task ending with an exception
  (`main.py:55`); a signal run whose job died or raised stays active and keeps its range
  from being synchronised again (`tasks.py:68`, in the model, and nothing in the
  repository ends it); a login that had verified a password before it was changed gets its
  session afterwards (`services/auth_service.py:36`: what a change revokes is not in the
  repository); an imported report may be a second briefing of its day
  (`services/report_lifecycle.py:168`, `claimed`).
- Within the modelled components: prompts, parsing of model output, stage labels,
  error texts, timestamps other than those that are compared, ownership checks other
  than those of reports and positions, listing endpoints; `set_signal_state`; the
  grouping and health texts of `portfolio_analysis.py`; `resolve_quote`,
  `resolve_batch`, `get_indices`; overrides, quotes, chats and settings in the legacy
  import (copied row by row); the repair of debates' queue fields
  (`_repair_debate_queue`); the delivery of notifications.
- Losing the database or PostgreSQL's own behaviour: transactions are atomic,
  unique indexes and row locks work as documented.
- A tick that takes so long that procrastinate's `queueing_lock` drops the next
  one is covered: `TickStart` may, but need not, happen in a minute.
