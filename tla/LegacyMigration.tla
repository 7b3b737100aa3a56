---------------------------- MODULE LegacyMigration ----------------------------
(***************************************************************************)
(* The move of the old SQLite data into PostgreSQL: the re-runnable import *)
(* (scripts/import_sqlite.py), the quarantine of report files no row names,*)
(* the repair script (scripts/repair_migrated_data.py) and what            *)
(* scripts/verify_migration.py demands of the result.  Users work on the   *)
(* target between the runs of the scripts; a run is one transaction, the   *)
(* file moves after it are steps of their own.                             *)
(*                                                                         *)
(* A source row is given with the instrument its code and market normalise *)
(* to; shares and cost are one amount, a task's fields but its name one    *)
(* definition, and a report has one file, named by its id.                 *)
(***************************************************************************)
EXTENDS Naturals, FiniteSets, Sequences, SequencesExt

CONSTANTS
    Identities,    \* (exchange, asset class, canonical symbol)
    Symbol,        \* canonical symbol of an identity
    Unresolved,    \* what normalize answers when it cannot tell
    Amounts, Definitions, TaskNames,
    PositionIds, NewWatchIds, TaskIds, Reports,
    Snapshots,     \* cold snapshots of the source that may be imported
    Source,        \* their contents: [stocks, positions, reports, tasks]
    Admin, Member, Tester, NoRow, NoSnapshot,
    MaxEdits, MaxScripts     \* bounds: steps of users, runs of scripts

Owners   == {Admin, Member, Tester}
WatchIds == (Identities \X {"migration", "user"}) \cup NewWatchIds
PositionRow == [owner: Owners, inst: Identities, amount: Amounts]
ReportRow   == [owner: Owners, shared: BOOLEAN, ok: BOOLEAN]
TaskRow     == [name: TaskNames, def: Definitions]
TaskSource  == [id: TaskIds, name: TaskNames, def: Definitions]

ASSUME MigrationAssumption ==
    /\ NoRow \notin Identities /\ Unresolved \notin Identities
    /\ NoRow \notin {"migration", "user"}
    /\ NoRow \notin PositionRow /\ NoRow \notin ReportRow /\ NoRow \notin TaskRow
    /\ Tester # Admin /\ NoSnapshot \notin Snapshots
    /\ MaxEdits \in Nat /\ MaxScripts \in Nat

\* Code and market of a row come with what they normalise to; ids are the
\* primary keys of the source.
ASSUME SourceAssumption ==
    \A s \in Snapshots :
      /\ Source[s].stocks \in Seq([inst: Identities \cup {Unresolved}])
      /\ Source[s].positions \in
           Seq([id: PositionIds, inst: Identities \cup {Unresolved}, amount: Amounts])
      /\ \A k, m \in DOMAIN Source[s].positions :
           Source[s].positions[k].id = Source[s].positions[m].id => k = m
      /\ Source[s].tasks \in Seq(TaskSource)
      /\ Source[s].reports \subseteq Reports

VARIABLES
    instruments,   \* identity |-> source column, or NoRow
    watch,         \* watchlist items of the superadmin: id |-> instrument
    positions,     \* id |-> [owner, inst, amount]
    linked,        \* instruments a debate or a report link refers to
    reports,       \* id |-> [owner, shared, ok]
    place,         \* where the file of a report is
    tasks,         \* system tasks of the superadmin: id |-> [name, def]
    writing,       \* reports being saved: file written, row not committed
    listed,        \* the ledger's orphan_html, still to be moved
    raced,         \* history: reports committed after their file was listed
    last,          \* history: snapshot imported with no other change since
    touched,       \* history: users changed positions or entered instruments
    byHand,        \* history: positions a user entered or gave other numbers
    edits, imports, repairs

vars == <<instruments, watch, positions, linked, reports, place, tasks,
          writing, listed, raced, last, touched, byHand, edits, imports, repairs>>

holdings == <<instruments, watch, positions, linked>>
papers   == <<reports, place, writing, listed, raced>>
scripts  == <<imports, repairs>>

-----------------------------------------------------------------------------
TypeOK ==
    /\ instruments \in [Identities -> {NoRow, "migration", "user"}]
    /\ watch \in [WatchIds -> Identities \cup {NoRow}]
    /\ positions \in [PositionIds -> PositionRow \cup {NoRow}]
    /\ linked \subseteq Identities
    /\ reports \in [Reports -> ReportRow \cup {NoRow}]
    /\ place \in [Reports -> {"none", "reports", "data", "orphaned"}]
    /\ tasks \in [TaskIds -> TaskRow \cup {NoRow}]
    /\ writing \cup listed \cup raced \subseteq Reports
    /\ last \in Snapshots \cup {NoSnapshot} /\ touched \in BOOLEAN /\ byHand \subseteq PositionIds
    /\ edits \in 0 .. MaxEdits
    /\ imports \in Nat /\ repairs \in Nat /\ imports + repairs <= MaxScripts

\* A fresh target; the files of the old reports lie in data/reports or data.
Init ==
    /\ instruments = [i \in Identities |-> NoRow]
    /\ watch = [w \in WatchIds |-> NoRow]
    /\ positions = [p \in PositionIds |-> NoRow]
    /\ linked = {}
    /\ reports = [r \in Reports |-> NoRow]
    /\ place \in [Reports -> {"none", "reports", "data"}]
    /\ \A r \in Reports : place[r] = "data" => \E s \in Snapshots : r \in Source[s].reports
    /\ tasks = [t \in TaskIds |-> NoRow]
    /\ writing = {} /\ listed = {} /\ raced = {}
    /\ last = NoSnapshot /\ touched = FALSE /\ byHand = {}
    /\ edits = 0 /\ imports = 0 /\ repairs = 0

Present(table)   == {k \in DOMAIN table : table[k] # NoRow}
InstrumentsOf(rows) == {rows[k].inst : k \in DOMAIN rows} \ {Unresolved}
\* Instruments the four counted tables refer to
Referenced(w, p) ==
    {w[k] : k \in Present(w)} \cup {p[k].inst : k \in Present(p)} \cup linked

-----------------------------------------------------------------------------
(* run_import: the tables after each phase                                 *)

\* ensure() for every stock and position row
Ensured(s) ==
    [i \in Identities |->
       IF /\ instruments[i] = NoRow
          /\ i \in InstrumentsOf(Source[s].stocks) \cup InstrumentsOf(Source[s].positions)
       THEN "migration" ELSE instruments[i]]

\* An item of the list the loop matches against: it is paired with the
\* instrument it had when it was read or appended, not with the one it is
\* bound to since.
CandidatesMutant(pairs, inst, table) ==
    {k \in DOMAIN pairs : pairs[k] = inst /\ table[pairs[k]] = "migration"}

Candidates(pairs, inst, table) ==
    {k \in DOMAIN pairs : Symbol[pairs[k]] = Symbol[inst]
                          /\ table[pairs[k]] = "migration"}

\* The item on the row's own instrument, else the only candidate, else none
Match(candidates, exact) ==
    IF exact # {} THEN {CHOOSE k \in exact : TRUE}
    ELSE IF Cardinality(candidates) = 1 THEN candidates ELSE {}

\* A new item is appended with its instrument.
Paired(pairs, id, inst) ==
    [k \in DOMAIN pairs \cup {id} |-> IF k \in DOMAIN pairs THEN pairs[k] ELSE inst]

\* One stock: acc has the items, the pairs and whether an insert met its id.
WatchRow(acc, row, table) ==
    LET candidates == Candidates(acc.pairs, row.inst, table)
        match  == Match(candidates, {k \in candidates : acc.items[k] = row.inst})
        stable == <<row.inst, table[row.inst]>>
        id     == IF match # {} THEN CHOOSE k \in match : TRUE ELSE stable
    IN IF row.inst = Unresolved THEN acc
       ELSE [items |-> [acc.items EXCEPT ![id] = row.inst],
             pairs |-> Paired(acc.pairs, id, row.inst),
             clash |-> acc.clash \/ (match = {} /\ acc.items[stable] # NoRow)]

Watched(s, table) ==
    FoldLeft(LAMBDA acc, row : WatchRow(acc, row, table),
             [items |-> watch, pairs |-> [k \in Present(watch) |-> watch[k]], clash |-> FALSE],
             Source[s].stocks)

PositionStepMutant(acc, row, table) ==
    LET candidates == {k \in Candidates(acc.pairs, row.inst, table) \ acc.used :
                         acc.items[k].amount = row.amount}
        match == Match(candidates, {k \in candidates : acc.items[k].inst = row.inst})
        id    == IF match # {} THEN CHOOSE k \in match : TRUE ELSE row.id
    IN IF row.inst = Unresolved THEN acc
       ELSE [items |-> [acc.items EXCEPT ![id] =
                          [owner |-> Admin, inst |-> row.inst, amount |-> row.amount]],
             pairs |-> Paired(acc.pairs, id, row.inst),
             used  |-> acc.used,
             clash |-> acc.clash \/ (match = {} /\ acc.items[row.id] # NoRow)]

\* One position: only rows of the superadmin with the row's numbers match.
PositionStep(acc, row, table) ==
    LET candidates == {k \in Candidates(acc.pairs, row.inst, table) \ acc.used :
                         acc.items[k].amount = row.amount}
        match == Match(candidates, {k \in candidates : acc.items[k].inst = row.inst})
        id    == IF match # {} THEN CHOOSE k \in match : TRUE ELSE row.id
    IN IF row.inst = Unresolved THEN acc
       ELSE [items |-> [acc.items EXCEPT ![id] =
                          [owner |-> Admin, inst |-> row.inst, amount |-> row.amount]],
             pairs |-> Paired(acc.pairs, id, row.inst),
             used  |-> acc.used \cup {id},
             clash |-> acc.clash \/ (match = {} /\ acc.items[row.id] # NoRow)]

HeldMutant(s, table) ==     \* mutant: the positions of every owner are read
    FoldLeft(LAMBDA acc, row : PositionStep(acc, row, table),
             [items |-> positions, pairs |-> [k \in Present(positions) |-> positions[k].inst],
              used |-> {}, clash |-> FALSE],
             Source[s].positions)

Held(s, table) ==
    FoldLeft(LAMBDA acc, row : PositionStep(acc, row, table),
             [items |-> positions,
              pairs |-> [k \in {p \in Present(positions) : positions[p].owner = Admin} |->
                           positions[k].inst],
              used |-> {}, clash |-> FALSE],
             Source[s].positions)

OnDisk(r) == place[r] \in {"reports", "data"}

\* session.merge: every legacy report becomes shared property of the
\* superadmin again, with the status of its file.
Merged(s) ==
    [r \in Reports |-> IF r \in Source[s].reports
                       THEN [owner |-> Admin, shared |-> TRUE, ok |-> OnDisk(r)]
                       ELSE reports[r]]

\* A task is found by its stable id, else by its name if one unclaimed task
\* of those read at the beginning or added since has it, else inserted.
TaskRowStep(acc, row) ==
    LET named == {t \in Present(acc.items) \ acc.claimed : acc.items[t].name = row.name}
        id == IF acc.items[row.id] # NoRow THEN row.id
              ELSE IF Cardinality(named) = 1 THEN CHOOSE t \in named : TRUE
              ELSE row.id
    IN [items |-> IF acc.items[id] # NoRow THEN acc.items
                  ELSE [acc.items EXCEPT ![id] = [name |-> row.name, def |-> row.def]],
        claimed |-> acc.claimed \cup {id}]

Scheduled(s) ==
    FoldLeft(TaskRowStep, [items |-> tasks, claimed |-> {}], Source[s].tasks).items

\* _cleanup_orphan_legacy_instruments, after the flush of the rebindings
SweptMutant(table, w, p) ==
    [i \in Identities |-> IF table[i] = "migration" /\ i \notin Referenced(watch, positions)
                          THEN NoRow ELSE table[i]]

Swept(table, w, p) ==
    [i \in Identities |-> IF table[i] = "migration" /\ i \notin Referenced(w, p)
                          THEN NoRow ELSE table[i]]

\* The insert of an id, or of a second item on an instrument, that exists:
\* IntegrityError, and the whole import is rolled back.
Clash(s) ==
    LET table == Ensured(s)
        w     == Watched(s, table)
    IN
    \/ w.clash \/ Held(s, table).clash
    \/ \E k, m \in Present(w.items) : k # m /\ w.items[k] = w.items[m]

\* _reconcile_report_files: files below data/reports that no row names
Orphans(rows, s)       == {r \in Reports : place[r] = "reports" /\ rows[r] = NoRow}

-----------------------------------------------------------------------------
(* The scripts.  A dry run rolls everything back and is not a step.        *)

Script == imports + repairs < MaxScripts

\* import_sqlite --apply [--quarantine-orphans]
Import(s) ==
    LET table == Ensured(s)
        w     == Watched(s, table).items
        p     == Held(s, table).items
    IN
    /\ Script /\ listed = {}
    /\ ~Clash(s)
    /\ instruments' = Swept(table, w, p)
    /\ watch' = w
    /\ positions' = p
    /\ reports' = Merged(s)
    /\ tasks' = Scheduled(s)
    /\ \E quarantine \in BOOLEAN :
         listed' = IF quarantine THEN Orphans(Merged(s), s) ELSE {}
    /\ last' = s
    /\ imports' = imports + 1
    /\ UNCHANGED <<linked, place, writing, raced, touched, byHand, edits, repairs>>

\* After the commit: each listed file still there is moved, or the script
\* dies first and the files stay.
Quarantine ==
    /\ listed # {}
    /\ \E moved \in {listed, {}} :
         place' = [r \in Reports |-> IF r \in moved /\ place[r] = "reports"
                                     THEN "orphaned" ELSE place[r]]
    /\ listed' = {}
    /\ UNCHANGED <<holdings, reports, writing, raced, tasks, last, touched, byHand, edits, scripts>>

\* _dedupe_automation_tasks: of tasks equal in every field one survives.
Deduped(after) ==
    /\ \A t \in Present(tasks) : after[t] \in {tasks[t], NoRow}
    /\ \A t \in TaskIds \ Present(tasks) : after[t] = NoRow
    /\ {after[t] : t \in Present(after)} = {tasks[t] : t \in Present(tasks)}
    /\ \A t, u \in Present(after) : after[t] = after[u] => t = u

\* The test accounts' rows go, then the instruments they alone referred to.
WithoutTests(p) == [k \in PositionIds |->
                      IF p[k] # NoRow /\ p[k].owner = Tester THEN NoRow ELSE p[k]]

\* delete(User), owners of rows first; legacy reports return to the
\* superadmin, and every row's status is compared with data/reports.
Repair(s) ==
    LET rows == [r \in Reports |->
                   IF reports[r] # NoRow /\ reports[r].owner = Tester THEN NoRow
                   ELSE reports[r]]
        p == WithoutTests(positions)
        tested == {positions[k].inst : k \in {q \in Present(positions) :
                                                positions[q].owner = Tester}}
    IN
    /\ Script /\ listed = {}
    /\ positions' = p
    /\ instruments' = [i \in Identities |->
                         IF i \in tested \ Referenced(watch, p) THEN NoRow ELSE instruments[i]]
    /\ reports' = [r \in Reports |->
                     IF rows[r] = NoRow THEN NoRow
                     ELSE [owner  |-> IF r \in Source[s].reports THEN Admin ELSE rows[r].owner,
                           shared |-> r \in Source[s].reports \/ rows[r].shared,
                           ok     |-> place[r] = "reports"]]
    /\ \E deleted \in BOOLEAN :  \* the files go after the commit, if it lives
         place' = [r \in Reports |->
                     IF deleted /\ rows[r] # reports[r] /\ place[r] = "reports"
                     THEN "none" ELSE place[r]]
    /\ tasks' \in [TaskIds -> TaskRow \cup {NoRow}]
    /\ Deduped(tasks')
    /\ last' = NoSnapshot
    /\ repairs' = repairs + 1
    /\ UNCHANGED <<watch, linked, writing, listed, raced, touched, byHand, edits, imports>>

-----------------------------------------------------------------------------
(* What users do on the target between and during the runs                 *)

Edit == /\ edits < MaxEdits
        /\ edits' = edits + 1
        /\ last' = NoSnapshot

\* resolve_or_create_instrument
Known(i) == instruments' = [instruments EXCEPT ![i] = IF @ = NoRow THEN "user" ELSE @]

AddPosition(o, p, i, a) ==
    /\ Edit /\ touched' = TRUE /\ byHand' = byHand \cup {p}
    /\ positions[p] = NoRow
    /\ \A s \in Snapshots : \A k \in DOMAIN Source[s].positions : Source[s].positions[k].id # p
    /\ Known(i)
    /\ positions' = [positions EXCEPT ![p] = [owner |-> o, inst |-> i, amount |-> a]]
    /\ UNCHANGED <<watch, linked, papers, tasks, scripts>>

EditPosition(p, a) ==
    /\ Edit /\ touched' = TRUE /\ byHand' = byHand \cup {p}
    /\ positions[p] # NoRow
    /\ positions' = [positions EXCEPT ![p].amount = a]
    /\ UNCHANGED <<instruments, watch, linked, papers, tasks, scripts>>

DeletePosition(p) ==
    /\ Edit /\ touched' = TRUE /\ byHand' = byHand \ {p}
    /\ positions[p] # NoRow
    /\ positions' = [positions EXCEPT ![p] = NoRow]
    /\ UNCHANGED <<instruments, watch, linked, papers, tasks, scripts>>

AddWatch(w, i) ==
    /\ Edit /\ touched' = TRUE /\ byHand' = byHand
    /\ watch[w] = NoRow
    /\ \A k \in WatchIds : watch[k] # i
    /\ Known(i)
    /\ watch' = [watch EXCEPT ![w] = i]
    /\ UNCHANGED <<positions, linked, papers, tasks, scripts>>

DeleteWatch(w) ==
    /\ Edit
    /\ watch[w] # NoRow
    /\ watch' = [watch EXCEPT ![w] = NoRow]
    /\ UNCHANGED <<instruments, positions, linked, papers, tasks, touched, byHand, scripts>>

\* A debate is started about an instrument, or a report is linked to it.
Link(i) ==
    /\ Edit
    /\ instruments[i] # NoRow
    /\ linked' = linked \cup {i}
    /\ UNCHANGED <<instruments, watch, positions, papers, tasks, touched, byHand, scripts>>

\* create_task, or an edit of a task's schedule
PutTask(t, row) ==
    /\ Edit
    /\ tasks[t] # NoRow => row.name = tasks[t].name
    /\ tasks[t] = NoRow => \A s \in Snapshots : \A k \in DOMAIN Source[s].tasks :
                             Source[s].tasks[k].id # t
    /\ tasks' = [tasks EXCEPT ![t] = row]
    /\ UNCHANGED <<holdings, papers, touched, byHand, scripts>>

\* save_report writes the file, then commits the row.
StartSave(r) ==
    /\ Edit
    /\ r \notin writing
    /\ writing' = writing \cup {r}
    /\ place' = [place EXCEPT ![r] = "reports"]
    /\ UNCHANGED <<holdings, reports, listed, raced, tasks, touched, byHand, scripts>>

FinishSave(r, o) ==
    /\ r \in writing
    /\ o \in IF reports[r] = NoRow THEN Owners ELSE {reports[r].owner}
    /\ writing' = writing \ {r}
    /\ \E shared \in {FALSE, o = Admin} :
         reports' = [reports EXCEPT ![r] = [owner |-> o, shared |-> shared, ok |-> TRUE]]
    /\ raced' = IF r \in listed \/ place[r] # "reports" THEN raced \cup {r} ELSE raced \ {r}
    /\ last' = NoSnapshot
    /\ UNCHANGED <<holdings, place, listed, tasks, touched, byHand, edits, scripts>>

DeleteReport(r) ==
    /\ Edit
    /\ reports[r] # NoRow /\ r \notin writing
    /\ place' = [place EXCEPT ![r] = IF @ = "reports" THEN "none" ELSE @]
    /\ reports' = [reports EXCEPT ![r] = NoRow]
    /\ UNCHANGED <<holdings, writing, listed, raced, tasks, touched, byHand, scripts>>

Users ==
    \/ \E o \in Owners, p \in PositionIds, i \in Identities, a \in Amounts : AddPosition(o, p, i, a)
    \/ \E p \in PositionIds, a \in Amounts : EditPosition(p, a)
    \/ \E p \in PositionIds : DeletePosition(p)
    \/ \E w \in NewWatchIds, i \in Identities : AddWatch(w, i)
    \/ \E w \in WatchIds : DeleteWatch(w)
    \/ \E i \in Identities : Link(i)
    \/ \E t \in TaskIds, row \in TaskRow : PutTask(t, row)
    \/ \E r \in Reports : StartSave(r)
    \/ \E r \in Reports, o \in Owners : FinishSave(r, o)
    \/ \E r \in Reports : DeleteReport(r)

Next ==
    \/ Users
    \/ \E s \in Snapshots : Import(s) \/ Repair(s)
    \/ Quarantine

Spec == Init /\ [][Next]_vars

-----------------------------------------------------------------------------
(* verify_migration.py, section by section                                 *)

LegacyReportsHome(s) ==
    \A r \in Source[s].reports :
      /\ reports[r] # NoRow
      /\ reports[r].owner = Admin /\ reports[r].shared
      /\ reports[r].ok = OnDisk(r)

SameLot(row, q) == row.amount = q.amount /\ Symbol[row.inst] = Symbol[q.inst]

\* Every source row normalises, and claims an imported position with its symbol
\* and numbers that no other row claims; no such position lies on another
\* identity. (The script takes row after row; a lot on another identity fails
\* the first of equal rows, so that counting them comes to the same.)
LegacyPositionsHome(s) ==
    LET rows == Source[s].positions
        lots(row) == {p \in Present(positions) : /\ positions[p].owner = Admin
                                                 /\ instruments[positions[p].inst] = "migration"
                                                 /\ SameLot(row, positions[p])}
    IN \A row \in ToSet(rows) :
         /\ row.inst # Unresolved
         /\ \A p \in lots(row) : positions[p].inst = row.inst
         /\ Cardinality(lots(row)) >=
              Cardinality({k \in DOMAIN rows : rows[k].inst # Unresolved /\ SameLot(rows[k], row)})

LegacyWatchHome(s) ==
    LET expected == InstrumentsOf(Source[s].stocks) IN
    /\ \A i \in expected : instruments[i] # NoRow
    /\ Cardinality({w \in Present(watch) : watch[w] \in expected}) = Cardinality(expected)

NoFalseOk == \A r \in Present(reports) : reports[r].ok => OnDisk(r)

NoTestAccounts ==
    /\ \A p \in Present(positions) : positions[p].owner # Tester
    /\ \A r \in Present(reports) : reports[r].owner # Tester

-----------------------------------------------------------------------------
(* Properties                                                              *)

Imported == imports' > imports
Repaired == repairs' > repairs

(* Every row refers to an instrument that exists: the clean-up after an     *)
(* import counts references after the rebindings are flushed, and the       *)
(* removal of test instruments spares those somebody else holds.            *)
NothingDangles == \A i \in Referenced(watch, positions) : instruments[i] # NoRow

\* Ids no snapshot has: users made these tasks.
UsersTasks == TaskIds \ {row.id : row \in UNION {ToSet(Source[s].tasks) : s \in Snapshots}}

\* A user entered a position of the superadmin that a source row may be taken
\* for, or gave one such numbers, or entered the instrument of a row.
ByHand(s) ==
    \E row \in ToSet(Source[s].positions) : row.inst # Unresolved /\
      \/ instruments[row.inst] = "user"
      \/ \E p \in byHand \cap Present(positions) :
            positions[p].owner = Admin /\ SameLot(row, positions[p])

\* A user made a task of the name of a source task.
TaskByHand(s) ==
    \E t \in UsersTasks \cap Present(tasks), row \in ToSet(Source[s].tasks) : tasks[t].name = row.name

Brought(p, s) ==
    /\ positions[p].owner = Admin
    /\ \E k \in DOMAIN Source[s].positions :
         /\ positions[p].amount = Source[s].positions[k].amount
         /\ Symbol[positions[p].inst] = Symbol[Source[s].positions[k].inst]

(* Where an import commits, verify_migration finds the legacy reports and   *)
(* positions in place, unless somebody entered such a position or its       *)
(* instrument by hand; and the same snapshot again, with nothing in         *)
(* between, changes nothing but tasks whose source names a user took.       *)
ScriptsDeliver ==
    [][Imported =>
         /\ LegacyReportsHome(last)' /\ (LegacyPositionsHome(last)' \/ ByHand(last'))
         /\ last' = last => UNCHANGED <<holdings, reports>> /\ (UNCHANGED tasks \/ TaskByHand(last))
      ]_vars

(* An import leaves alone the positions it did not bring, whatever their    *)
(* instrument, and rebinds an item of the watchlist only from an instrument *)
(* it brought, to one of the same symbol.  A repair leaves no test          *)
(* account's row, no status that promises a missing file, no equal tasks.   *)
ScriptsSpareUsers ==
    [][/\ Imported =>
            /\ \A p \in Present(positions) : positions'[p] = positions[p] \/ Brought(p, last')
            /\ \A w \in Present(watch) : watch'[w] = watch[w] \/
                 /\ instruments[watch[w]] = "migration"
                 /\ watch'[w] # NoRow /\ Symbol[watch'[w]] = Symbol[watch[w]]
       /\ Repaired =>
            /\ NoTestAccounts' /\ NoFalseOk'
            /\ \A t, u \in Present(tasks') : tasks'[t] = tasks'[u] => t = u]_vars

(* verify_migration.py: "legacy watchlist 身份全覆盖", after every import.  *)
WatchlistVerifies == [][Imported => LegacyWatchHome(last)']_vars

\* A position brought before lies under the id of a row, and the row cannot
\* have it: its numbers or symbol changed since, an equal row comes before,
\* or of two equal lots on other identities none is the one to rebind.
InTheWay(s) ==
    \E k \in DOMAIN Source[s].positions : LET row == Source[s].positions[k] IN
      /\ row.inst # Unresolved /\ positions[row.id] # NoRow
      /\ \/ ~SameLot(row, positions[row.id])
         \/ \E m \in 1 .. k - 1 : /\ Source[s].positions[m].inst # Unresolved
                                  /\ SameLot(row, Source[s].positions[m])
         \/ \E p, q \in Present(positions) :
              /\ p # q /\ SameLot(row, positions[p]) /\ SameLot(row, positions[q])
              /\ row.inst \notin {positions[p].inst, positions[q].inst}

(* As long as users leave positions alone and enter none of the symbols by  *)
(* hand, no unique index refuses an import, whatever earlier imports of     *)
(* other snapshots and repairs left, except where a lot is in the way.      *)
OnlyUsersBlockImports == touched \/ \A s \in Snapshots : Clash(s) => InTheWay(s)

(* import_sqlite.py:3, an upsert by stable keys: where users left positions *)
(* alone, no snapshot is refused whatever was imported before.              *)
StableKeysUpsert == touched \/ \A s \in Snapshots : ~Clash(s)

(* The quarantine never takes a file from a report of the target, legacy or *)
(* new, unless its row was committed while its file was already listed.     *)
QuarantineSparesReports ==
    \A r \in Present(reports) : reports[r].ok /\ ~OnDisk(r) => r \in raced

(* Rows, references and files agree whatever imports, repairs and users did *)
(* in any order.                                                            *)
RowsAndFilesAgree == TypeOK /\ NothingDangles /\ QuarantineSparesReports
=============================================================================
