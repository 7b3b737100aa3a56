---------------------------- MODULE ReportStore ----------------------------
(***************************************************************************)
(* Reports: the HTML files under data/reports, the rows that point to      *)
(* them, each reader's personal state and the links to instruments.  A     *)
(* save or a deletion touches the file first and the database in a later   *)
(* transaction, and several requests and the worker's daily job interleave *)
(* (services/report_lifecycle.py, report_store.py, report_assets.py,       *)
(* api/reports.py, report_actions.py, report_assets.py).                   *)
(*                                                                         *)
(* A text stands for a brief and everything rendered from it: summary,     *)
(* tags and HTML.                                                          *)
(***************************************************************************)
EXTENDS Naturals

CONSTANTS
    Ids,           \* report ids
    Users, Admin,  \* Admin: the superadmin who imports and runs the daily job
    Readers,       \* the users whose personal state is followed
    Texts, Instruments,
    KnownFirst,    \* the instruments known when the story begins
    Mentions,      \* [Texts -> SUBSET Instruments]: codes and names in a text
    Claims,        \* what imports may name: the automation's origin, the briefing's title
    Requests,      \* API requests that may be in progress together
    Worker,        \* the worker, which runs one daily job at a time
    NoRow, NoFile, NoState,
    LastDay, MaxSaves, MaxEdits, MaxTurns   \* bounds: turns of marks and faults, together

VARIABLES
    today,         \* local day in Asia/Shanghai
    rows,          \* table reports
    files,         \* data/reports/<local day>/<id>.html
    states,        \* table user_report_states
    links,         \* table report_asset_links
    known,         \* instruments held, watched or with a manual quote
    op,            \* what each request and the worker are doing
    saves, marks, edits, faults,
    unlinked,      \* history: files a deletion removed and no save rewrote
    torn,          \* history: ids with a save that failed after its file was written
    crossed,       \* history: ids two saves of which overlapped
    claimed        \* history: ids an import named as the automation's

vars == <<today, rows, files, states, links, known, op,
          saves, marks, edits, faults, unlinked, torn, crossed, claimed>>
budget  == <<saves, marks, edits, faults>>
history == <<unlinked, torn, crossed, claimed>>

-----------------------------------------------------------------------------
Days  == 1 .. LastDay
Slots == Requests \cup {Worker}

\* local_date and id determine the file, so the row need not store it; daily
\* says the row is the automation's briefing of its day: origin automation
\* and the briefing's title, topic and type.
Row == [owner: Users, shared: BOOLEAN, daily: BOOLEAN, day: Days, text: Texts]

PersonalState == [read: BOOLEAN, starred: BOOLEAN, archived: BOOLEAN]
Link == [report: Ids, instrument: Instruments, source: {"auto", "manual"}]

ASSUME ReportAssumption ==
    /\ Admin \in Users
    /\ Readers \subseteq Users
    /\ KnownFirst \subseteq Instruments
    /\ Mentions \in [Texts -> SUBSET Instruments]
    /\ Claims \subseteq SUBSET {"origin", "title"}
    /\ Worker \notin Requests
    /\ NoFile \notin Texts /\ NoRow \notin Row /\ NoState \notin PersonalState
    /\ {LastDay, MaxSaves, MaxEdits, MaxTurns} \subseteq Nat /\ LastDay > 0

Idle == [at |-> "idle"]

\* seen: the row as the session of the save holds it; made: the id was made up
\* by this save, and nobody knows it before the row is there.
Saving(at) == [at: {at}, id: Ids, row: Row, seen: Row \cup {NoRow}, made: BOOLEAN]
Deleting   == [at: {"delete"}, id: Ids]
Toggling   == [at: {"toggle"}, id: Ids, user: Readers,
               column: {"starred", "archived"}, seen: PersonalState \cup {NoState}]

TypeOK ==
    /\ today \in Days
    /\ rows \in [Ids -> Row \cup {NoRow}]
    /\ files \in [Days \X Ids -> Texts \cup {NoFile}]
    /\ states \in [Readers \X Ids -> PersonalState \cup {NoState}]
    /\ links \subseteq Link
    /\ known \subseteq Instruments
    /\ op \in [Slots -> {Idle} \cup Saving("write") \cup Saving("merge")
                               \cup Saving("commit") \cup Deleting \cup Toggling]
    /\ unlinked \subseteq Days \X Ids
    /\ torn \subseteq Ids /\ crossed \subseteq Ids /\ claimed \subseteq Ids
    /\ {saves, marks, edits, faults} \subseteq Nat

\* sync_auto_report_asset_links: drop the automatic links and make one for
\* each known instrument the text names.
AutoLinks(id, text) ==
    {[report |-> id, instrument |-> i, source |-> "auto"] :
        i \in Mentions[text] \cap known}

BriefingRow(day, text) ==
    [owner |-> Admin, shared |-> TRUE, daily |-> TRUE, day |-> day, text |-> text]

\* The briefing of the day may be there already.
Init ==
    /\ today = 1
    /\ known = KnownFirst
    /\ \E stored \in {{}} \cup {{id} : id \in Ids}, text \in Texts :
         /\ rows = [id \in Ids |-> IF id \in stored THEN BriefingRow(1, text) ELSE NoRow]
         /\ files = [f \in Days \X Ids |->
                       IF f[1] = 1 /\ f[2] \in stored THEN text ELSE NoFile]
         /\ links = UNION {AutoLinks(id, text) : id \in stored}
    /\ states = [s \in Readers \X Ids |-> NoState]
    /\ op = [q \in Slots |-> Idle]
    /\ saves = 0 /\ marks = 0 /\ edits = 0 /\ faults = 0
    /\ unlinked = {} /\ torn = {} /\ crossed = {} /\ claimed = {}

Present(id) == rows[id] # NoRow
File(id)    == <<rows[id].day, id>>
\* Personal marks and manual links count as marks, the rest as edits.
Mark == marks + faults < MaxTurns /\ marks' = marks + 1
Edit == edits < MaxEdits /\ edits' = edits + 1

IsSave(o)   == o.at \in {"write", "merge", "commit"}
SavesOf(id) == {q \in Slots : IsSave(op[q]) /\ op[q].id = id}

\* Scoped reads: a report is visible to its owner, and to all when shared.
Visible(user, id) == Present(id) /\ (rows[id].shared \/ rows[id].owner = user)
Owns(user, id)    == Present(id) /\ rows[id].owner = user

\* What GET /reports/{id}/content serves; a list or a view computes the status
\* from the file at each read and ignores the column content_status.
Content(id)       == files[File(id)]
ContentStatus(id) == IF Content(id) # NoFile THEN "ok" ELSE "missing"

\* An id built from the time: nothing refers to it yet.
Fresh(id) ==
    /\ ~Present(id)
    /\ \A d \in Days : files[<<d, id>>] = NoFile
    /\ \A q \in Slots : op[q] # Idle => op[q].id # id

-----------------------------------------------------------------------------
(* Saving: build the row, write the file, merge it into the session, then   *)
(* flush and commit row, links and log                                      *)

StartSave(q, id, row, seen, made) ==
    /\ op[q] = Idle
    /\ saves < MaxSaves
    /\ saves' = saves + 1
    /\ op' = [op EXCEPT ![q] = [at |-> "write", id |-> id, row |-> row,
                                seen |-> seen, made |-> made]]
    /\ crossed' = IF SavesOf(id) # {} THEN crossed \cup {id} ELSE crossed
    /\ UNCHANGED <<today, rows, files, states, links, known, marks, edits, faults,
                   unlinked, torn>>

\* POST /research: a new private report of the requester.
Research(q, user, text) == \E id \in Ids :
    /\ Fresh(id)
    /\ StartSave(q, id, [owner |-> user, shared |-> FALSE, daily |-> FALSE,
                         day |-> today, text |-> text], NoRow, TRUE)
    /\ UNCHANGED claimed

\* POST /reports/import: id and local date come from the caller, and so may
\* the automation's origin and the briefing's title; nothing looks for a
\* briefing of that day.  The report is the superadmin's and shared.
Import(q, id, day, text, claims) ==
    /\ \A p \in SavesOf(id) : ~op[p].made
    /\ StartSave(q, id, [owner |-> Admin, shared |-> TRUE,
                         daily |-> claims = {"origin", "title"},
                         day |-> day, text |-> text], NoRow, FALSE)
    /\ claimed' = IF claims = {} THEN claimed ELSE claimed \cup {id}

ExistingMutant(day) ==
    {id \in Ids : Present(id) /\ rows[id].daily /\ rows[id].day = day /\ rows[id].shared}

\* _find_existing_automation: the briefings of that day; the one with the
\* latest created_at is taken, which an import may give as it likes.
Existing(day) == {id \in Ids : Present(id) /\ rows[id].daily /\ rows[id].day = day}

\* The session keeps the row it found until the merge.
Briefing(id, text) ==
    LET found == Existing(today) IN
    /\ IF found # {} THEN id \in found ELSE Fresh(id)
    /\ StartSave(Worker, id, BriefingRow(today, text), rows[id], found = {})
    /\ UNCHANGED claimed

WriteFileMutant(q) ==
    LET f == <<op[q].row.day, op[q].id>> IN
    /\ op[q].at = "write"
    /\ files' = IF files[f] = NoFile
                  THEN [files EXCEPT ![f] = op[q].row.text] ELSE files
    /\ op' = [op EXCEPT ![q].at = "merge"]
    /\ unlinked' = unlinked \ {f}
    /\ UNCHANGED <<today, rows, states, links, known, budget, torn, crossed, claimed>>

WriteFile(q) ==
    LET f == <<op[q].row.day, op[q].id>> IN
    /\ op[q].at = "write"
    /\ files' = [files EXCEPT ![f] = op[q].row.text]
    /\ op' = [op EXCEPT ![q].at = "merge"]
    /\ unlinked' = unlinked \ {f}
    /\ UNCHANGED <<today, rows, states, links, known, budget, torn, crossed, claimed>>

LinksOf(id, source) == {l \in links : l.report = id /\ l.source = source}

\* session.merge: the row the session holds already, or a SELECT.
Merge(q) ==
    /\ op[q].at = "merge"
    /\ op' = [op EXCEPT ![q] =
         [at |-> "commit", id |-> op[q].id, row |-> op[q].row, made |-> op[q].made,
          seen |-> IF op[q].seen = NoRow THEN rows[op[q].id] ELSE op[q].seen]]
    /\ UNCHANGED <<today, rows, files, states, links, known, budget, history>>

\* A column is flushed when the merge changed it.
Column(now, seen, new) == IF new = seen THEN now ELSE new

Flushed(now, seen, new) ==
    [owner |-> Column(now.owner, seen.owner, new.owner),
     shared |-> Column(now.shared, seen.shared, new.shared),
     daily |-> Column(now.daily, seen.daily, new.daily),
     day |-> Column(now.day, seen.day, new.day),
     text |-> Column(now.text, seen.text, new.text)]

\* A row the merge saw is updated and one it did not see inserted; the links
\* are those of the saved text.  Row and links are locked up to the commit.
SaveRowMutant(q) ==
    LET id == op[q].id IN
    /\ op[q].at = "write"
    /\ rows' = [rows EXCEPT ![id] = op[q].row]
    /\ links' = (links \ LinksOf(id, "auto")) \cup AutoLinks(id, op[q].row.text)
    /\ op' = [op EXCEPT ![q] = Idle]
    /\ UNCHANGED <<today, files, states, known, budget, history>>

SaveRow(q) ==
    LET id == op[q].id
        seen == op[q].seen IN
    /\ op[q].at = "commit"
    /\ Present(id) <=> seen # NoRow
    /\ rows' = [rows EXCEPT ![id] =
                   IF seen = NoRow THEN op[q].row ELSE Flushed(@, seen, op[q].row)]
    /\ links' = (links \ LinksOf(id, "auto")) \cup AutoLinks(id, op[q].row.text)
    /\ op' = [op EXCEPT ![q] = Idle]
    /\ UNCHANGED <<today, files, states, known, budget, history>>

\* The row was inserted or deleted meanwhile: the INSERT or the UPDATE fails.
SaveRefused(q) ==
    /\ op[q].at = "commit"
    /\ ~(Present(op[q].id) <=> op[q].seen # NoRow)
    /\ torn' = torn \cup {op[q].id}
    /\ op' = [op EXCEPT ![q] = Idle]
    /\ UNCHANGED <<today, rows, files, states, links, known, budget,
                   unlinked, crossed, claimed>>

\* The transaction fails, or the process dies, between any two steps: what
\* the files lost or gained stays.
Fail(q) ==
    /\ op[q] # Idle
    /\ marks + faults < MaxTurns
    /\ faults' = faults + 1
    /\ op' = [op EXCEPT ![q] = Idle]
    /\ torn' = IF op[q].at \in {"merge", "commit"} THEN torn \cup {op[q].id} ELSE torn
    /\ UNCHANGED <<today, rows, files, states, links, known, saves, marks, edits,
                   unlinked, crossed, claimed>>

-----------------------------------------------------------------------------
(* Deleting: the owner's request unlinks the file, then deletes in one      *)
(* transaction; personal states go by the foreign key's ON DELETE CASCADE   *)

DeleteFile(q, user, id) ==
    /\ op[q] = Idle
    /\ Edit
    /\ Owns(user, id)
    /\ files' = [files EXCEPT ![File(id)] = NoFile]
    /\ unlinked' = unlinked \cup {File(id)}
    /\ op' = [op EXCEPT ![q] = [at |-> "delete", id |-> id]]
    /\ UNCHANGED <<today, rows, states, links, known, saves, marks, faults,
                   torn, crossed, claimed>>

DeleteRow(q) ==
    /\ op[q].at = "delete"
    /\ rows' = [rows EXCEPT ![op[q].id] = NoRow]
    /\ links' = {l \in links : l.report # op[q].id}
    /\ states' = [s \in DOMAIN states |-> IF s[2] = op[q].id THEN NoState ELSE states[s]]
    /\ op' = [op EXCEPT ![q] = Idle]
    /\ UNCHANGED <<today, files, known, budget, history>>

-----------------------------------------------------------------------------
(* Visibility, personal state and manual links *)

UpdateVisibility(user, id, shared) ==
    /\ Edit
    /\ Owns(user, id)
    /\ rows' = [rows EXCEPT ![id].shared = shared]
    /\ UNCHANGED <<today, files, states, links, known, op, saves, marks, faults, history>>

\* Superadmin only, any report.
Publish(id) ==
    /\ Edit
    /\ Present(id)
    /\ rows' = [rows EXCEPT ![id].shared = TRUE]
    /\ UNCHANGED <<today, files, states, links, known, op, saves, marks, faults, history>>

NewState == [read |-> FALSE, starred |-> FALSE, archived |-> FALSE]

\* INSERT ... ON CONFLICT DO UPDATE of read_at alone.
MarkRead(user, id) ==
    /\ Mark
    /\ Visible(user, id)
    /\ states' = [states EXCEPT ![<<user, id>>] =
                    [(IF @ = NoState THEN NewState ELSE @) EXCEPT !.read = TRUE]]
    /\ UNCHANGED <<today, rows, files, links, known, op, saves, edits, faults, history>>

\* toggle_star and toggle_archive read the state ...
ToggleRead(q, user, id, column) ==
    /\ op[q] = Idle
    /\ Visible(user, id)
    /\ Mark
    /\ op' = [op EXCEPT ![q] = [at |-> "toggle", id |-> id, user |-> user,
                                column |-> column, seen |-> states[<<user, id>>]]]
    /\ UNCHANGED <<today, rows, files, states, links, known, saves, edits, faults, history>>

\* ... and write the one column, if the row is there as it was or, when there
\* was none, insert it; else the statement fails and the request with it.
ToggleWrite(q) ==
    LET s == <<op[q].user, op[q].id>>
        was == IF op[q].seen = NoState THEN NewState ELSE op[q].seen
        now == IF op[q].seen = NoState THEN NewState ELSE states[s] IN
    /\ op[q].at = "toggle"
    /\ states' = IF Present(op[q].id) /\ (op[q].seen = NoState <=> states[s] = NoState)
                   THEN [states EXCEPT ![s] =
                           [now EXCEPT ![op[q].column] = ~ was[op[q].column]]]
                   ELSE states
    /\ op' = [op EXCEPT ![q] = Idle]
    /\ UNCHANGED <<today, rows, files, links, known, budget, history>>

AddLink(user, id, i) ==
    /\ Owns(user, id)
    /\ Mark
    /\ links' = links \cup {[report |-> id, instrument |-> i, source |-> "manual"]}
    /\ UNCHANGED <<today, rows, files, states, known, op, saves, edits, faults, history>>

RemoveLink(user, l) ==
    /\ l \in links
    /\ Owns(user, l.report)
    /\ Mark
    /\ links' = links \ {l}
    /\ UNCHANGED <<today, rows, files, states, known, op, saves, edits, faults, history>>

\* Positions, watchlists and manual quotes change.
KnownChanges ==
    /\ Edit
    /\ known' \in SUBSET Instruments
    /\ UNCHANGED <<today, rows, files, states, links, op, saves, marks, faults, history>>

NextDay ==
    /\ today < LastDay
    /\ today' = today + 1
    /\ UNCHANGED <<rows, files, states, links, known, op, budget, history>>

-----------------------------------------------------------------------------
SaveStep(q) == WriteFile(q) \/ Merge(q) \/ SaveRow(q) \/ SaveRefused(q) \/ Fail(q)

Request(q) ==
    \/ \E u \in Users, t \in Texts : Research(q, u, t)
    \/ \E id \in Ids, d \in Days, t \in Texts, c \in Claims :
         Import(q, id, d, t, c)
    \/ \E u \in Users, id \in Ids : DeleteFile(q, u, id)
    \/ DeleteRow(q)
    \/ \E u \in Readers, id \in Ids, c \in {"starred", "archived"} : ToggleRead(q, u, id, c)
    \/ ToggleWrite(q)
    \/ SaveStep(q)

Daily == SaveStep(Worker) \/ \E id \in Ids, t \in Texts : Briefing(id, t)

OneShot == \E u \in Users, id \in Ids :
    \/ \E b \in BOOLEAN : UpdateVisibility(u, id, b)
    \/ Publish(id)
    \/ u \in Readers /\ MarkRead(u, id)
    \/ \E i \in Instruments : AddLink(u, id, i)
    \/ \E l \in links : RemoveLink(u, l)

Next == Daily \/ OneShot \/ KnownChanges \/ NextDay \/ \E q \in Requests : Request(q)

Spec == Init /\ [][Next]_vars

-----------------------------------------------------------------------------
(* Properties *)

\* A report whose content is missing lost it to a deletion that did not reach
\* its commit or crossed a save; a save that fails, at whatever point, never
\* leaves one, because _save_report writes the file before the row.
MissingOnlyByDeletion == \A id \in Ids :
    Present(id) /\ ContentStatus(id) = "missing" => File(id) \in unlinked

\* The file a report serves is the one its row was saved with, however often
\* and for whichever days it was overwritten, unless two saves of it
\* overlapped or one failed after writing its file.
ServesItsText == \A id \in Ids :
    /\ Present(id)
    /\ ContentStatus(id) = "ok"
    /\ id \notin torn \cup crossed
    /\ SavesOf(id) = {}
    => Content(id) = rows[id].text

\* Links and personal states never outlive their report, although requests
\* that checked the report's existence write after it was deleted.
NothingDangles ==
    /\ \A l \in links : Present(l.report)
    /\ \A s \in Readers \X Ids : states[s] # NoState => Present(s[2])

\* However reruns, deletions, failures and imports interleave, the automation
\* makes one briefing a day; an import may bring another by naming it the
\* automation's.
OneBriefingPerDay == \A r, s \in Ids \ claimed :
    /\ Present(r) /\ rows[r].daily
    /\ Present(s) /\ rows[s].daily /\ rows[s].day = rows[r].day
    => r = s

\* An automatic link never outlives the text that justified it, while the
\* text is overwritten, saves of it fail, it is deleted and saved anew and the
\* known instruments change, unless two saves of the report overlapped.
AutoLinksFollowText == \A l \in links :
    l.source = "auto" /\ l.report \notin crossed
    => l.instrument \in Mentions[rows[l.report].text]

\* What readers combine: the automation makes one briefing a day, no link or
\* personal state outlives its report, and none but overlapping saves leave a
\* link without the text that justified it, in every order of saves,
\* deletions, failures and imports; columns keep their types.
ReportsConsistent == TypeOK /\ NothingDangles /\ OneBriefingPerDay /\ AutoLinksFollowText
=============================================================================
