-------------------------- MODULE ReportStoreProofs --------------------------
(***************************************************************************)
(* What files, rows, links and personal states keep, for any number of     *)
(* reports, readers and requests and in every order of saves, deletions    *)
(* and failures.                                                           *)
(***************************************************************************)
EXTENDS ReportStore, TLAPS

Frames == {Idle} \cup Saving("write") \cup Saving("merge") \cup Saving("commit")
                 \cup Deleting \cup Toggling

Target(q)  == <<op[q].row.day, op[q].id>>
Written(q) == op[q].at \in {"merge", "commit"}

\* Of the ids no import claimed for the automation, only the worker saves
\* briefings, one at a time, and while it does no other is the briefing of
\* that day.
BriefInv ==
    /\ \A q \in Requests : IsSave(op[q]) /\ op[q].id \notin claimed => ~op[q].row.daily
    /\ IsSave(op[Worker]) => \A id \in Ids \ claimed :
         Present(id) /\ rows[id].daily /\ rows[id].day = op[Worker].row.day
           => id = op[Worker].id \/ op[Worker].id \in claimed

\* A made-up id is its save's alone until the row is there; the worker reruns
\* what it found to be the day's briefing; a request that merged a row which
\* was no briefing meets none at its commit, unless an import claimed the id.
CopyInv == \A id \in Ids : \A q \in SavesOf(id) :
    /\ op[q].made => op[q].seen = NoRow /\ ~Present(id) /\ SavesOf(id) = {q}
    /\ q = Worker /\ ~op[q].made =>
         op[q].seen # NoRow /\ op[q].seen.daily /\ op[q].seen.day = op[q].row.day
         /\ op[q].row.daily
    /\ q # Worker /\ op[q].at # "commit" => op[q].seen = NoRow
    /\ op[q].at = "commit" /\ op[q].seen # NoRow /\ ~op[q].seen.daily
       /\ id \notin claimed /\ Present(id) => ~rows[id].daily

\* The file a row is about to point to is there, unless a deletion took it.
LostInv == \A q \in Slots :
    Written(q) /\ files[Target(q)] = NoFile => Target(q) \in unlinked

\* A report no saves of which overlapped is saved by one request at a time,
\* whose copy of the row keeps its day and text.
SingleInv == \A id \in Ids \ crossed :
    /\ \A p, q \in SavesOf(id) : p = q
    /\ \A q \in SavesOf(id) : op[q].seen # NoRow /\ Present(id)
         => rows[id].day = op[q].seen.day /\ rows[id].text = op[q].seen.text

\* If none failed late either, the file is ahead of the row between the write
\* and the commit, and at any other time it is the row's.
WholeInv == \A id \in Ids \ (crossed \cup torn) :
    /\ \A q \in SavesOf(id) : Written(q) /\ files[Target(q)] # NoFile
         => files[Target(q)] = op[q].row.text
    /\ Present(id) /\ Content(id) # NoFile /\ (\A q \in SavesOf(id) : ~Written(q))
         => Content(id) = rows[id].text

StoreInv == /\ ReportsConsistent /\ MissingOnlyByDeletion
            /\ BriefInv /\ CopyInv /\ LostInv /\ SingleInv /\ WholeInv

-----------------------------------------------------------------------------
(* What a slot holds                                                       *)

LEMMA FrameShape ==
    ASSUME NEW o \in Frames
    PROVE  /\ o.at \in {"idle", "write", "merge", "commit", "delete", "toggle"}
           /\ o.at = "idle" <=> o = Idle
           /\ IsSave(o) => /\ o.id \in Ids /\ o.row \in Row /\ o.seen \in Row \cup {NoRow}
                           /\ o.made \in BOOLEAN
                           /\ o = [at |-> o.at, id |-> o.id, row |-> o.row,
                                   seen |-> o.seen, made |-> o.made]
           /\ o.at = "delete" => o.id \in Ids
           /\ o.at = "toggle" => /\ o.id \in Ids /\ o.user \in Readers
                                 /\ o.column \in {"starred", "archived"}
                                 /\ o.seen \in PersonalState \cup {NoState}
<1>1. CASE o = Idle
  BY <1>1 DEF Idle, IsSave
<1>2. CASE o \in Saving("write")
  BY <1>2 DEF Idle, IsSave, Saving
<1>3. CASE o \in Saving("commit")
  BY <1>3 DEF Idle, IsSave, Saving
<1>4. CASE o \in Deleting
  BY <1>4 DEF Idle, IsSave, Deleting
<1>5. CASE o \in Toggling
  BY <1>5 DEF Idle, IsSave, Toggling
<1>6. CASE o \in Saving("merge")
  BY <1>6 DEF Idle, IsSave, Saving
<1> QED
  BY <1>1, <1>2, <1>3, <1>4, <1>5, <1>6 DEF Frames

LEMMA FrameMembers ==
    /\ Idle \in Frames /\ ~IsSave(Idle) /\ Idle.at \notin {"merge", "commit"}
    /\ \A id \in Ids, row \in Row, at \in {"write", "merge", "commit"},
          seen \in Row \cup {NoRow}, made \in BOOLEAN :
         /\ [at |-> at, id |-> id, row |-> row, seen |-> seen, made |-> made] \in Frames
         /\ IsSave([at |-> at, id |-> id, row |-> row, seen |-> seen, made |-> made])
    /\ \A id \in Ids : /\ [at |-> "delete", id |-> id] \in Frames
                       /\ ~IsSave([at |-> "delete", id |-> id])
BY DEF Frames, Idle, Saving, Deleting, IsSave

LEMMA RowShape ==
    ASSUME NEW row \in Row
    PROVE  /\ row # NoRow /\ row.owner \in Users /\ row.shared \in BOOLEAN /\ row.daily \in BOOLEAN
           /\ row.day \in Days /\ row.text \in Texts /\ row.text # NoFile
BY ReportAssumption DEF Row

LEMMA BriefingRowShape ==
    ASSUME NEW day \in Days, NEW text \in Texts
    PROVE  /\ BriefingRow(day, text) \in Row /\ BriefingRow(day, text).daily
           /\ BriefingRow(day, text).day = day /\ BriefingRow(day, text).text = text
BY ReportAssumption DEF Row, BriefingRow

\* The row a flush leaves takes the column of the save or keeps the row's.
LEMMA FlushedShape ==
    ASSUME NEW now \in Row, NEW seen \in Row, NEW new \in Row
    PROVE  /\ Flushed(now, seen, new) \in Row
           /\ Flushed(now, seen, new).daily = Column(now.daily, seen.daily, new.daily)
           /\ Flushed(now, seen, new).day = Column(now.day, seen.day, new.day)
           /\ Flushed(now, seen, new).text = Column(now.text, seen.text, new.text)
BY DEF Flushed, Column, Row

LEMMA AutoLinksShape ==
    ASSUME NEW id \in Ids, NEW text \in Texts
    PROVE  /\ AutoLinks(id, text) \subseteq Link
           /\ \A l \in AutoLinks(id, text) : /\ l.report = id /\ l.source = "auto"
                                            /\ l.instrument \in Mentions[text]
<1>1. Mentions[text] \subseteq Instruments
  BY ReportAssumption
<1> QED
  BY <1>1 DEF AutoLinks, Link

LEMMA SlotKinds ==
    /\ Worker \in Slots /\ Requests \subseteq Slots /\ Worker \notin Requests
    /\ \A p \in Slots : p = Worker \/ p \in Requests
BY ReportAssumption DEF Slots

LEMMA StoreFacts ==
    ASSUME StoreInv
    PROVE  /\ TypeOK /\ NothingDangles /\ OneBriefingPerDay /\ AutoLinksFollowText
           /\ op \in [Slots -> Frames]
           /\ \A id \in Ids : Present(id) => rows[id] \in Row
           /\ \A q \in Slots : op[q] \in Frames
BY DEF StoreInv, ReportsConsistent, TypeOK, Frames, Present

LEMMA InitStore == Init => StoreInv
<1> SUFFICES ASSUME Init PROVE StoreInv
  OBVIOUS
<1>0. 1 \in Days /\ 0 \in Nat
  BY ReportAssumption DEF Days
<1>1. PICK stored \in {{}} \cup {{id} : id \in Ids}, text \in Texts :
         /\ rows = [id \in Ids |-> IF id \in stored THEN BriefingRow(1, text) ELSE NoRow]
         /\ files = [f \in Days \X Ids |->
                       IF f[1] = 1 /\ f[2] \in stored THEN text ELSE NoFile]
         /\ links = UNION {AutoLinks(id, text) : id \in stored}
  BY DEF Init
<1> DEFINE row == BriefingRow(1, text)
<1>2. row \in Row /\ row # NoRow /\ row.day = 1 /\ row.text = text
  BY <1>0, BriefingRowShape, RowShape
<1> HIDE DEF row
<1>3. /\ stored \subseteq Ids /\ \A r, s \in stored : r = s
      /\ \A id \in Ids : Present(id) <=> id \in stored
      /\ \A id \in stored : rows[id] = row
  BY <1>1, <1>2 DEF Present, row
<1>4. links \subseteq Link
      /\ \A l \in links : l.report \in stored /\ l.instrument \in Mentions[text]
  <2>1. ASSUME NEW l \in links
        PROVE  l \in Link /\ l.report \in stored /\ l.instrument \in Mentions[text]
    <3>1. PICK id \in stored : l \in AutoLinks(id, text)
      BY <1>1
    <3> QED
      BY <1>3, <3>1, AutoLinksShape
  <2> QED
    BY <2>1
<1>5. TypeOK
  <2>1. op \in [Slots -> Frames]
    BY FrameMembers DEF Init
  <2>2. rows \in [Ids -> Row \cup {NoRow}] /\ files \in [Days \X Ids -> Texts \cup {NoFile}]
    BY <1>1, <1>2 DEF row
  <2>3. known \subseteq Instruments
    BY ReportAssumption DEF Init
  <2> QED
    BY <1>0, <1>4, <2>1, <2>2, <2>3 DEF Init, TypeOK, Frames
<1>6. \A q \in Slots : ~IsSave(op[q]) /\ ~Written(q)
  BY FrameMembers DEF Init, Written
<1>7. \A id \in stored : File(id) = <<1, id>> /\ Content(id) = text /\ text # NoFile
  BY <1>0, <1>1, <1>2, <1>3, RowShape DEF File, Content
<1>8. NothingDangles /\ OneBriefingPerDay /\ AutoLinksFollowText /\ MissingOnlyByDeletion
  BY <1>2, <1>3, <1>4, <1>7
     DEF Init, NothingDangles, OneBriefingPerDay, AutoLinksFollowText, MissingOnlyByDeletion,
         ContentStatus
<1>9. BriefInv /\ LostInv /\ CopyInv
  BY <1>6, SlotKinds DEF BriefInv, LostInv, CopyInv, SavesOf
<1>10. SingleInv /\ WholeInv
  BY <1>2, <1>3, <1>6, <1>7 DEF SingleInv, WholeInv, SavesOf
<1> QED
  BY <1>5, <1>8, <1>9, <1>10 DEF StoreInv, ReportsConsistent

-----------------------------------------------------------------------------
(* Steps that write no file                                                *)

\* No file is touched; a row that stays keeps its day, its text and what it
\* is the briefing of; a save that ends without its row has torn its report.
LEMMA QuietKeeps ==
    ASSUME StoreInv, UNCHANGED <<files, unlinked, crossed, claimed>>, torn \subseteq torn',
           \A id \in Ids : Present(id)' =>
             Present(id) /\ rows'[id].day = rows[id].day
             /\ rows'[id].text = rows[id].text /\ rows'[id].daily = rows[id].daily,
           \A q \in Slots : IsSave(op'[q]) => op'[q] = op[q],
           \A q \in Slots : Written(q) => op'[q] = op[q] \/ op[q].id \in torn'
    PROVE  /\ OneBriefingPerDay' /\ MissingOnlyByDeletion'
           /\ BriefInv' /\ CopyInv' /\ LostInv' /\ SingleInv' /\ WholeInv'
<1>1. \A id \in Ids : Present(id)' => File(id)' = File(id) /\ Content(id)' = Content(id)
  BY DEF File, Content
<1>2. OneBriefingPerDay'
  BY StoreFacts DEF OneBriefingPerDay
<1>3. MissingOnlyByDeletion'
  BY <1>1 DEF StoreInv, MissingOnlyByDeletion, ContentStatus
<1>4. BriefInv'
  BY SlotKinds DEF StoreInv, BriefInv
<1>5. \A id \in Ids : SavesOf(id)' \subseteq SavesOf(id)
  BY DEF SavesOf
<1>6. CopyInv'
  <2> SUFFICES ASSUME NEW id \in Ids, NEW q \in SavesOf(id)'
               PROVE  /\ op'[q].made => op'[q].seen = NoRow /\ ~Present(id)' /\ SavesOf(id)' = {q}
                      /\ q = Worker /\ ~op'[q].made =>
                           op'[q].seen # NoRow /\ op'[q].seen.daily
                           /\ op'[q].seen.day = op'[q].row.day /\ op'[q].row.daily
                      /\ q # Worker /\ op'[q].at # "commit" => op'[q].seen = NoRow
                      /\ op'[q].at = "commit" /\ op'[q].seen # NoRow /\ ~op'[q].seen.daily
                         /\ id \notin claimed' /\ Present(id)' => ~rows'[id].daily
    BY DEF CopyInv
  <2>1. op'[q] = op[q] /\ q \in SavesOf(id) /\ q \in Slots
    BY DEF SavesOf
  <2>2. op[q].made => ~Present(id)' /\ SavesOf(id)' = {q} /\ op[q].seen = NoRow
    BY <1>5, <2>1 DEF StoreInv, CopyInv
  <2> QED
    BY <2>1, <2>2 DEF StoreInv, CopyInv
<1>7. \A q \in Slots : Written(q)' => Written(q) /\ Target(q)' = Target(q) /\ op'[q] = op[q]
  BY DEF Written, Target, IsSave
<1>8. LostInv'
  BY <1>7 DEF StoreInv, LostInv
<1>9. SingleInv'
  BY <1>5 DEF StoreInv, SingleInv, SavesOf
<1>10. WholeInv'
  <2> SUFFICES ASSUME NEW id \in Ids \ (crossed \cup torn)'
               PROVE  /\ \A q \in SavesOf(id)' : Written(q)' /\ files'[Target(q)'] # NoFile
                           => files'[Target(q)'] = op'[q].row.text
                      /\ Present(id)' /\ Content(id)' # NoFile /\ (\A q \in SavesOf(id)' : ~Written(q)')
                           => Content(id)' = rows'[id].text
    BY DEF WholeInv
  <2>1. id \in Ids \ (crossed \cup torn)
    OBVIOUS
  <2>2. ASSUME NEW q \in SavesOf(id), Written(q)
        PROVE  q \in SavesOf(id)' /\ Written(q)'
    BY <2>2 DEF SavesOf, Written
  <2>3. \A q \in SavesOf(id)' : Written(q)' /\ files'[Target(q)'] # NoFile
                           => files'[Target(q)'] = op'[q].row.text
    BY <1>5, <1>7, <2>1 DEF StoreInv, WholeInv, SavesOf
  <2>4. Present(id)' /\ Content(id)' # NoFile /\ (\A q \in SavesOf(id)' : ~Written(q)')
                           => Content(id)' = rows'[id].text
    BY <1>1, <2>1, <2>2 DEF StoreInv, WholeInv
  <2> QED
    BY <2>3, <2>4
<1> QED
  BY <1>2, <1>3, <1>4, <1>6, <1>8, <1>9, <1>10

\* One slot gives up or finishes what is no save; rows stay.
LEMMA SlotQuiet ==
    ASSUME StoreInv, NEW q \in Slots, NEW o \in Frames, ~IsSave(o), ~IsSave(op[q]),
           op' = [op EXCEPT ![q] = o], UNCHANGED <<files, unlinked, torn, crossed, claimed, rows>>
    PROVE  /\ OneBriefingPerDay' /\ MissingOnlyByDeletion'
           /\ BriefInv' /\ CopyInv' /\ LostInv' /\ SingleInv' /\ WholeInv'
           /\ op' \in [Slots -> Frames]
<1>1. op \in [Slots -> Frames]
  BY StoreFacts
<1>2. /\ op' \in [Slots -> Frames] /\ op'[q] = o
      /\ \A p \in Slots \ {q} : op'[p] = op[p]
  BY <1>1
<1>3. \A p \in Slots : IsSave(op'[p]) => op'[p] = op[p]
  BY <1>2
<1>4. \A p \in Slots : Written(p) => op'[p] = op[p]
  BY <1>2 DEF Written, IsSave
<1>5. \A id \in Ids : Present(id)' => Present(id) /\ rows'[id].day = rows[id].day
             /\ rows'[id].text = rows[id].text /\ rows'[id].daily = rows[id].daily
  BY DEF Present
<1> QED
  BY <1>2, <1>3, <1>4, <1>5, QuietKeeps

\* Slots, files and rows stay.
LEMMA TablesQuiet ==
    ASSUME StoreInv, UNCHANGED <<files, unlinked, torn, crossed, claimed, rows, op>>
    PROVE  /\ OneBriefingPerDay' /\ MissingOnlyByDeletion'
           /\ BriefInv' /\ CopyInv' /\ LostInv' /\ SingleInv' /\ WholeInv'
<1>1. \A id \in Ids : Present(id)' => Present(id) /\ rows'[id].day = rows[id].day
             /\ rows'[id].text = rows[id].text /\ rows'[id].daily = rows[id].daily
  BY DEF Present
<1>2. \A q \in Slots : op'[q] = op[q]
  OBVIOUS
<1> QED
  BY <1>1, <1>2, QuietKeeps

-----------------------------------------------------------------------------
(* Saving                                                                  *)

\* A save begins: nothing is written yet.
LEMMA StartKeeps ==
    ASSUME StoreInv, NEW q \in Slots, NEW id \in Ids, NEW row \in Row,
           NEW seen \in Row \cup {NoRow}, NEW made \in BOOLEAN,
           StartSave(q, id, row, seen, made),
           claimed \subseteq claimed', claimed' \subseteq claimed \cup {id},
           q \in Requests /\ id \notin claimed' => ~row.daily,
           q = Worker => /\ id \in claimed \/ \A r \in Ids \ claimed :
                              Present(r) /\ rows[r].daily /\ rows[r].day = row.day => r = id
                         /\ ~made => seen # NoRow /\ seen.daily /\ seen.day = row.day /\ row.daily,
           q # Worker => seen = NoRow,
           made => seen = NoRow /\ ~Present(id) /\ SavesOf(id) = {},
           ~made => \A p \in SavesOf(id) : ~op[p].made,
           seen # NoRow => seen = rows[id]
    PROVE  StoreInv'
<1> DEFINE o == [at |-> "write", id |-> id, row |-> row, seen |-> seen, made |-> made]
<1>1. /\ o \in Frames /\ IsSave(o) /\ o.at = "write" /\ o.id = id /\ o.row = row
      /\ o.seen = seen /\ o.made = made
      /\ op[q] = Idle /\ op' = [op EXCEPT ![q] = o]
      /\ UNCHANGED <<today, rows, files, states, links, known, marks, edits, faults, unlinked, torn>>
      /\ saves' = saves + 1
  BY FrameMembers DEF StartSave
<1>2. crossed \subseteq crossed' /\ crossed' \subseteq crossed \cup {id}
      /\ (id \notin crossed' => SavesOf(id) = {})
  BY DEF StartSave
<1> HIDE DEF o
<1>3. /\ op' \in [Slots -> Frames] /\ op'[q] = o
      /\ \A p \in Slots \ {q} : op'[p] = op[p]
  BY <1>1, StoreFacts
<1>4. TypeOK'
  BY <1>1, <1>2, <1>3, StoreFacts DEF TypeOK, Frames
<1>5. NothingDangles' /\ OneBriefingPerDay' /\ AutoLinksFollowText' /\ MissingOnlyByDeletion'
  BY <1>1, <1>2, StoreFacts DEF NothingDangles, OneBriefingPerDay, AutoLinksFollowText, Present,
     StoreInv, MissingOnlyByDeletion, ContentStatus, Content, File
<1>6. ~IsSave(op[q]) /\ ~Written(q) /\ ~Written(q)'
  BY <1>1, <1>3, FrameMembers DEF Written
<1>7. BriefInv'
  <2>1. \A p \in Requests : IsSave(op'[p]) /\ op'[p].id \notin claimed' => ~op'[p].row.daily
    BY <1>1, <1>3, SlotKinds DEF StoreInv, BriefInv
  <2>2. IsSave(op'[Worker]) => \A r \in Ids \ claimed' :
          Present(r) /\ rows[r].daily /\ rows[r].day = op'[Worker].row.day
            => r = op'[Worker].id \/ op'[Worker].id \in claimed'
    BY <1>1, <1>3, SlotKinds DEF StoreInv, BriefInv
  <2> QED
    BY <1>1, <2>1, <2>2 DEF BriefInv, Present
<1>8. /\ SavesOf(id)' = SavesOf(id) \cup {q}
      /\ \A r \in Ids \ {id} : SavesOf(r)' = SavesOf(r)
      /\ \A r \in Ids : \A p \in SavesOf(r) : p # q /\ op'[p] = op[p]
  BY <1>1, <1>3, <1>6 DEF SavesOf
<1>9. CopyInv'
  <2> SUFFICES ASSUME NEW r \in Ids, NEW p \in SavesOf(r)'
               PROVE  /\ op'[p].made => op'[p].seen = NoRow /\ ~Present(r)' /\ SavesOf(r)' = {p}
                      /\ p = Worker /\ ~op'[p].made =>
                           op'[p].seen # NoRow /\ op'[p].seen.daily
                           /\ op'[p].seen.day = op'[p].row.day /\ op'[p].row.daily
                      /\ p # Worker /\ op'[p].at # "commit" => op'[p].seen = NoRow
                      /\ op'[p].at = "commit" /\ op'[p].seen # NoRow /\ ~op'[p].seen.daily
                         /\ r \notin claimed' /\ Present(r)' => ~rows'[r].daily
    BY DEF CopyInv
  <2>1. CASE p = q
    <3>1. r = id
      BY <1>1, <1>3, <2>1 DEF SavesOf
    <3>2. made => SavesOf(id)' = {q} /\ ~Present(id)'
      BY <1>1, <1>8 DEF Present
    <3> QED
      BY <1>1, <1>3, <2>1, <3>1, <3>2
  <2>2. CASE p # q
    <3>1. p \in SavesOf(r) /\ op'[p] = op[p]
      BY <1>3, <1>8, <2>2
    <3>2. op[p].made => op[p].seen = NoRow /\ ~Present(r)' /\ SavesOf(r)' = {p}
      <4> SUFFICES ASSUME op[p].made PROVE op[p].seen = NoRow /\ ~Present(r)' /\ SavesOf(r)' = {p}
        OBVIOUS
      <4>1. r # id
        BY <3>1
      <4> QED
        BY <1>1, <1>8, <3>1, <4>1 DEF StoreInv, CopyInv, Present
    <3> QED
      BY <1>1, <3>1, <3>2 DEF StoreInv, CopyInv, Present
  <2> QED
    BY <2>1, <2>2
<1>10. \A p \in Slots : Written(p)' => Written(p) /\ Target(p)' = Target(p) /\ op'[p] = op[p]
  BY <1>1, <1>3 DEF Written, Target
<1>11. LostInv'
  BY <1>1, <1>10 DEF StoreInv, LostInv
<1>12. SingleInv'
  <2> SUFFICES ASSUME NEW r \in Ids \ crossed'
               PROVE  /\ \A p, s \in SavesOf(r)' : p = s
                      /\ \A p \in SavesOf(r)' : op'[p].seen # NoRow /\ Present(r)'
                           => rows'[r].day = op'[p].seen.day /\ rows'[r].text = op'[p].seen.text
    BY DEF SingleInv
  <2>1. CASE r = id
    BY <1>1, <1>2, <1>3, <1>8, <2>1
  <2>2. CASE r # id
    BY <1>1, <1>2, <1>8, <2>2 DEF StoreInv, SingleInv, Present
  <2> QED
    BY <2>1, <2>2
<1>13. WholeInv'
  <2> SUFFICES ASSUME NEW r \in Ids \ (crossed' \cup torn)
               PROVE  /\ \A p \in SavesOf(r)' : Written(p)' /\ files[Target(p)'] # NoFile
                           => files[Target(p)'] = op'[p].row.text
                      /\ Present(r)' /\ Content(r)' # NoFile /\ (\A p \in SavesOf(r)' : ~Written(p)')
                           => Content(r)' = rows[r].text
    BY <1>1 DEF WholeInv
  <2>1. r \in Ids \ (crossed \cup torn)
    BY <1>2
  <2>2. \A p \in SavesOf(r)' : Written(p)' => p \in SavesOf(r) /\ Written(p)
    <3>1. SavesOf(r)' \subseteq Slots /\ SavesOf(r)' \subseteq SavesOf(r) \cup {q}
      BY <1>8 DEF SavesOf
    <3> QED
      BY <1>6, <1>10, <3>1
  <2>3. \A p \in SavesOf(r) : Written(p) => p \in SavesOf(r)' /\ Written(p)'
    BY <1>8 DEF Written
  <2> QED
    BY <1>1, <1>10, <2>1, <2>2, <2>3 DEF StoreInv, WholeInv, Present, Content, File, SavesOf
<1> QED
  BY <1>4, <1>5, <1>7, <1>9, <1>11, <1>12, <1>13 DEF StoreInv, ReportsConsistent

\* A made-up id is absent and no save's.
LEMMA FreshFacts ==
    ASSUME StoreInv, NEW id \in Ids, Fresh(id)
    PROVE  ~Present(id) /\ SavesOf(id) = {}
<1>1. \A p \in Slots : IsSave(op[p]) => op[p] # Idle
  BY FrameMembers
<1> QED
  BY <1>1 DEF Fresh, SavesOf

LEMMA ResearchKeeps ==
    ASSUME StoreInv, NEW q \in Requests, NEW user \in Users, NEW text \in Texts,
           Research(q, user, text)
    PROVE  StoreInv'
<1> DEFINE row == [owner |-> user, shared |-> FALSE, daily |-> FALSE, day |-> today, text |-> text]
<1>1. PICK id \in Ids : Fresh(id) /\ StartSave(q, id, row, NoRow, TRUE) /\ claimed' = claimed
  BY DEF Research
<1>2. row \in Row /\ ~row.daily
  BY StoreFacts DEF Row, TypeOK
<1>3. q \in Slots /\ q # Worker
  BY SlotKinds
<1>4. ~Present(id) /\ SavesOf(id) = {}
  BY <1>1, FreshFacts
<1> HIDE DEF row
<1> QED
  BY <1>1, <1>2, <1>3, <1>4, StartKeeps

LEMMA ImportKeeps ==
    ASSUME StoreInv, NEW q \in Requests, NEW id \in Ids, NEW day \in Days, NEW text \in Texts,
           NEW claims \in Claims, Import(q, id, day, text, claims)
    PROVE  StoreInv'
<1> DEFINE row == [owner |-> Admin, shared |-> TRUE, daily |-> claims = {"origin", "title"},
                   day |-> day, text |-> text]
<1>1. /\ StartSave(q, id, row, NoRow, FALSE) /\ \A p \in SavesOf(id) : ~op[p].made
      /\ claimed' = IF claims = {} THEN claimed ELSE claimed \cup {id}
  BY DEF Import
<1>2. row \in Row /\ (id \notin claimed' => ~row.daily)
  BY <1>1, ReportAssumption DEF Row
<1>3. q \in Slots /\ q # Worker
  BY SlotKinds
<1>4. claimed \subseteq claimed' /\ claimed' \subseteq claimed \cup {id}
  BY <1>1
<1> HIDE DEF row
<1> QED
  BY <1>1, <1>2, <1>3, <1>4, StartKeeps

\* The briefing of the day is overwritten, or there is none.
LEMMA BriefingKeeps ==
    ASSUME StoreInv, NEW id \in Ids, NEW text \in Texts, Briefing(id, text)
    PROVE  StoreInv'
<1> DEFINE row == BriefingRow(today, text)
           made == (Existing(today) = {})
<1>1. StartSave(Worker, id, row, rows[id], made) /\ claimed' = claimed
  BY DEF Briefing
<1>2. row \in Row /\ row.day = today /\ row.daily
  BY BriefingRowShape, StoreFacts DEF TypeOK
<1>3. rows[id] \in Row \cup {NoRow} /\ made \in BOOLEAN
  BY StoreFacts DEF TypeOK
<1>4. made => rows[id] = NoRow /\ ~Present(id) /\ SavesOf(id) = {}
  BY FreshFacts DEF Briefing, Present
<1>5. ~made => /\ Present(id) /\ rows[id] # NoRow /\ rows[id].daily /\ rows[id].day = row.day
  BY <1>2 DEF Briefing, Existing, Present
<1>6. id \in claimed \/ \A r \in Ids \ claimed : Present(r) /\ rows[r].daily /\ rows[r].day = row.day => r = id
  <2> SUFFICES ASSUME id \notin claimed, NEW r \in Ids \ claimed,
                      Present(r), rows[r].daily, rows[r].day = today
               PROVE  r = id
    BY <1>2
  <2>1. ~made
    BY DEF Existing
  <2> QED
    BY <1>2, <1>5, <2>1, StoreFacts DEF OneBriefingPerDay
<1>7. ~made => \A p \in SavesOf(id) : ~op[p].made
  <2> SUFFICES ASSUME ~made, NEW p \in SavesOf(id) PROVE ~op[p].made
    OBVIOUS
  <2> QED
    BY <1>5 DEF StoreInv, CopyInv, SavesOf
<1> HIDE DEF row, made
<1> QED
  BY <1>1, <1>2, <1>3, <1>4, <1>5, <1>6, <1>7, SlotKinds, StartKeeps
\* A save advances: its file is written, or the row merged into its session.
LEMMA AdvanceKeeps ==
    ASSUME StoreInv, NEW q \in Slots, NEW o \in Frames, IsSave(op[q]), IsSave(o),
           o.id = op[q].id, o.row = op[q].row, o.made = op[q].made, op[q].at # "commit",
           op' = [op EXCEPT ![q] = o], UNCHANGED <<rows, crossed, claimed>>,
           o.at = "commit" => o.seen = IF op[q].seen = NoRow THEN rows[op[q].id] ELSE op[q].seen,
           o.at # "commit" => o.seen = op[q].seen
    PROVE  /\ op' \in [Slots -> Frames] /\ op'[q] = o
           /\ \A p \in Slots \ {q} : op'[p] = op[p]
           /\ \A r \in Ids : SavesOf(r)' = SavesOf(r)
           /\ BriefInv' /\ CopyInv' /\ SingleInv'
<1>1. /\ op' \in [Slots -> Frames] /\ op'[q] = o
      /\ \A p \in Slots \ {q} : op'[p] = op[p]
  BY StoreFacts
<1>2. \A r \in Ids : SavesOf(r)' = SavesOf(r)
  BY <1>1 DEF SavesOf
<1>3. \A p \in Slots : /\ IsSave(op'[p]) <=> IsSave(op[p])
                       /\ IsSave(op[p]) => op'[p].row = op[p].row /\ op'[p].id = op[p].id
  BY <1>1
<1>4. BriefInv'
  BY <1>3, SlotKinds DEF StoreInv, BriefInv, Present
<1>5. CopyInv'
  <2> SUFFICES ASSUME NEW r \in Ids, NEW p \in SavesOf(r)
               PROVE  /\ op'[p].made => op'[p].seen = NoRow /\ ~Present(r) /\ SavesOf(r) = {p}
                      /\ p = Worker /\ ~op'[p].made =>
                           op'[p].seen # NoRow /\ op'[p].seen.daily
                           /\ op'[p].seen.day = op'[p].row.day /\ op'[p].row.daily
                      /\ p # Worker /\ op'[p].at # "commit" => op'[p].seen = NoRow
                      /\ op'[p].at = "commit" /\ op'[p].seen # NoRow /\ ~op'[p].seen.daily
                         /\ r \notin claimed /\ Present(r) => ~rows[r].daily
    BY <1>2 DEF CopyInv, Present
  <2>1. CASE p = q
    <3>1. op[q].id = r /\ q \in SavesOf(r)
      BY <2>1 DEF SavesOf
    <3>2. op[q].made => op[q].seen = NoRow /\ rows[r] = NoRow /\ SavesOf(r) = {q}
      BY <3>1 DEF StoreInv, CopyInv, Present
    <3>3. op[q].seen # NoRow => o.seen = op[q].seen
      OBVIOUS
    <3> QED
      BY <1>1, <2>1, <3>1, <3>2, <3>3 DEF StoreInv, CopyInv, Present
  <2>2. CASE p # q
    <3>1. op'[p] = op[p]
      BY <1>1, <2>2 DEF SavesOf
    <3> QED
      BY <3>1 DEF StoreInv, CopyInv
  <2> QED
    BY <2>1, <2>2
<1>6. SingleInv'
  <2> SUFFICES ASSUME NEW r \in Ids \ crossed, NEW p \in SavesOf(r), op'[p].seen # NoRow, Present(r)
               PROVE  rows[r].day = op'[p].seen.day /\ rows[r].text = op'[p].seen.text
    BY <1>2 DEF StoreInv, SingleInv, Present
  <2>1. CASE p = q
    <3>1. op[q].id = r
      BY <2>1 DEF SavesOf
    <3> QED
      BY <1>1, <2>1, <3>1 DEF StoreInv, SingleInv
  <2>2. CASE p # q
    <3>1. op'[p] = op[p]
      BY <1>1, <2>2 DEF SavesOf
    <3> QED
      BY <3>1 DEF StoreInv, SingleInv
  <2> QED
    BY <2>1, <2>2
<1> QED
  BY <1>1, <1>2, <1>4, <1>5, <1>6

LEMMA WriteKeeps ==
    ASSUME StoreInv, NEW q \in Slots, WriteFile(q)
    PROVE  StoreInv'
<1> DEFINE id == op[q].id
           row == op[q].row
           f == <<row.day, id>>
           o == [at |-> "merge", id |-> id, row |-> row, seen |-> op[q].seen, made |-> op[q].made]
<1>1. /\ op[q] \in Frames /\ op[q].at = "write" /\ IsSave(op[q])
      /\ id \in Ids /\ row \in Row /\ op[q].seen \in Row \cup {NoRow} /\ op[q].made \in BOOLEAN
      /\ op[q] = [at |-> "write", id |-> id, row |-> row, seen |-> op[q].seen, made |-> op[q].made]
  BY StoreFacts, FrameShape DEF WriteFile, IsSave
<1>2. f \in Days \X Ids /\ row.text \in Texts /\ row.text # NoFile
  BY <1>1, RowShape
<1>3. /\ files' = [files EXCEPT ![f] = row.text] /\ unlinked' = unlinked \ {f}
      /\ UNCHANGED <<today, rows, states, links, known, budget, torn, crossed, claimed>>
  BY DEF WriteFile
<1>4. op' = [op EXCEPT ![q] = o]
  <2>1. [op[q] EXCEPT !.at = "merge"] = o
    BY <1>1
  <2>2. op' = [op EXCEPT ![q] = [op[q] EXCEPT !.at = "merge"]]
    BY StoreFacts DEF WriteFile
  <2> HIDE DEF o
  <2> QED
    BY <2>1, <2>2
<1>5. o \in Frames /\ IsSave(o) /\ o.at = "merge" /\ o.id = id /\ o.row = row
      /\ o.seen = op[q].seen /\ o.made = op[q].made
  BY <1>1, FrameMembers
<1> HIDE DEF o
<1>6. /\ op' \in [Slots -> Frames] /\ op'[q] = o
      /\ \A p \in Slots \ {q} : op'[p] = op[p]
      /\ \A r \in Ids : SavesOf(r)' = SavesOf(r)
      /\ BriefInv' /\ CopyInv' /\ SingleInv'
  BY <1>1, <1>3, <1>4, <1>5, AdvanceKeeps
<1>7. /\ files' \in [Days \X Ids -> Texts \cup {NoFile}] /\ files'[f] = row.text
      /\ \A g \in (Days \X Ids) \ {f} : files'[g] = files[g]
  BY <1>2, <1>3, StoreFacts DEF TypeOK
<1>8. Target(q)' = f /\ Written(q)'
  BY <1>5, <1>6 DEF Target, Written
<1>9. ASSUME NEW p \in Slots, Written(p), p # q
      PROVE  Target(p) \in Days \X Ids /\ Target(p)' = Target(p) /\ op'[p] = op[p] /\ IsSave(op[p])
  <2>1. op[p].id \in Ids /\ op[p].row \in Row /\ IsSave(op[p])
    BY <1>9, StoreFacts, FrameShape DEF Written, IsSave
  <2> QED
    BY <1>6, <1>9, <2>1, RowShape DEF Target
<1>10. \A p \in Slots : Written(p)' => p = q \/ Written(p)
  BY <1>6 DEF Written
<1>11. TypeOK'
  BY <1>3, <1>6, <1>7, StoreFacts DEF TypeOK, Frames, budget
<1>12. NothingDangles' /\ OneBriefingPerDay' /\ AutoLinksFollowText'
  BY <1>3, StoreFacts DEF NothingDangles, OneBriefingPerDay, AutoLinksFollowText, Present
<1>13. \A r \in Ids : Present(r) => File(r)' = File(r) /\ File(r) \in Days \X Ids
  BY <1>3, StoreFacts, RowShape DEF File
<1>14. MissingOnlyByDeletion'
  <2> SUFFICES ASSUME NEW r \in Ids, Present(r), files'[File(r)] = NoFile
               PROVE  File(r) \in unlinked'
    BY <1>3, <1>13 DEF MissingOnlyByDeletion, Present, ContentStatus, Content
  <2>1. File(r) # f /\ files[File(r)] = NoFile
    BY <1>2, <1>7, <1>13
  <2> QED
    BY <1>3, <2>1 DEF StoreInv, MissingOnlyByDeletion, ContentStatus, Content
<1>15. LostInv'
  BY <1>2, <1>3, <1>7, <1>8, <1>9, <1>10 DEF StoreInv, LostInv
<1>16. WholeInv'
  <2> SUFFICES ASSUME NEW r \in Ids \ (crossed \cup torn)
               PROVE  /\ \A p \in SavesOf(r) : Written(p)' /\ files'[Target(p)'] # NoFile
                           => files'[Target(p)'] = op'[p].row.text
                      /\ Present(r)' /\ Content(r)' # NoFile /\ (\A p \in SavesOf(r) : ~Written(p)')
                           => Content(r)' = rows'[r].text
    BY <1>3, <1>6 DEF WholeInv
  <2>1. CASE r = id
    <3>1. SavesOf(r) = {q}
      BY <1>1, <2>1 DEF SavesOf, StoreInv, SingleInv
    <3>2. files'[Target(q)'] = op'[q].row.text
      BY <1>5, <1>6, <1>7, <1>8
    <3> QED
      BY <1>8, <3>1, <3>2
  <2>2. CASE r # id
    <3>1. q \notin SavesOf(r)
      BY <2>2 DEF SavesOf
    <3>2. \A p \in SavesOf(r) : Written(p) => Target(p)[2] = r
      BY DEF SavesOf, Target
    <3>3. \A p \in SavesOf(r) : Written(p)' <=> Written(p)
      BY <1>6, <3>1 DEF SavesOf, Written
    <3>4. ASSUME NEW p \in SavesOf(r), Written(p)
          PROVE  files'[Target(p)'] = files[Target(p)] /\ op'[p] = op[p]
      <4>1. p \in Slots /\ p # q /\ Target(p)[2] = r
        BY <3>1, <3>2, <3>4 DEF SavesOf
      <4>2. Target(p) # f
        BY <2>2, <4>1
      <4> QED
        BY <1>7, <1>9, <3>4, <4>1, <4>2
    <3>5. Present(r)' => Present(r) /\ Content(r)' = Content(r) /\ rows'[r] = rows[r]
      <4> SUFFICES ASSUME Present(r)
                   PROVE  Content(r)' = Content(r)
        BY <1>3 DEF Present
      <4>1. File(r) # f
        BY <2>2 DEF File
      <4> QED
        BY <1>7, <1>13, <4>1 DEF Content
    <3> QED
      BY <3>3, <3>4, <3>5 DEF StoreInv, WholeInv
  <2> QED
    BY <2>1, <2>2
<1> QED
  BY <1>6, <1>11, <1>12, <1>14, <1>15, <1>16 DEF StoreInv, ReportsConsistent

LEMMA MergeKeeps ==
    ASSUME StoreInv, NEW q \in Slots, Merge(q)
    PROVE  StoreInv'
<1> DEFINE seen == IF op[q].seen = NoRow THEN rows[op[q].id] ELSE op[q].seen
           o == [at |-> "commit", id |-> op[q].id, row |-> op[q].row, made |-> op[q].made,
                 seen |-> seen]
<1>1. /\ op[q] \in Frames /\ op[q].at = "merge" /\ IsSave(op[q]) /\ Written(q)
      /\ op[q].id \in Ids /\ op[q].row \in Row /\ op[q].seen \in Row \cup {NoRow}
      /\ op[q].made \in BOOLEAN
      /\ op[q] = [at |-> "merge", id |-> op[q].id, row |-> op[q].row, seen |-> op[q].seen,
                  made |-> op[q].made]
  BY StoreFacts, FrameShape DEF Merge, IsSave, Written
<1>2. seen \in Row \cup {NoRow}
  BY <1>1, StoreFacts DEF TypeOK
<1>3. op' = [op EXCEPT ![q] = o] /\ UNCHANGED <<today, rows, files, states, links, known, budget, history>>
  BY DEF Merge
<1>4. o \in Frames /\ IsSave(o) /\ o.at = "commit" /\ o.id = op[q].id /\ o.row = op[q].row
      /\ o.seen = seen /\ o.made = op[q].made
  BY <1>1, <1>2, FrameMembers
<1> HIDE DEF o
<1>5. /\ op' \in [Slots -> Frames] /\ op'[q] = o
      /\ \A p \in Slots \ {q} : op'[p] = op[p]
      /\ \A r \in Ids : SavesOf(r)' = SavesOf(r)
      /\ BriefInv' /\ CopyInv' /\ SingleInv'
  BY <1>1, <1>3, <1>4, AdvanceKeeps DEF history
<1>6. \A p \in Slots : /\ Written(p)' <=> Written(p)
                       /\ Written(p) => Target(p)' = Target(p) /\ op'[p].row = op[p].row
  BY <1>1, <1>4, <1>5 DEF Written, Target
<1>7. TypeOK'
  BY <1>3, <1>5, StoreFacts DEF TypeOK, Frames, budget, history
<1>8. NothingDangles' /\ OneBriefingPerDay' /\ AutoLinksFollowText' /\ MissingOnlyByDeletion'
  BY <1>3, StoreFacts DEF NothingDangles, OneBriefingPerDay, AutoLinksFollowText, Present,
     StoreInv, MissingOnlyByDeletion, ContentStatus, Content, File, history
<1>9. LostInv'
  BY <1>3, <1>6 DEF StoreInv, LostInv, history
<1>10. WholeInv'
  <2> SUFFICES ASSUME NEW r \in Ids \ (crossed \cup torn)
               PROVE  /\ \A p \in SavesOf(r) : Written(p)' /\ files[Target(p)'] # NoFile
                           => files[Target(p)'] = op'[p].row.text
                      /\ Present(r) /\ Content(r) # NoFile /\ (\A p \in SavesOf(r) : ~Written(p)')
                           => Content(r) = rows[r].text
    BY <1>3, <1>5 DEF WholeInv, history, Present, Content, File
  <2>1. SavesOf(r) \subseteq Slots
    BY DEF SavesOf
  <2> QED
    BY <1>6, <2>1 DEF StoreInv, WholeInv
<1> QED
  BY <1>5, <1>7, <1>8, <1>9, <1>10 DEF StoreInv, ReportsConsistent

\* What the flush makes of the row: of an id no import claimed, only the
\* worker's first save makes a briefing, and a rerun leaves one where it is;
\* of an id whose saves did not overlap, day and text are the save's.
LEMMA FlushFacts ==
    ASSUME StoreInv, NEW q \in Slots, NEW id \in Ids, NEW row \in Row, NEW new,
           op[q].at = "commit", op[q].id = id, op[q].row = row,
           Present(id) <=> op[q].seen # NoRow,
           new = IF op[q].seen = NoRow THEN row ELSE Flushed(rows[id], op[q].seen, row)
    PROVE  /\ new \in Row
           /\ new.day = row.day \/ (Present(id) /\ new.day = rows[id].day)
           /\ id \notin crossed => new.day = row.day /\ new.text = row.text
           /\ id \notin claimed /\ new.daily =>
                /\ q = Worker /\ row.daily
                /\ \/ SavesOf(id) = {q} /\ ~Present(id) /\ new.day = row.day
                   \/ Present(id) /\ rows[id].daily /\ new.day = rows[id].day
<1>1. IsSave(op[q]) /\ op[q].seen \in Row \cup {NoRow} /\ q \in SavesOf(id)
  BY StoreFacts, FrameShape DEF IsSave, SavesOf
<1>2. rows[id] \in Row \cup {NoRow}
  BY StoreFacts DEF TypeOK
<1>3. CASE op[q].seen = NoRow
  <2>1. new = row /\ ~Present(id)
    BY <1>3
  <2>2. id \notin claimed /\ row.daily => q = Worker /\ SavesOf(id) = {q}
    BY <1>1, <1>3, SlotKinds DEF StoreInv, BriefInv, CopyInv
  <2> QED
    BY <2>1, <2>2
<1>4. CASE op[q].seen # NoRow
  <2> DEFINE seen == op[q].seen
             now == rows[id]
  <2>1. seen \in Row /\ now \in Row /\ Present(id)
    BY <1>1, <1>2, <1>4 DEF Present
  <2>2. /\ new \in Row
        /\ new.daily = Column(now.daily, seen.daily, row.daily)
        /\ new.day = Column(now.day, seen.day, row.day)
        /\ new.text = Column(now.text, seen.text, row.text)
    BY <1>4, <2>1, FlushedShape
  <2>3. id \notin crossed => now.day = seen.day /\ now.text = seen.text
    BY <1>1, <1>4, <2>1 DEF StoreInv, SingleInv
  <2>4. id \notin claimed /\ new.daily => q = Worker
    <3> SUFFICES ASSUME id \notin claimed, q # Worker PROVE ~new.daily
      OBVIOUS
    <3>1. ~row.daily
      BY <1>1, SlotKinds DEF StoreInv, BriefInv
    <3>2. ~seen.daily => ~now.daily
      BY <1>1, <1>4, <2>1 DEF StoreInv, CopyInv
    <3> QED
      BY <2>1, <2>2, <3>1, <3>2, RowShape DEF Column
  <2>5. q = Worker => seen.daily /\ row.daily /\ seen.day = row.day
    BY <1>1, <1>4 DEF StoreInv, CopyInv
  <2>6. q = Worker => new.daily = now.daily /\ new.day = now.day
    BY <2>1, <2>2, <2>5, RowShape DEF Column
  <2>7. new.day = row.day \/ new.day = now.day
    BY <2>2 DEF Column
  <2>8. id \notin crossed => new.day = row.day /\ new.text = row.text
    BY <2>2, <2>3 DEF Column
  <2> HIDE DEF seen, now
  <2> QED
    BY <2>1, <2>2, <2>4, <2>5, <2>6, <2>7, <2>8 DEF now
<1> QED
  BY <1>3, <1>4

\* The row and its automatic links are committed together.
LEMMA SaveRowKeeps ==
    ASSUME StoreInv, NEW q \in Slots, SaveRow(q)
    PROVE  StoreInv'
<1>0. /\ op[q] \in Frames /\ op[q].at = "commit" /\ IsSave(op[q])
      /\ op[q].id \in Ids /\ op[q].row \in Row
  BY StoreFacts, FrameShape DEF SaveRow, IsSave
<1>1. PICK id \in Ids, row \in Row : op[q].id = id /\ op[q].row = row
  BY <1>0
<1> DEFINE f == <<row.day, id>>
           new == IF op[q].seen = NoRow THEN row ELSE Flushed(rows[id], op[q].seen, row)
<1>2. /\ rows' = [rows EXCEPT ![id] = new]
      /\ links' = (links \ LinksOf(id, "auto")) \cup AutoLinks(id, row.text)
      /\ op' = [op EXCEPT ![q] = Idle] /\ (Present(id) <=> op[q].seen # NoRow)
      /\ UNCHANGED <<today, files, states, known, budget, history>>
  BY <1>1, StoreFacts DEF SaveRow, TypeOK
<1>3. /\ new \in Row
      /\ new.day = row.day \/ (Present(id) /\ new.day = rows[id].day)
      /\ id \notin crossed => new.day = row.day /\ new.text = row.text
      /\ id \notin claimed /\ new.daily =>
           /\ q = Worker /\ row.daily
           /\ \/ SavesOf(id) = {q} /\ ~Present(id) /\ new.day = row.day
              \/ Present(id) /\ rows[id].daily /\ new.day = rows[id].day
  BY <1>0, <1>1, <1>2, FlushFacts
<1> HIDE DEF new
<1>4. /\ op' \in [Slots -> Frames] /\ op'[q] = Idle
      /\ \A p \in Slots \ {q} : op'[p] = op[p]
  BY <1>2, StoreFacts, FrameMembers
<1>5. /\ rows' \in [Ids -> Row \cup {NoRow}] /\ rows'[id] = new
      /\ \A r \in Ids \ {id} : rows'[r] = rows[r]
  BY <1>2, <1>3, StoreFacts DEF TypeOK
<1>6. Target(q) = f /\ Written(q) /\ q \in SavesOf(id)
  BY <1>0, <1>1 DEF Target, Written, SavesOf
<1> HIDE DEF f
<1>7. AutoLinks(id, row.text) \subseteq Link
      /\ \A l \in AutoLinks(id, row.text) : /\ l.report = id /\ l.source = "auto"
                                           /\ l.instrument \in Mentions[row.text]
  BY <1>1, RowShape, AutoLinksShape
<1>8. TypeOK'
  BY <1>2, <1>4, <1>5, <1>7, StoreFacts DEF TypeOK, Frames, budget, history
<1>9. Present(id)' /\ \A r \in Ids : (Present(r) => Present(r)') /\ (r # id => (Present(r)' => Present(r)))
  BY <1>3, <1>5, RowShape DEF Present
<1>10. \A l \in links' : /\ l \in links \/ l \in AutoLinks(id, row.text)
                         /\ l.report = id /\ l.source = "auto" => l \in AutoLinks(id, row.text)
                         /\ l.report # id => l \in links
                         /\ l.report \in Ids
  <2>1. \A l \in links : l.report \in Ids
    BY StoreFacts DEF TypeOK, Link
  <2> QED
    BY <1>2, <1>7, <2>1 DEF LinksOf
<1>11. NothingDangles'
  <2>1. \A l \in links : Present(l.report)
    BY StoreFacts DEF NothingDangles
  <2>2. \A l \in links' : Present(l.report)'
    BY <1>7, <1>9, <1>10, <2>1
  <2>3. \A s \in Readers \X Ids : states'[s] # NoState => Present(s[2])'
    BY <1>2, <1>9, StoreFacts DEF NothingDangles
  <2> QED
    BY <2>2, <2>3 DEF NothingDangles
<1>12. AutoLinksFollowText'
  <2> SUFFICES ASSUME NEW l \in links', l.source = "auto", l.report \notin crossed
               PROVE  l.instrument \in Mentions[rows'[l.report].text]
    BY <1>2 DEF AutoLinksFollowText, history
  <2>1. CASE l.report = id
    BY <1>3, <1>5, <1>7, <1>10, <2>1
  <2>2. CASE l.report # id
    BY <1>5, <1>10, <2>2, StoreFacts DEF AutoLinksFollowText
  <2> QED
    BY <2>1, <2>2
\* Another briefing of the day the save makes one of is excluded.
<1>13. ASSUME NEW r \in Ids \ claimed, r # id, id \notin claimed, new.daily,
              Present(r), rows[r].daily, rows[r].day = new.day
       PROVE  FALSE
  <2>1. CASE SavesOf(id) = {q} /\ ~Present(id) /\ new.day = row.day
    BY <1>0, <1>1, <1>3, <1>13, <2>1 DEF StoreInv, BriefInv
  <2>2. CASE Present(id) /\ rows[id].daily /\ new.day = rows[id].day
    BY <1>13, <2>2, StoreFacts DEF OneBriefingPerDay
  <2> QED
    BY <1>3, <1>13, <2>1, <2>2
<1>14. OneBriefingPerDay'
  <2> SUFFICES ASSUME NEW r \in Ids \ claimed, NEW s \in Ids \ claimed, Present(r)', rows'[r].daily,
                      Present(s)', rows'[s].daily, rows'[s].day = rows'[r].day
               PROVE  r = s
    BY <1>2 DEF OneBriefingPerDay, history
  <2>1. CASE r = id /\ s # id
    BY <1>5, <1>9, <1>13, <2>1
  <2>2. CASE s = id /\ r # id
    BY <1>5, <1>9, <1>13, <2>2
  <2>3. CASE r # id /\ s # id
    BY <1>5, <1>9, <2>3, StoreFacts DEF OneBriefingPerDay
  <2> QED
    BY <2>1, <2>2, <2>3
<1>15. \A r \in Ids \ {id} : File(r)' = File(r) /\ Content(r)' = Content(r)
       /\ File(id)' = <<new.day, id>> /\ Content(id)' = files[<<new.day, id>>]
  BY <1>2, <1>5 DEF File, Content
<1>16. File(id)' = <<new.day, id>> /\ Content(id)' = files[<<new.day, id>>]
  BY <1>2, <1>5 DEF File, Content
<1>17. MissingOnlyByDeletion'
  <2> SUFFICES ASSUME NEW r \in Ids, Present(r)', Content(r)' = NoFile
               PROVE  File(r)' \in unlinked
    BY <1>2 DEF MissingOnlyByDeletion, ContentStatus, history
  <2>1. CASE r = id /\ new.day = row.day
    <3>1. File(r)' = f /\ files[f] = NoFile
      BY <1>16, <2>1 DEF f
    <3> QED
      BY <1>6, <3>1 DEF StoreInv, LostInv
  <2>2. CASE r = id /\ Present(id) /\ new.day = rows[id].day
    <3>1. File(r)' = File(id) /\ Content(id) = NoFile
      BY <1>16, <2>2 DEF File, Content
    <3> QED
      BY <2>2, <3>1 DEF StoreInv, MissingOnlyByDeletion, ContentStatus
  <2>3. CASE r # id
    BY <1>9, <1>15, <2>3 DEF StoreInv, MissingOnlyByDeletion, ContentStatus
  <2> QED
    BY <1>3, <2>1, <2>2, <2>3
<1>18. \A p \in Slots : IsSave(op'[p]) => p # q /\ op'[p] = op[p]
  BY <1>4, FrameMembers
<1>19. \A r \in Ids : /\ SavesOf(r)' = SavesOf(r) \ {q}
                      /\ \A p \in SavesOf(r)' : /\ p \in SavesOf(r) /\ p # q /\ op'[p] = op[p]
                                                /\ Written(p)' <=> Written(p)
                                                /\ Target(p)' = Target(p)
  BY <1>4, <1>18 DEF SavesOf, Written, Target
<1>20. BriefInv'
  <2>1. \A p \in Requests : IsSave(op'[p]) /\ op'[p].id \notin claimed => ~op'[p].row.daily
    BY <1>18, SlotKinds DEF StoreInv, BriefInv
  <2>2. ASSUME IsSave(op'[Worker]), NEW r \in Ids \ claimed, Present(r)', rows'[r].daily,
               rows'[r].day = op'[Worker].row.day
        PROVE  r = op'[Worker].id \/ op'[Worker].id \in claimed
    <3>1. q # Worker /\ op'[Worker] = op[Worker] /\ IsSave(op[Worker])
      BY <1>18, <2>2, SlotKinds
    <3>2. r # id
      BY <1>3, <1>5, <2>2, <3>1
    <3> QED
      BY <1>5, <1>9, <2>2, <3>1, <3>2 DEF StoreInv, BriefInv
  <2> QED
    BY <1>2, <2>1, <2>2 DEF BriefInv, history
<1>21. CopyInv'
  <2> SUFFICES ASSUME NEW r \in Ids, NEW p \in SavesOf(r)'
               PROVE  /\ op'[p].made => op'[p].seen = NoRow /\ ~Present(r)' /\ SavesOf(r)' = {p}
                      /\ p = Worker /\ ~op'[p].made =>
                           op'[p].seen # NoRow /\ op'[p].seen.daily
                           /\ op'[p].seen.day = op'[p].row.day /\ op'[p].row.daily
                      /\ p # Worker /\ op'[p].at # "commit" => op'[p].seen = NoRow
                      /\ op'[p].at = "commit" /\ op'[p].seen # NoRow /\ ~op'[p].seen.daily
                         /\ r \notin claimed /\ Present(r)' => ~rows'[r].daily
    BY <1>2 DEF CopyInv, history
  <2>1. p \in SavesOf(r) /\ p # q /\ op'[p] = op[p]
    BY <1>19
  <2>2. op[p].made => op[p].seen = NoRow /\ ~Present(r)' /\ SavesOf(r)' = {p}
    <3> SUFFICES ASSUME op[p].made PROVE op[p].seen = NoRow /\ ~Present(r)' /\ SavesOf(r)' = {p}
      OBVIOUS
    <3>1. op[p].seen = NoRow /\ ~Present(r) /\ SavesOf(r) = {p}
      BY <2>1 DEF StoreInv, CopyInv
    <3>2. r # id
      BY <1>6, <2>1, <3>1
    <3> QED
      BY <1>9, <1>19, <2>1, <3>1, <3>2
  <2>3. ASSUME op[p].at = "commit", op[p].seen # NoRow, ~op[p].seen.daily,
               r \notin claimed, Present(r)'
        PROVE  ~rows'[r].daily
    <3>1. CASE r # id
      BY <1>5, <1>9, <2>1, <2>3, <3>1 DEF StoreInv, CopyInv
    <3>2. CASE r = id
      <4>1. Present(id) => ~rows[id].daily
        BY <2>1, <2>3, <3>2 DEF StoreInv, CopyInv
      <4>2. SavesOf(id) # {q}
        BY <2>1, <3>2
      <4> QED
        BY <1>3, <1>5, <2>3, <3>2, <4>1, <4>2
    <3> QED
      BY <3>1, <3>2
  <2> QED
    BY <2>1, <2>2, <2>3 DEF StoreInv, CopyInv
<1>22. LostInv'
  <2>1. \A p \in Slots : Written(p)' => Written(p) /\ Target(p)' = Target(p)
    BY <1>4, FrameMembers DEF Written, Target
  <2> QED
    BY <1>2, <2>1 DEF StoreInv, LostInv, history
<1>23. SingleInv'
  <2> SUFFICES ASSUME NEW r \in Ids \ crossed
               PROVE  /\ \A p, s \in SavesOf(r)' : p = s
                      /\ \A p \in SavesOf(r)' : op'[p].seen # NoRow /\ Present(r)'
                           => rows'[r].day = op'[p].seen.day /\ rows'[r].text = op'[p].seen.text
    BY <1>2 DEF SingleInv, history
  <2>1. \A p, s \in SavesOf(r)' : p = s
    BY <1>19 DEF StoreInv, SingleInv
  <2>2. CASE r = id
    BY <1>6, <1>19, <2>1, <2>2 DEF StoreInv, SingleInv
  <2>3. CASE r # id
    BY <1>5, <1>9, <1>19, <2>1, <2>3 DEF StoreInv, SingleInv
  <2> QED
    BY <2>2, <2>3
<1>24. WholeInv'
  <2> SUFFICES ASSUME NEW r \in Ids \ (crossed \cup torn)
               PROVE  /\ \A p \in SavesOf(r)' : Written(p)' /\ files[Target(p)'] # NoFile
                           => files[Target(p)'] = op'[p].row.text
                      /\ Present(r)' /\ Content(r)' # NoFile /\ (\A p \in SavesOf(r)' : ~Written(p)')
                           => Content(r)' = rows'[r].text
    BY <1>2 DEF WholeInv, history
  <2>1. \A p \in SavesOf(r)' : Written(p)' /\ files[Target(p)'] # NoFile
             => files[Target(p)'] = op'[p].row.text
    BY <1>19 DEF StoreInv, WholeInv
  <2>2. CASE r = id
    <3>1. files[f] # NoFile => files[f] = row.text
      BY <1>1, <1>6, <2>2 DEF StoreInv, WholeInv
    <3>2. Content(r)' = files[f] /\ rows'[r].text = row.text
      BY <1>3, <1>5, <1>16, <2>2 DEF f
    <3> QED
      BY <2>1, <3>1, <3>2
  <2>3. CASE r # id
    <3>1. SavesOf(r)' = SavesOf(r)
      BY <1>1, <1>19, <2>3 DEF SavesOf
    <3> QED
      BY <1>5, <1>9, <1>15, <1>19, <2>1, <2>3, <3>1 DEF StoreInv, WholeInv
  <2> QED
    BY <2>2, <2>3
<1> QED
  BY <1>8, <1>11, <1>12, <1>14, <1>17, <1>20, <1>21, <1>22, <1>23, <1>24
     DEF StoreInv, ReportsConsistent

\* A save that fails or is refused after its file is written has torn its
\* report.
LEMMA EndsKeeps ==
    ASSUME StoreInv, NEW q \in Slots, op' = [op EXCEPT ![q] = Idle],
           torn \subseteq torn', torn' \subseteq torn \cup {op[q].id},
           torn' # torn => IsSave(op[q]), Written(q) => op[q].id \in torn',
           faults' \in Nat,
           UNCHANGED <<today, rows, files, states, links, known, saves, marks, edits,
                       unlinked, crossed, claimed>>
    PROVE  StoreInv'
<1>1. /\ op' \in [Slots -> Frames] /\ op'[q] = Idle
      /\ \A p \in Slots \ {q} : op'[p] = op[p]
  BY StoreFacts, FrameMembers
<1>2. IsSave(op[q]) => op[q].id \in Ids
  BY StoreFacts, FrameShape
<1>3. TypeOK'
  BY <1>1, <1>2, StoreFacts DEF TypeOK, Frames
<1>4. NothingDangles' /\ AutoLinksFollowText'
  BY StoreFacts DEF NothingDangles, AutoLinksFollowText, Present
<1>5. \A p \in Slots : IsSave(op'[p]) => op'[p] = op[p]
  BY <1>1, FrameMembers
<1>6. \A p \in Slots : Written(p) => op'[p] = op[p] \/ op[p].id \in torn'
  BY <1>1
<1>7. \A id \in Ids : Present(id)' => Present(id) /\ rows'[id].day = rows[id].day
             /\ rows'[id].text = rows[id].text /\ rows'[id].daily = rows[id].daily
  BY DEF Present
<1> QED
  BY <1>3, <1>4, <1>5, <1>6, <1>7, QuietKeeps DEF StoreInv, ReportsConsistent

LEMMA FailKeeps ==
    ASSUME StoreInv, NEW q \in Slots, Fail(q) \/ SaveRefused(q)
    PROVE  StoreInv'
<1>1. faults \in Nat
  BY StoreFacts DEF TypeOK
<1>2. CASE Fail(q)
  <2>1. /\ op' = [op EXCEPT ![q] = Idle] /\ faults' \in Nat
        /\ torn' = IF Written(q) THEN torn \cup {op[q].id} ELSE torn
        /\ UNCHANGED <<today, rows, files, states, links, known, saves, marks, edits,
                       unlinked, crossed, claimed>>
    BY <1>1, <1>2 DEF Fail, Written
  <2>2. Written(q) => IsSave(op[q])
    BY DEF Written, IsSave
  <2> QED
    BY <2>1, <2>2, EndsKeeps
<1>3. CASE SaveRefused(q)
  <2>1. /\ op' = [op EXCEPT ![q] = Idle] /\ faults' \in Nat
        /\ torn' = torn \cup {op[q].id} /\ IsSave(op[q])
        /\ UNCHANGED <<today, rows, files, states, links, known, saves, marks, edits,
                       unlinked, crossed, claimed>>
    BY <1>1, <1>3 DEF SaveRefused, IsSave, budget
  <2> QED
    BY <2>1, EndsKeeps
<1> QED
  BY <1>2, <1>3

-----------------------------------------------------------------------------
(* Deleting                                                                *)

\* The file goes first, and is known to be gone.
LEMMA DeleteFileKeeps ==
    ASSUME StoreInv, NEW q \in Slots, NEW user \in Users, NEW id \in Ids,
           DeleteFile(q, user, id)
    PROVE  StoreInv'
<1> DEFINE o == [at |-> "delete", id |-> id]
           f == <<rows[id].day, id>>
<1>1. /\ op[q] = Idle /\ Present(id) /\ rows[id] \in Row
      /\ files' = [files EXCEPT ![f] = NoFile] /\ unlinked' = unlinked \cup {f}
      /\ op' = [op EXCEPT ![q] = o] /\ edits' = edits + 1
      /\ UNCHANGED <<today, rows, states, links, known, saves, marks, faults, torn, crossed, claimed>>
  BY StoreFacts DEF DeleteFile, Owns, Edit, File
<1>2. f \in Days \X Ids
  BY <1>1, RowShape
<1>3. /\ o \in Frames /\ ~IsSave(o) /\ ~IsSave(op[q])
  BY <1>1, FrameMembers
<1> HIDE DEF o, f
<1>4. /\ op' \in [Slots -> Frames] /\ op'[q] = o
      /\ \A p \in Slots \ {q} : op'[p] = op[p]
  BY <1>1, <1>3, StoreFacts
<1>5. /\ files' \in [Days \X Ids -> Texts \cup {NoFile}] /\ files'[f] = NoFile
      /\ \A g \in (Days \X Ids) \ {f} : files'[g] = files[g]
  BY <1>1, <1>2, StoreFacts DEF TypeOK
<1>6. TypeOK'
  BY <1>1, <1>2, <1>4, <1>5, StoreFacts DEF TypeOK, Frames
<1>7. NothingDangles' /\ OneBriefingPerDay' /\ AutoLinksFollowText'
  BY <1>1, StoreFacts DEF NothingDangles, OneBriefingPerDay, AutoLinksFollowText, Present
<1>8. \A r \in Ids : Present(r) => File(r) \in Days \X Ids
  BY StoreFacts, RowShape DEF File
<1>9. \A r \in Ids : /\ Present(r)' <=> Present(r)
                     /\ rows'[r] = rows[r] /\ File(r)' = File(r) /\ Content(r)' = files'[File(r)]
  BY <1>1 DEF Present, File, Content
<1>10. MissingOnlyByDeletion'
  BY <1>1, <1>5, <1>8, <1>9 DEF StoreInv, MissingOnlyByDeletion, ContentStatus, Content
<1>11. \A p \in Slots : IsSave(op'[p]) => p # q /\ op'[p] = op[p]
  BY <1>3, <1>4
<1>12. \A r \in Ids : SavesOf(r)' = SavesOf(r)
  BY <1>3, <1>4, <1>11 DEF SavesOf
<1>16. BriefInv'
  BY <1>1, <1>11, SlotKinds DEF StoreInv, BriefInv, Present
<1>17. CopyInv'
  <2>1. \A r \in Ids : \A p \in SavesOf(r) : op'[p] = op[p]
    BY <1>3, <1>4 DEF SavesOf
  <2> QED
    BY <1>1, <1>12, <2>1 DEF StoreInv, CopyInv, Present
<1>18. SingleInv'
  <2>1. \A r \in Ids : \A p \in SavesOf(r) : op'[p] = op[p]
    BY <1>3, <1>4 DEF SavesOf
  <2> QED
    BY <1>1, <1>12, <2>1 DEF StoreInv, SingleInv, Present
<1>13. ASSUME NEW p \in Slots, Written(p)'
       PROVE  /\ Written(p) /\ op'[p] = op[p] /\ Target(p)' = Target(p)
              /\ Target(p) \in Days \X Ids
  <2>1. op'[p] = op[p] /\ Written(p) /\ IsSave(op[p])
    BY <1>11, <1>13 DEF Written, IsSave
  <2>2. op[p].id \in Ids /\ op[p].row.day \in Days
    BY <2>1, StoreFacts, FrameShape, RowShape
  <2> QED
    BY <2>1, <2>2 DEF Target
<1>14. LostInv'
  BY <1>1, <1>5, <1>13 DEF StoreInv, LostInv
<1>15. WholeInv'
  <2> SUFFICES ASSUME NEW r \in Ids \ (crossed \cup torn)
               PROVE  /\ \A p \in SavesOf(r)' : Written(p)' /\ files'[Target(p)'] # NoFile
                           => files'[Target(p)'] = op'[p].row.text
                      /\ Present(r)' /\ Content(r)' # NoFile /\ (\A p \in SavesOf(r)' : ~Written(p)')
                           => Content(r)' = rows'[r].text
    BY <1>1 DEF WholeInv
  <2>1. SavesOf(r)' = SavesOf(r)
    BY <1>12
  <2>2. \A p \in SavesOf(r) : p \in Slots /\ (Written(p) => Written(p)')
    BY <1>3, <1>4 DEF SavesOf, Written
  <2>3. \A p \in SavesOf(r)' : Written(p)' /\ files'[Target(p)'] # NoFile
                           => files'[Target(p)'] = op'[p].row.text
    BY <1>5, <1>13, <2>1, <2>2 DEF StoreInv, WholeInv
  <2>4. Present(r)' /\ Content(r)' # NoFile => Present(r) /\ Content(r)' = Content(r)
    BY <1>5, <1>8, <1>9 DEF Content
  <2> QED
    BY <1>9, <2>1, <2>2, <2>3, <2>4 DEF StoreInv, WholeInv
<1> QED
  BY <1>6, <1>7, <1>10, <1>14, <1>15, <1>16, <1>17, <1>18 DEF StoreInv, ReportsConsistent

\* Links and personal states go with the row.
LEMMA DeleteRowKeeps ==
    ASSUME StoreInv, NEW q \in Slots, DeleteRow(q)
    PROVE  StoreInv'
<1>1. op[q] \in Frames /\ op[q].at = "delete" /\ op[q].id \in Ids /\ ~IsSave(op[q])
  BY StoreFacts, FrameShape DEF DeleteRow, IsSave
<1>2. PICK id \in Ids : id = op[q].id
  BY <1>1
<1>3. /\ rows' = [rows EXCEPT ![id] = NoRow]
      /\ links' = {l \in links : l.report # id}
      /\ states' = [s \in DOMAIN states |-> IF s[2] = id THEN NoState ELSE states[s]]
      /\ op' = [op EXCEPT ![q] = Idle]
      /\ UNCHANGED <<today, files, known, budget, history>>
  BY <1>2 DEF DeleteRow
<1>4. /\ op' \in [Slots -> Frames] /\ op'[q] = Idle
      /\ \A p \in Slots \ {q} : op'[p] = op[p]
  BY <1>3, StoreFacts, FrameMembers
<1>5. /\ rows' \in [Ids -> Row \cup {NoRow}] /\ rows'[id] = NoRow
      /\ \A r \in Ids \ {id} : rows'[r] = rows[r]
  BY <1>3, StoreFacts DEF TypeOK
<1>6. /\ states' \in [Readers \X Ids -> PersonalState \cup {NoState}]
      /\ \A s \in Readers \X Ids : states'[s] # NoState => s[2] # id /\ states'[s] = states[s]
  BY <1>3, StoreFacts DEF TypeOK
<1>7. TypeOK'
  BY <1>3, <1>4, <1>5, <1>6, StoreFacts DEF TypeOK, Frames, budget, history
<1>8. \A l \in links' : l \in links /\ l.report \in Ids /\ l.report # id
  BY <1>3, StoreFacts DEF TypeOK, Link
<1>9. NothingDangles'
  BY <1>5, <1>6, <1>8, StoreFacts DEF NothingDangles, Present
<1>10. AutoLinksFollowText'
  BY <1>3, <1>5, <1>8, StoreFacts DEF AutoLinksFollowText, history
<1>11. \A r \in Ids : Present(r)' => Present(r) /\ rows'[r].day = rows[r].day
             /\ rows'[r].text = rows[r].text /\ rows'[r].daily = rows[r].daily
  BY <1>5 DEF Present
<1>12. \A p \in Slots : IsSave(op'[p]) => op'[p] = op[p]
  BY <1>4, FrameMembers
<1>13. \A p \in Slots : Written(p) => op'[p] = op[p]
  BY <1>1, <1>4 DEF Written
<1>14. torn \subseteq torn' /\ UNCHANGED <<files, unlinked, crossed, claimed>>
  BY <1>3 DEF history
<1> QED
  BY <1>7, <1>9, <1>10, <1>11, <1>12, <1>13, <1>14, QuietKeeps DEF StoreInv, ReportsConsistent

-----------------------------------------------------------------------------
(* Visibility, personal state and manual links                             *)

LEMMA ShareKeeps ==
    ASSUME StoreInv, NEW id \in Ids, NEW shared \in BOOLEAN, Present(id),
           rows' = [rows EXCEPT ![id].shared = shared], edits' \in Nat,
           UNCHANGED <<today, files, states, links, known, op, saves, marks, faults, history>>
    PROVE  StoreInv'
<1>1. rows[id] \in Row /\ rows \in [Ids -> Row \cup {NoRow}]
  BY StoreFacts DEF TypeOK
<1> DEFINE row == [rows[id] EXCEPT !.shared = shared]
<1>2. /\ row \in Row /\ row.day = rows[id].day /\ row.text = rows[id].text
      /\ row.daily = rows[id].daily
  BY <1>1 DEF Row
<1>3. rows' = [rows EXCEPT ![id] = row]
  BY <1>1
<1> HIDE DEF row
<1>4. /\ rows' \in [Ids -> Row \cup {NoRow}] /\ rows'[id] = row
      /\ \A r \in Ids \ {id} : rows'[r] = rows[r]
  BY <1>1, <1>2, <1>3
<1>5. TypeOK'
  BY <1>4, StoreFacts DEF TypeOK, history
<1>6. \A r \in Ids : /\ Present(r)' <=> Present(r)
                     /\ rows'[r].day = rows[r].day
                     /\ rows'[r].text = rows[r].text /\ rows'[r].daily = rows[r].daily
  BY <1>2, <1>4, RowShape DEF Present
<1>7. \A l \in links : l.report \in Ids
  BY StoreFacts DEF TypeOK, Link
<1>8. NothingDangles' /\ AutoLinksFollowText'
  BY <1>6, <1>7, StoreFacts DEF NothingDangles, AutoLinksFollowText, history
<1>9. \A q \in Slots : op'[q] = op[q]
  OBVIOUS
<1>10. torn \subseteq torn' /\ UNCHANGED <<files, unlinked, crossed, claimed>>
  BY DEF history
<1> QED
  BY <1>5, <1>6, <1>8, <1>9, <1>10, QuietKeeps DEF StoreInv, ReportsConsistent

LEMMA VisibilityKeeps ==
    ASSUME StoreInv, NEW user \in Users, NEW id \in Ids,
           (\E b \in BOOLEAN : UpdateVisibility(user, id, b)) \/ Publish(id)
    PROVE  StoreInv'
<1>1. edits + 1 \in Nat
  BY StoreFacts DEF TypeOK
<1>2. ASSUME NEW b \in BOOLEAN, UpdateVisibility(user, id, b) PROVE StoreInv'
  BY <1>1, <1>2, ShareKeeps DEF UpdateVisibility, Owns, Edit
<1>3. CASE Publish(id)
  BY <1>1, <1>3, ShareKeeps DEF Publish, Edit
<1> QED
  BY <1>2, <1>3

\* A personal state is written of a report that is there.
LEMMA StateKeeps ==
    ASSUME StoreInv, NEW user \in Readers, NEW id \in Ids, Present(id), NEW s \in PersonalState,
           states' = [states EXCEPT ![<<user, id>>] = s],
           UNCHANGED <<rows, links, crossed>>
    PROVE  /\ states' \in [Readers \X Ids -> PersonalState \cup {NoState}]
           /\ NothingDangles' /\ AutoLinksFollowText'
<1>1. states \in [Readers \X Ids -> PersonalState \cup {NoState}]
  BY StoreFacts DEF TypeOK
<1>2. /\ states' \in [Readers \X Ids -> PersonalState \cup {NoState}]
      /\ \A k \in (Readers \X Ids) \ {<<user, id>>} : states'[k] = states[k]
  BY <1>1
<1>3. \A k \in Readers \X Ids : states'[k] # NoState => Present(k[2])
  BY <1>2, StoreFacts DEF NothingDangles
<1>4. \A r \in Ids : Present(r)' <=> Present(r)
  BY DEF Present
<1> QED
  BY <1>2, <1>3, <1>4, StoreFacts DEF NothingDangles, AutoLinksFollowText, Present

LEMMA MarkReadKeeps ==
    ASSUME StoreInv, NEW user \in Readers, NEW id \in Ids, MarkRead(user, id)
    PROVE  StoreInv'
<1> DEFINE old == states[<<user, id>>]
           s == [(IF old = NoState THEN NewState ELSE old) EXCEPT !.read = TRUE]
<1>1. states \in [Readers \X Ids -> PersonalState \cup {NoState}] /\ marks + 1 \in Nat
  BY StoreFacts DEF TypeOK
<1>2. s \in PersonalState
  BY <1>1 DEF PersonalState, NewState
<1>3. /\ Present(id) /\ marks' = marks + 1 /\ states' = [states EXCEPT ![<<user, id>>] = s]
      /\ UNCHANGED <<today, rows, files, links, known, op, saves, edits, faults, history>>
  BY <1>1 DEF MarkRead, Visible, Mark
<1> HIDE DEF s
<1>4. /\ states' \in [Readers \X Ids -> PersonalState \cup {NoState}]
      /\ NothingDangles' /\ AutoLinksFollowText'
  BY <1>2, <1>3, StateKeeps DEF history
<1>5. TypeOK'
  BY <1>1, <1>3, <1>4, StoreFacts DEF TypeOK, history
<1> QED
  BY <1>3, <1>4, <1>5, TablesQuiet DEF StoreInv, ReportsConsistent, history

LEMMA ToggleReadKeeps ==
    ASSUME StoreInv, NEW q \in Slots, NEW user \in Readers, NEW id \in Ids,
           NEW column \in {"starred", "archived"}, ToggleRead(q, user, id, column)
    PROVE  StoreInv'
<1> DEFINE o == [at |-> "toggle", id |-> id, user |-> user, column |-> column,
                 seen |-> states[<<user, id>>]]
<1>1. /\ states[<<user, id>>] \in PersonalState \cup {NoState} /\ marks + 1 \in Nat
  BY StoreFacts DEF TypeOK
<1>2. o \in Frames /\ ~IsSave(o)
  BY <1>1 DEF Frames, Toggling, IsSave
<1>3. /\ op' = [op EXCEPT ![q] = o] /\ ~IsSave(op[q]) /\ marks' = marks + 1
      /\ UNCHANGED <<today, rows, files, states, links, known, saves, edits, faults, history>>
  BY FrameMembers DEF ToggleRead, Mark
<1> HIDE DEF o
<1>4. /\ OneBriefingPerDay' /\ MissingOnlyByDeletion'
      /\ BriefInv' /\ CopyInv' /\ LostInv' /\ SingleInv' /\ WholeInv' /\ op' \in [Slots -> Frames]
  BY <1>2, <1>3, SlotQuiet DEF history
<1>5. TypeOK'
  BY <1>1, <1>3, <1>4, StoreFacts DEF TypeOK, Frames, history
<1>6. NothingDangles' /\ AutoLinksFollowText'
  BY <1>3, StoreFacts DEF NothingDangles, AutoLinksFollowText, Present, history
<1> QED
  BY <1>4, <1>5, <1>6 DEF StoreInv, ReportsConsistent

\* The row may be gone by now; then the statement fails.
LEMMA ToggleWriteKeeps ==
    ASSUME StoreInv, NEW q \in Slots, ToggleWrite(q)
    PROVE  StoreInv'
<1>1. /\ op[q] \in Frames /\ op[q].at = "toggle" /\ ~IsSave(op[q])
      /\ op[q].id \in Ids /\ op[q].user \in Readers /\ op[q].column \in {"starred", "archived"}
      /\ op[q].seen \in PersonalState \cup {NoState}
  BY StoreFacts, FrameShape DEF ToggleWrite, IsSave
<1>2. PICK id \in Ids, user \in Readers : id = op[q].id /\ user = op[q].user
  BY <1>1
<1> DEFINE k == <<user, id>>
           was == IF op[q].seen = NoState THEN NewState ELSE op[q].seen
           now == IF op[q].seen = NoState THEN NewState ELSE states[k]
           writes == Present(id) /\ (op[q].seen = NoState <=> states[k] = NoState)
           s == [now EXCEPT ![op[q].column] = ~ was[op[q].column]]
<1>3. /\ op' = [op EXCEPT ![q] = Idle]
      /\ states' = IF writes THEN [states EXCEPT ![k] = s] ELSE states
      /\ UNCHANGED <<today, rows, files, links, known, budget, history>>
  BY <1>2 DEF ToggleWrite
<1>4. states \in [Readers \X Ids -> PersonalState \cup {NoState}]
  BY StoreFacts DEF TypeOK
<1>5. writes => s \in PersonalState
  <2> SUFFICES ASSUME writes PROVE s \in PersonalState
    OBVIOUS
  <2>1. now \in PersonalState /\ was \in PersonalState
    BY <1>1, <1>4 DEF PersonalState, NewState
  <2> HIDE DEF now, was
  <2>2. CASE op[q].column = "starred"
    BY <2>1, <2>2 DEF PersonalState
  <2>3. CASE op[q].column = "archived"
    BY <2>1, <2>3 DEF PersonalState
  <2> QED
    BY <1>1, <2>2, <2>3
<1>6. /\ states' \in [Readers \X Ids -> PersonalState \cup {NoState}]
      /\ NothingDangles' /\ AutoLinksFollowText'
  <2> HIDE DEF s
  <2>1. CASE writes
    BY <1>3, <1>5, <2>1, StateKeeps DEF history
  <2>2. CASE ~writes
    BY <1>3, <1>4, <2>2, StoreFacts DEF NothingDangles, AutoLinksFollowText, Present, history
  <2> QED
    BY <2>1, <2>2
<1>7. /\ OneBriefingPerDay' /\ MissingOnlyByDeletion'
      /\ BriefInv' /\ CopyInv' /\ LostInv' /\ SingleInv' /\ WholeInv' /\ op' \in [Slots -> Frames]
  BY <1>1, <1>3, SlotQuiet, FrameMembers DEF history
<1>8. TypeOK'
  BY <1>3, <1>6, <1>7, StoreFacts DEF TypeOK, Frames, budget, history
<1> QED
  BY <1>6, <1>7, <1>8 DEF StoreInv, ReportsConsistent

\* A manual link is made for a report that is there.
LEMMA LinkKeeps ==
    ASSUME StoreInv, NEW user \in Users, NEW id \in Ids,
           (\E i \in Instruments : AddLink(user, id, i)) \/ (\E l \in links : RemoveLink(user, l))
    PROVE  StoreInv'
<1>1. marks + 1 \in Nat
  BY StoreFacts DEF TypeOK
<1>2. /\ marks' = marks + 1
      /\ UNCHANGED <<today, rows, files, states, known, op, saves, edits, faults, history>>
  BY DEF AddLink, RemoveLink, Mark
<1>3. /\ links' \subseteq Link
      /\ \A l \in links' : l \in links \/ (Present(l.report) /\ l.source = "manual")
  <2>1. ASSUME NEW i \in Instruments, AddLink(user, id, i)
        PROVE  /\ links' \subseteq Link
               /\ \A l \in links' : l \in links \/ (Present(l.report) /\ l.source = "manual")
    BY <2>1, StoreFacts DEF AddLink, Owns, TypeOK, Link
  <2>2. ASSUME NEW l \in links, RemoveLink(user, l)
        PROVE  links' \subseteq links
    BY <2>2 DEF RemoveLink
  <2> QED
    BY <2>1, <2>2, StoreFacts DEF TypeOK
<1>4. TypeOK'
  BY <1>1, <1>2, <1>3, StoreFacts DEF TypeOK, history
<1>5. NothingDangles' /\ AutoLinksFollowText'
  BY <1>2, <1>3, StoreFacts DEF NothingDangles, AutoLinksFollowText, Present, history
<1> QED
  BY <1>2, <1>4, <1>5, TablesQuiet DEF StoreInv, ReportsConsistent, history

\* The tables stay, but for the day and what is known.
LEMMA StillKeeps ==
    ASSUME StoreInv, UNCHANGED <<rows, files, states, links, op, history>>,
           today' \in Days, known' \subseteq Instruments,
           {saves, marks, edits, faults}' \subseteq Nat
    PROVE  StoreInv'
<1>1. TypeOK'
  BY StoreFacts DEF TypeOK, history
<1>2. NothingDangles' /\ AutoLinksFollowText'
  BY StoreFacts DEF NothingDangles, AutoLinksFollowText, Present, history
<1> QED
  BY <1>1, <1>2, TablesQuiet DEF StoreInv, ReportsConsistent, history

-----------------------------------------------------------------------------
LEMMA StepKeeps ==
    ASSUME StoreInv, [Next]_vars
    PROVE  StoreInv'
<1>1. Worker \in Slots /\ Requests \subseteq Slots
  BY DEF Slots
<1>2. ASSUME NEW q \in Slots, SaveStep(q) PROVE StoreInv'
  BY <1>2, WriteKeeps, MergeKeeps, SaveRowKeeps, FailKeeps DEF SaveStep
<1>3. CASE Daily
  BY <1>1, <1>2, <1>3, BriefingKeeps DEF Daily
<1>4. CASE OneShot
  BY <1>4, VisibilityKeeps, MarkReadKeeps, LinkKeeps DEF OneShot
<1>5. today \in Days /\ known \subseteq Instruments /\ {saves, marks, edits, faults} \subseteq Nat
  BY StoreFacts DEF TypeOK
<1>6. CASE KnownChanges
  BY <1>5, <1>6, StillKeeps DEF KnownChanges, Edit
<1>7. CASE NextDay
  <2>1. today' \in Days
    BY <1>5, <1>7, ReportAssumption DEF NextDay, Days
  <2> QED
    BY <1>5, <1>7, <2>1, StillKeeps DEF NextDay, budget
<1>8. ASSUME NEW q \in Requests, Request(q) PROVE StoreInv'
  <2>1. ASSUME NEW u \in Users, NEW t \in Texts, Research(q, u, t) PROVE StoreInv'
    BY <2>1, ResearchKeeps
  <2>2. ASSUME NEW id \in Ids, NEW d \in Days, NEW t \in Texts, NEW c \in Claims,
               Import(q, id, d, t, c)
        PROVE  StoreInv'
    BY <2>2, ImportKeeps
  <2>3. ASSUME NEW u \in Users, NEW id \in Ids, DeleteFile(q, u, id) PROVE StoreInv'
    BY <1>1, <2>3, DeleteFileKeeps
  <2>4. ASSUME NEW u \in Readers, NEW id \in Ids, NEW c \in {"starred", "archived"},
               ToggleRead(q, u, id, c)
        PROVE  StoreInv'
    BY <1>1, <2>4, ToggleReadKeeps
  <2>5. CASE DeleteRow(q) \/ ToggleWrite(q) \/ SaveStep(q)
    BY <1>1, <1>2, <2>5, DeleteRowKeeps, ToggleWriteKeeps
  <2> QED
    BY <1>8, <2>1, <2>2, <2>3, <2>4, <2>5 DEF Request
<1>9. CASE UNCHANGED vars
  BY <1>5, <1>9, StillKeeps DEF vars, history
<1> QED
  BY <1>3, <1>4, <1>6, <1>7, <1>8, <1>9 DEF Next

(* The inductive invariant of rows, files, links, personal states and saves *)
(* under way holds in every reachable state.                                *)
THEOREM StoreSafety == Spec => []StoreInv
<1> QED
  BY InitStore, StepKeeps, PTL DEF Spec

(* A day has one automatic briefing, and no link or personal state outlives *)
(* its report or the text that justified it, however saves, deletions,      *)
(* failures and readers' requests interleave.                               *)
THEOREM StoreConsistent == Spec => []ReportsConsistent
<1>1. StoreInv => ReportsConsistent
  BY DEF StoreInv
<1> QED
  BY StoreSafety, <1>1, PTL

(* A report without its file lost it to a deletion: no save does that, at   *)
(* whatever step it stops.                                                  *)
THEOREM StoreMissingOnlyByDeletion == Spec => []MissingOnlyByDeletion
<1>1. StoreInv => MissingOnlyByDeletion
  BY DEF StoreInv
<1> QED
  BY StoreSafety, <1>1, PTL

(* A report no save of which overlapped another or failed after its file    *)
(* was written serves the text of its row.                                  *)
THEOREM StoreServesItsText == Spec => []ServesItsText
<1>1. ASSUME StoreInv PROVE ServesItsText
  <2> SUFFICES ASSUME NEW id \in Ids, Present(id), Content(id) # NoFile,
                      id \notin torn \cup crossed, SavesOf(id) = {}
               PROVE  Content(id) = rows[id].text
    BY DEF ServesItsText, ContentStatus
  <2> QED
    BY <1>1 DEF StoreInv, WholeInv
<1> QED
  BY StoreSafety, <1>1, PTL
=============================================================================
