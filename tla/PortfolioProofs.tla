--------------------------- MODULE PortfolioProofs ---------------------------
(***************************************************************************)
(* What positions, watchlist and analysis jobs keep of each other, for any *)
(* number of rows, users, jobs and overlapping requests.                   *)
(***************************************************************************)
EXTENDS Portfolio, TLAPS

\* Rows with a job that will still run or is running.
Pending == {r \in Ids : \E j \in Jobs : Live(j, r)}

\* Which job the worker has, and what it has read of the job's row.
WorkerInv ==
    /\ worker.at = "idle" => worker.job = NoJob
    /\ worker.at # "idle" =>
         worker.job \in Jobs /\ jobs[worker.job].state = "doing" /\ Target \in Ids
    /\ worker.at = "llm" => worker.read \in Row

JobsInv == \A j \in Jobs : jobs[j].state = "todo" => jobs[j].row \in Ids

\* While an analysis is under way its history holds the present holding and
\* the one the worker has read.
HeldInv ==
    /\ \A r \in Pending : Present(r) => rows[r].shares \in held[r]
    /\ worker.at = "llm" /\ Present(Target) => worker.read.shares \in held[Target]

\* AnalyzingHasJob, in terms of Pending.
StatusInv == \A r \in Ids :
    Present(r) /\ rows[r].status = "analyzing" => r \in lost \/ r \in Pending

PortfolioInv == /\ TypeOK /\ WorkerInv /\ JobsInv /\ StatusInv
                /\ HeldInv /\ SnapshotSinceRequest /\ WatchedOnce

-----------------------------------------------------------------------------
LEMMA InitPortfolio == Init => PortfolioInv
<1> SUFFICES ASSUME Init PROVE PortfolioInv
  OBVIOUS
<1>1. [state |-> "none", row |-> NoRow, tries |-> 0] \in Job
  BY PortfolioAssumption DEF Job
<1>2. jobs \in [Jobs -> Job] /\ worker = IdleWorker
  BY <1>1 DEF Init
<1>3. worker \in [job: Jobs \cup {NoJob}, at: {"idle", "begin", "llm"}, read: Row \cup {NoRow}]
  BY <1>2 DEF IdleWorker
<1>4. TypeOK
  BY <1>2, <1>3 DEF Init, TypeOK
<1>5. WorkerInv /\ JobsInv /\ HeldInv
  <2>1. Pending = {}
    BY <1>2, PortfolioAssumption DEF Pending, Live, Init, IdleWorker
  <2> QED
    BY <1>2, <2>1 DEF WorkerInv, JobsInv, HeldInv, Init, IdleWorker
<1>6. \A r \in Ids : ~Present(r)
  BY DEF Init, Present
<1> QED
  BY <1>4, <1>5, <1>6 DEF PortfolioInv, StatusInv, SnapshotSinceRequest, WatchedOnce

LEMMA RowFacts ==
    ASSUME TypeOK, NEW r \in Ids
    PROVE  /\ rows[r] \in Row \cup {NoRow}
           /\ Present(r) => rows[r] \in Row
           /\ held[r] \subseteq Shares
BY DEF TypeOK, Present

-----------------------------------------------------------------------------
(* Requests.  None touches the worker; only Analyze touches the queue.      *)

\* With queue and worker as they are, a request keeps what it is about if
\* each row stays, goes, is new or is edited in its holding or its note.
Edited(r, s) ==
    \/ rows'[s] = rows[s] /\ held'[s] = held[s]
    \/ rows'[s] = NoRow /\ held'[s] = held[s]
    \/ /\ s = r /\ ~Present(r) /\ rows'[r] \in Row /\ rows'[r].status = "pending"
       /\ r \notin Pending /\ (worker.at = "llm" => r # Target) /\ held'[s] = held[s]
    \/ /\ s = r /\ Present(r) /\ rows'[r] \in Row
       /\ rows'[r].status = rows[r].status /\ rows'[r].snap = rows[r].snap
       /\ rows'[r].kind = rows[r].kind
       /\ held[r] \subseteq held'[r]
       /\ rows'[r].shares = rows[r].shares \/ held[r] = {} \/ rows'[r].shares \in held'[r]

LEMMA RequestKeeps ==
    ASSUME PortfolioInv, UNCHANGED <<jobs, worker>>, NEW r \in Ids,
           \A s \in Ids : Edited(r, s),
           \A s \in Ids : s \in lost => s \in lost' \/ rows'[s] = NoRow
    PROVE  WorkerInv' /\ JobsInv' /\ StatusInv' /\ HeldInv' /\ SnapshotSinceRequest'
<1> USE DEF PortfolioInv
<1>1. Pending' = Pending /\ Target' = Target
  BY DEF Pending, Live, Target
<1>2. WorkerInv' /\ JobsInv'
  BY <1>1 DEF WorkerInv, JobsInv
<1>3. StatusInv'
  <2> SUFFICES ASSUME NEW s \in Ids, Present(s)', rows'[s].status = "analyzing"
               PROVE  s \in lost' \/ s \in Pending
    BY <1>1 DEF StatusInv
  <2>1. Edited(r, s) /\ rows'[s] # NoRow
    BY DEF Present
  <2>2. Present(s) /\ rows[s].status = "analyzing"
    BY <2>1 DEF Edited, Present
  <2> QED
    BY <2>1, <2>2 DEF StatusInv
<1>4. ASSUME NEW s \in Ids, rows'[s] # NoRow, Present(s), NEW x \in held[s]
      PROVE  x \in held'[s]
  BY <1>4 DEF Edited
<1>5. HeldInv'
  <2>1. ASSUME NEW s \in Pending, rows'[s] # NoRow
        PROVE  rows'[s].shares \in held'[s]
    <3>1. s \in Ids /\ Edited(r, s)
      BY DEF Pending
    <3>2. Present(s) /\ rows[s].shares \in held[s]
      BY <2>1, <3>1 DEF Edited, Present, HeldInv
    <3> QED
      BY <2>1, <3>1, <3>2 DEF Edited, Present
  <2>2. ASSUME worker.at = "llm", rows'[Target] # NoRow
        PROVE  worker.read.shares \in held'[Target]
    <3>1. Target \in Ids
      BY <2>2 DEF WorkerInv
    <3>2. Present(Target)
      BY <2>2, <3>1 DEF Edited, Present
    <3> QED
      BY <2>2, <3>1, <3>2, <1>4 DEF HeldInv
  <2> QED
    BY <1>1, <2>1, <2>2 DEF HeldInv, Present
<1>6. SnapshotSinceRequest'
  <2> SUFFICES ASSUME NEW s \in Ids, rows'[s] # NoRow, rows'[s].kind = "position",
                      rows'[s].status = "done"
               PROVE  rows'[s].snap \in held'[s]
    BY DEF SnapshotSinceRequest, Present
  <2>1. Present(s) /\ rows[s].kind = "position" /\ rows[s].status = "done"
        /\ rows'[s].snap = rows[s].snap
    BY DEF Edited, Present
  <2> QED
    BY <2>1, <1>4 DEF SnapshotSinceRequest
<1> QED
  BY <1>2, <1>3, <1>5, <1>6

LEMMA AddReadKeeps ==
    ASSUME PortfolioInv, NEW q \in Requests, NEW k \in Kinds, NEW o \in Owners,
           NEW i \in Instruments, NEW s \in Shares, AddRead(q, k, o, i, s)
    PROVE  PortfolioInv'
<1> USE DEF PortfolioInv
<1>1. PICK f \in Ids \cup {NoRow} :
        request' = [request EXCEPT ![q] =
              [at |-> "adding", kind |-> k, owner |-> o, inst |-> i,
               shares |-> s, known |-> i \in instruments, found |-> f]]
  BY DEF AddRead
<1>2. request' \in [Requests -> {Resting} \cup Adding]
  BY <1>1 DEF TypeOK, Adding
<1>3. {edits', faults'} \subseteq Nat
  BY DEF AddRead, Edit, TypeOK
<1>4. UNCHANGED <<instruments, rows, jobs, worker, lost, held>>
  BY DEF AddRead
<1>5. TypeOK'
  BY <1>2, <1>3, <1>4 DEF TypeOK
<1>6. Pending' = Pending /\ Target' = Target
  BY <1>4 DEF Pending, Live, Target
<1>7. WorkerInv' /\ JobsInv'
  BY <1>4, <1>6 DEF WorkerInv, JobsInv
<1>8. StatusInv' /\ HeldInv' /\ SnapshotSinceRequest' /\ WatchedOnce'
  BY <1>4, <1>6 DEF StatusInv, HeldInv, SnapshotSinceRequest, WatchedOnce, Present
<1> QED
  BY <1>5, <1>7, <1>8

LEMMA AddRefusedKeeps ==
    ASSUME PortfolioInv, NEW q \in Requests, AddRefused(q)
    PROVE  PortfolioInv'
<1> USE DEF PortfolioInv
<1>1. request' = [request EXCEPT ![q] = Resting]
      /\ UNCHANGED <<instruments, rows, jobs, worker, edits, faults, lost, held>>
  BY DEF AddRefused, budget
<1>2. TypeOK'
  BY <1>1 DEF TypeOK
<1>3. Pending' = Pending /\ Target' = Target
  BY <1>1 DEF Pending, Live, Target
<1>4. WorkerInv' /\ JobsInv'
  BY <1>1, <1>3 DEF WorkerInv, JobsInv
<1>5. StatusInv' /\ HeldInv' /\ SnapshotSinceRequest' /\ WatchedOnce'
  BY <1>1, <1>3 DEF StatusInv, HeldInv, SnapshotSinceRequest, WatchedOnce, Present
<1> QED
  BY <1>2, <1>4, <1>5

\* The new row: nobody's, and the only one of its owner's watchlist and
\* instrument.
LEMMA InsertKeeps ==
    ASSUME PortfolioInv, NEW q \in Requests, request[q].at = "adding", Insert(request[q]),
           request' = [request EXCEPT ![q] = Resting],
           UNCHANGED <<jobs, worker, budget, lost, held>>
    PROVE  PortfolioInv'
<1> USE DEF PortfolioInv
<1> DEFINE o   == request[q]
           new == [kind |-> o.kind, owner |-> o.owner, inst |-> o.inst, shares |-> o.shares,
                   note |-> "user", snap |-> 0, status |-> "pending"]
<1>1. o \in Adding
  BY DEF TypeOK, Resting
<1>2. PICK r \in Ids : /\ Fresh(r)
                       /\ o.kind = "watch" => WatchFree(o.owner, o.inst)
                       /\ instruments' = instruments \cup {o.inst}
                       /\ rows' = [rows EXCEPT ![r] = new]
  BY DEF Insert
<1>3. /\ new \in Row /\ new.status = "pending" /\ new.kind = o.kind
      /\ new.owner = o.owner /\ new.inst = o.inst
  BY <1>1 DEF Row, Adding, Statuses
<1>4. o.inst \in Instruments
  BY <1>1 DEF Adding
<1> HIDE DEF new, o
<1>5. /\ rows' \in [Ids -> Row \cup {NoRow}] /\ rows'[r] = new
      /\ \A s \in Ids \ {r} : rows'[s] = rows[s]
  BY <1>2, <1>3 DEF TypeOK
<1>6. request' \in [Requests -> {Resting} \cup Adding]
  BY DEF TypeOK
<1>7. TypeOK'
  BY <1>2, <1>4, <1>5, <1>6 DEF TypeOK, budget
<1>8. r \notin Pending /\ (worker.at = "llm" => r # Target)
  BY <1>2 DEF Fresh, Pending, Live, WorkerInv, Target
<1>9. \A s \in Ids : Edited(r, s)
  BY <1>2, <1>3, <1>5, <1>8 DEF Edited, Fresh
<1>10. WorkerInv' /\ JobsInv' /\ StatusInv' /\ HeldInv' /\ SnapshotSinceRequest'
  BY <1>9, RequestKeeps
<1>11. WatchedOnce'
  <2> SUFFICES ASSUME NEW s \in Ids, NEW t \in Ids, rows'[s] # NoRow, rows'[t] # NoRow,
                      rows'[s].kind = "watch", rows'[t].kind = "watch",
                      rows'[s].owner = rows'[t].owner, rows'[s].inst = rows'[t].inst,
                      s # t
               PROVE  FALSE
    BY DEF WatchedOnce, Present
  <2>1. CASE s # r /\ t # r
    BY <1>5, <2>1 DEF WatchedOnce, Present
  <2>2. CASE s = r
    BY <1>2, <1>3, <1>5, <2>2 DEF WatchFree, Present
  <2>3. CASE t = r
    BY <1>2, <1>3, <1>5, <2>3 DEF WatchFree, Present
  <2> QED
    BY <2>1, <2>2, <2>3
<1> QED
  BY <1>7, <1>10, <1>11

\* A row changed in columns that neither the watchlist's index nor the
\* analysis looks at.
LEMMA EditKeeps ==
    ASSUME PortfolioInv, NEW r \in Ids, Present(r), NEW new \in Row,
           new.kind = rows[r].kind, new.owner = rows[r].owner, new.inst = rows[r].inst,
           rows' = [rows EXCEPT ![r] = new]
    PROVE  /\ rows' \in [Ids -> Row \cup {NoRow}]
           /\ rows'[r] = new /\ \A s \in Ids \ {r} : rows'[s] = rows[s]
           /\ WatchedOnce'
<1>1. /\ rows' \in [Ids -> Row \cup {NoRow}]
      /\ rows'[r] = new /\ \A s \in Ids \ {r} : rows'[s] = rows[s]
  BY DEF PortfolioInv, TypeOK
<1>2. \A s \in Ids : /\ Present(s)' <=> Present(s)
                     /\ Present(s) => /\ rows'[s].kind = rows[s].kind
                                      /\ rows'[s].owner = rows[s].owner
                                      /\ rows'[s].inst = rows[s].inst
  BY <1>1, PortfolioAssumption DEF Present
<1>3. WatchedOnce'
  BY <1>2 DEF PortfolioInv, WatchedOnce
<1> QED
  BY <1>1, <1>3

LEMMA UpdateKeeps ==
    ASSUME PortfolioInv, NEW q \in Requests, request[q].at = "adding", Update(request[q]),
           request' = [request EXCEPT ![q] = Resting],
           UNCHANGED <<jobs, worker, budget, lost, held>>
    PROVE  PortfolioInv'
<1> USE DEF PortfolioInv
<1> DEFINE r   == request[q].found
           new == [rows[r] EXCEPT !.note = "user"]
<1>1. request[q] \in Adding
  BY DEF TypeOK, Resting
<1>2. r \in Ids /\ Present(r)
  BY <1>1 DEF Update, Adding
<1>3. rows[r] \in Row
  BY <1>2, RowFacts
<1>4. /\ new \in Row /\ new.kind = rows[r].kind /\ new.owner = rows[r].owner
      /\ new.inst = rows[r].inst /\ new.status = rows[r].status
      /\ new.shares = rows[r].shares /\ new.snap = rows[r].snap
  BY <1>3 DEF Row
<1>5. rows' = [rows EXCEPT ![r] = new] /\ instruments' = instruments
  BY <1>2 DEF Update, TypeOK
<1> HIDE DEF new, r
<1>6. /\ rows' \in [Ids -> Row \cup {NoRow}] /\ rows'[r] = new
      /\ \A s \in Ids \ {r} : rows'[s] = rows[s]
      /\ WatchedOnce'
  BY <1>2, <1>4, <1>5, EditKeeps
<1>7. request' \in [Requests -> {Resting} \cup Adding]
  BY DEF TypeOK
<1>8. TypeOK'
  BY <1>5, <1>6, <1>7 DEF TypeOK, budget
<1>9. \A s \in Ids : Edited(r, s)
  BY <1>2, <1>4, <1>6 DEF Edited
<1>10. WorkerInv' /\ JobsInv' /\ StatusInv' /\ HeldInv' /\ SnapshotSinceRequest'
  BY <1>2, <1>9, RequestKeeps
<1> QED
  BY <1>6, <1>8, <1>10

LEMMA UpdatePositionKeeps ==
    ASSUME PortfolioInv, NEW r \in Ids, NEW shares \in Shares, UpdatePosition(r, shares)
    PROVE  PortfolioInv'
<1> USE DEF PortfolioInv
<1> DEFINE new == [rows[r] EXCEPT !.shares = shares]
<1>1. Present(r) /\ rows[r] \in Row
  BY RowFacts DEF UpdatePosition
<1>2. /\ new \in Row /\ new.kind = rows[r].kind /\ new.owner = rows[r].owner
      /\ new.inst = rows[r].inst /\ new.status = rows[r].status
      /\ new.shares = shares /\ new.snap = rows[r].snap
  BY <1>1 DEF Row
<1>3. /\ rows' = [rows EXCEPT ![r] = new]
      /\ UNCHANGED <<instruments, jobs, worker, request, faults, lost>>
  BY <1>1 DEF UpdatePosition, TypeOK
<1> HIDE DEF new
<1>4. /\ rows' \in [Ids -> Row \cup {NoRow}] /\ rows'[r] = new
      /\ \A s \in Ids \ {r} : rows'[s] = rows[s]
      /\ WatchedOnce'
  BY <1>1, <1>2, <1>3, EditKeeps
<1>5. /\ held' \in [Ids -> SUBSET Shares]
      /\ held'[r] = IF held[r] = {} THEN {} ELSE held[r] \cup {shares}
      /\ \A s \in Ids \ {r} : held'[s] = held[s]
  BY DEF UpdatePosition, TypeOK
<1>6. {edits', faults'} \subseteq Nat
  BY DEF UpdatePosition, Edit, TypeOK
<1>7. TypeOK'
  BY <1>3, <1>4, <1>5, <1>6 DEF TypeOK
<1>8. \A s \in Ids : Edited(r, s)
  BY <1>1, <1>2, <1>4, <1>5 DEF Edited
<1>9. WorkerInv' /\ JobsInv' /\ StatusInv' /\ HeldInv' /\ SnapshotSinceRequest'
  BY <1>3, <1>8, RequestKeeps
<1> QED
  BY <1>4, <1>7, <1>9

LEMMA DeleteRowKeeps ==
    ASSUME PortfolioInv, NEW r \in Ids, DeleteRow(r)
    PROVE  PortfolioInv'
<1> USE DEF PortfolioInv
<1>1. /\ rows' \in [Ids -> Row \cup {NoRow}] /\ rows'[r] = NoRow
      /\ \A s \in Ids \ {r} : rows'[s] = rows[s]
      /\ lost' = lost \ {r}
      /\ UNCHANGED <<instruments, jobs, worker, request, held>>
  BY DEF DeleteRow, TypeOK
<1>2. {edits', faults'} \subseteq Nat
  BY DEF DeleteRow, Edit, TypeOK
<1>3. TypeOK'
  BY <1>1, <1>2 DEF TypeOK
<1>4. \A s \in Ids : Edited(r, s)
  BY <1>1 DEF Edited
<1>5. WorkerInv' /\ JobsInv' /\ StatusInv' /\ HeldInv' /\ SnapshotSinceRequest'
  BY <1>1, <1>4, RequestKeeps
<1>6. WatchedOnce'
  BY <1>1 DEF WatchedOnce, Present
<1> QED
  BY <1>3, <1>5, <1>6

\* A position asked for once more shows "analyzing" and keeps its history if
\* an analysis is pending; otherwise the history starts again.
LEMMA AnalyzeKeeps ==
    ASSUME PortfolioInv, NEW r \in Ids, NEW j \in Jobs, Analyze(r, j)
    PROVE  PortfolioInv'
<1> USE DEF PortfolioInv
<1> DEFINE new == IF rows[r].kind = "position"
                  THEN [rows[r] EXCEPT !.status = "analyzing"] ELSE rows[r]
           job == [state |-> "todo", row |-> r, tries |-> 0]
<1>1. Present(r) /\ rows[r] \in Row
  BY RowFacts DEF Analyze
<1>2. /\ new \in Row /\ new.kind = rows[r].kind /\ new.owner = rows[r].owner
      /\ new.inst = rows[r].inst /\ new.shares = rows[r].shares
      /\ new.kind = "position" => new.status = "analyzing"
  BY <1>1 DEF Row, Statuses
<1>3. /\ rows' = [rows EXCEPT ![r] = new]
      /\ UNCHANGED <<instruments, worker, request, edits, faults, lost>>
  BY <1>1 DEF Analyze, TypeOK, budget
<1> HIDE DEF new
<1>4. /\ rows' \in [Ids -> Row \cup {NoRow}] /\ rows'[r] = new
      /\ \A s \in Ids \ {r} : rows'[s] = rows[s]
      /\ WatchedOnce'
  BY <1>1, <1>2, <1>3, EditKeeps
<1>5. job \in Job /\ job.state = "todo" /\ job.row = r
  BY PortfolioAssumption DEF Job
<1>6. jobs[j].state = "none" /\ jobs' = [jobs EXCEPT ![j] = job]
  BY DEF Analyze
<1> HIDE DEF job
<1>7. /\ jobs' \in [Jobs -> Job] /\ jobs'[j] = job
      /\ \A i \in Jobs \ {j} : jobs'[i] = jobs[i]
  BY <1>5, <1>6 DEF TypeOK
<1>8. worker.job # j /\ (worker.at # "idle" => jobs'[worker.job] = jobs[worker.job])
  BY <1>6, <1>7, PortfolioAssumption DEF WorkerInv
<1>9. \A s \in Ids : s \in Pending' <=> s = r \/ s \in Pending
  <2>1. \A i \in Jobs \ {j}, s \in Ids : Live(i, s)' <=> Live(i, s)
    BY <1>3, <1>7 DEF Live
  <2>2. \A s \in Ids : /\ Live(j, s)' <=> s = r
                       /\ ~Live(j, s)
    BY <1>3, <1>5, <1>6, <1>7, <1>8 DEF Live
  <2> QED
    BY <2>1, <2>2 DEF Pending
<1>10. /\ held' \in [Ids -> SUBSET Shares]
       /\ held'[r] = IF r \in Pending THEN held[r] ELSE {rows[r].shares}
       /\ \A s \in Ids \ {r} : held'[s] = held[s]
  BY <1>1 DEF Analyze, TypeOK, Pending, Row
<1>11. TypeOK'
  BY <1>3, <1>4, <1>7, <1>10 DEF TypeOK
<1>12. worker.at # "idle" => Target' = Target
  BY <1>3, <1>8 DEF Target
<1>13. WorkerInv' /\ JobsInv'
  BY <1>3, <1>5, <1>7, <1>8, <1>12 DEF WorkerInv, JobsInv
<1>14. StatusInv'
  BY <1>3, <1>4, <1>9 DEF StatusInv, Present
<1>15. HeldInv'
  <2>1. ASSUME NEW s \in Pending', rows'[s] # NoRow
        PROVE  rows'[s].shares \in held'[s]
    <3>1. s \in Ids /\ (s = r \/ s \in Pending)
      BY <1>9 DEF Pending
    <3>2. CASE s = r
      BY <1>1, <1>2, <1>4, <1>10, <3>2 DEF HeldInv
    <3>3. CASE s # r
      BY <2>1, <1>4, <1>10, <3>1, <3>3 DEF HeldInv, Present
    <3> QED
      BY <3>2, <3>3
  <2>2. ASSUME worker.at = "llm", rows'[Target] # NoRow
        PROVE  worker.read.shares \in held'[Target]
    <3>1. Target \in Ids /\ Target \in Pending
      BY <2>2 DEF WorkerInv, Pending, Live, Target
    <3>2. Present(Target)
      BY <2>2, <3>1, <1>1, <1>4 DEF Present
    <3> QED
      BY <2>2, <3>1, <3>2, <1>10 DEF HeldInv
  <2> QED
    BY <1>3, <1>12, <2>1, <2>2 DEF HeldInv, Present
<1>16. SnapshotSinceRequest'
  BY <1>2, <1>4, <1>10 DEF SnapshotSinceRequest, Present
<1> QED
  BY <1>4, <1>11, <1>13, <1>14, <1>15, <1>16

-----------------------------------------------------------------------------
(* The worker                                                              *)

\* A step that rewrites one job, and takes no row out of Pending but the
\* job's own.
LEMMA JobChanges ==
    ASSUME PortfolioInv, NEW j \in Jobs, NEW job \in Job, job.row = jobs[j].row,
           jobs' = [jobs EXCEPT ![j] = job],
           worker.job \in {j, NoJob}, worker'.job \in {j, NoJob}
    PROVE  /\ jobs' \in [Jobs -> Job] /\ jobs'[j] = job
           /\ \A i \in Jobs \ {j} : jobs'[i] = jobs[i]
           /\ \A s \in Ids : s # jobs[j].row => (s \in Pending' <=> s \in Pending)
           /\ \A s \in Ids : s = jobs[j].row /\ (job.state = "todo" \/ worker'.job = j)
                                => s \in Pending'
           /\ \A s \in Ids : (jobs[j].state = "todo" \/ worker.job = j) /\ s \in Pending'
                                => s \in Pending
<1>1. /\ jobs' \in [Jobs -> Job] /\ jobs'[j] = job
      /\ \A i \in Jobs \ {j} : jobs'[i] = jobs[i]
  BY DEF PortfolioInv, TypeOK
<1>2. \A i \in Jobs \ {j}, s \in Ids : Live(i, s)' <=> Live(i, s)
  BY <1>1, PortfolioAssumption DEF Live
<1>3. \A s \in Ids : s # jobs[j].row => ~Live(j, s) /\ ~Live(j, s)'
  BY <1>1 DEF Live
<1>4. \A s \in Ids : s \in Pending' <=> \E i \in Jobs : Live(i, s)'
  BY DEF Pending
<1>5. \A s \in Ids : s # jobs[j].row => (s \in Pending' <=> s \in Pending)
  BY <1>2, <1>3, <1>4 DEF Pending
<1>6. \A s \in Ids : s = jobs[j].row /\ (job.state = "todo" \/ worker'.job = j)
                        => s \in Pending'
  BY <1>1, <1>4 DEF Live
<1>7. ASSUME jobs[j].state = "todo" \/ worker.job = j, NEW s \in Ids, s \in Pending'
      PROVE  s \in Pending
  <2>1. CASE s = jobs[j].row
    BY <2>1, <1>7 DEF Pending, Live
  <2> QED
    BY <2>1, <1>5, <1>7
<1> QED
  BY <1>1, <1>5, <1>6, <1>7

LEMMA FetchKeeps ==
    ASSUME PortfolioInv, NEW j \in Jobs, Fetch(j)
    PROVE  PortfolioInv'
<1> USE DEF PortfolioInv
<1> DEFINE job == [jobs[j] EXCEPT !.state = "doing"]
<1>1. jobs[j] \in Job /\ jobs[j].state = "todo" /\ jobs[j].row \in Ids
  BY DEF Fetch, TypeOK, JobsInv
<1>2. job \in Job /\ job.row = jobs[j].row /\ job.state = "doing"
  BY <1>1 DEF Job
<1>3. /\ jobs' = [jobs EXCEPT ![j] = job]
      /\ UNCHANGED <<instruments, rows, request, edits, faults, lost, held>>
  BY <1>1 DEF Fetch, TypeOK, budget
<1>4. /\ worker.job = NoJob
      /\ worker' = [worker EXCEPT !.job = j, !.at = "begin"]
  BY DEF Fetch, WorkerInv
<1>5. /\ worker' \in [job: Jobs \cup {NoJob}, at: {"idle", "begin", "llm"}, read: Row \cup {NoRow}]
      /\ worker'.job = j /\ worker'.at = "begin"
  BY <1>4 DEF TypeOK
<1> HIDE DEF job
<1>6. /\ jobs' \in [Jobs -> Job] /\ jobs'[j] = job
      /\ \A i \in Jobs \ {j} : jobs'[i] = jobs[i]
      /\ \A s \in Ids : s \in Pending' <=> s \in Pending
  BY <1>1, <1>2, <1>3, <1>4, <1>5, JobChanges DEF Pending, Live
<1>7. TypeOK'
  BY <1>3, <1>5, <1>6 DEF TypeOK
<1>8. WorkerInv' /\ JobsInv'
  BY <1>1, <1>2, <1>5, <1>6 DEF WorkerInv, JobsInv, Target
<1>9. StatusInv'
  BY <1>3, <1>6 DEF StatusInv, Present
<1>10. HeldInv'
  <2>1. Pending' \subseteq Pending
    BY <1>6 DEF Pending
  <2> QED
    BY <1>3, <1>5, <2>1 DEF HeldInv, Present
<1>11. SnapshotSinceRequest' /\ WatchedOnce'
  BY <1>3 DEF SnapshotSinceRequest, WatchedOnce, Present
<1> QED
  BY <1>7, <1>8, <1>9, <1>10, <1>11

\* The row of the job keeps what it is and whose; an analysis that is done
\* names a holding of its history.
Judged == \E new \in Row :
    /\ rows' = [rows EXCEPT ![Target] = new]
    /\ new.kind = rows[Target].kind /\ new.owner = rows[Target].owner
    /\ new.inst = rows[Target].inst /\ new.shares = rows[Target].shares
    /\ new.kind = "position" /\ new.status = "done" => new.snap \in held[Target]

\* The worker gives its job up: the row of the job is no longer analyzing, or
\* gone, or lost, or its job waits for another try; and if it is done, it is
\* done with the holding that was read.
LEMMA GiveUpKeeps ==
    ASSUME PortfolioInv, worker.at # "idle", NEW job \in Job,
           job.row = Target,
           jobs' = [jobs EXCEPT ![worker.job] = job], worker' = IdleWorker,
           {edits', faults'} \subseteq Nat,
           UNCHANGED <<instruments, request, held>>,
           \A s \in Ids \ {Target} : rows'[s] = rows[s] /\ (s \in lost => s \in lost'),
           rows' = rows \/ (Present(Target) /\ Judged),
           \/ rows'[Target] = NoRow \/ rows'[Target].status # "analyzing"
           \/ Target \in lost' \/ job.state = "todo",
           lost' \subseteq Ids
    PROVE  PortfolioInv'
<1> USE DEF PortfolioInv
<1>1. PICK j \in Jobs : worker.job = j
  BY DEF WorkerInv
<1>2. /\ Target \in Ids /\ jobs[j].row = Target /\ jobs[j].state = "doing" /\ j # NoJob
      /\ worker'.job = NoJob /\ worker'.at = "idle"
  BY <1>1, PortfolioAssumption DEF WorkerInv, Target, IdleWorker
<1>3. jobs' = [jobs EXCEPT ![j] = job]
  BY <1>1
<1>4. /\ jobs' \in [Jobs -> Job] /\ jobs'[j] = job
      /\ \A i \in Jobs \ {j} : jobs'[i] = jobs[i]
      /\ \A s \in Ids : s # Target => (s \in Pending' <=> s \in Pending)
      /\ job.state = "todo" => Target \in Pending'
      /\ \A s \in Ids : s \in Pending' => s \in Pending
  <2>1. job.row = jobs[j].row /\ worker.job \in {j, NoJob} /\ worker'.job \in {j, NoJob}
    BY <1>1, <1>2, <1>3
  <2>2. /\ jobs' \in [Jobs -> Job] /\ jobs'[j] = job
        /\ \A i \in Jobs \ {j} : jobs'[i] = jobs[i]
    BY <1>3, <2>1, JobChanges
  <2>3. \A s \in Ids : s # jobs[j].row => (s \in Pending' <=> s \in Pending)
    BY <1>3, <2>1, JobChanges
  <2>4. \A s \in Ids : s = jobs[j].row /\ job.state = "todo" => s \in Pending'
    BY <1>3, <2>1, JobChanges, ZenonT(30)
  <2>5. \A s \in Ids : s \in Pending' => s \in Pending
    BY <1>1, <1>3, <2>1, JobChanges
  <2> QED
    BY <1>2, <2>2, <2>3, <2>4, <2>5
<1>5. /\ rows' \in [Ids -> Row \cup {NoRow}] /\ WatchedOnce'
      /\ \A s \in Ids : Present(s)' <=> Present(s)
      /\ \A s \in Ids : Present(s) => rows'[s].shares = rows[s].shares
  <2>1. CASE rows' = rows
    BY <2>1 DEF TypeOK, WatchedOnce, Present
  <2>2. CASE Present(Target) /\ Judged
    <3>1. PICK new \in Row :
               /\ rows' = [rows EXCEPT ![Target] = new]
               /\ new.kind = rows[Target].kind /\ new.owner = rows[Target].owner
               /\ new.inst = rows[Target].inst /\ new.shares = rows[Target].shares
      BY <2>2 DEF Judged
    <3>2. /\ rows' \in [Ids -> Row \cup {NoRow}]
          /\ rows'[Target] = new /\ \A s \in Ids \ {Target} : rows'[s] = rows[s]
          /\ WatchedOnce'
      BY <1>2, <2>2, <3>1, EditKeeps
    <3> QED
      BY <2>2, <3>1, <3>2, PortfolioAssumption DEF Present
  <2> QED
    BY <2>1, <2>2
<1>6. worker' \in [job: Jobs \cup {NoJob}, at: {"idle", "begin", "llm"}, read: Row \cup {NoRow}]
  BY DEF IdleWorker
<1>7. TypeOK'
  BY <1>4, <1>5, <1>6 DEF TypeOK
<1>8. WorkerInv' /\ JobsInv'
  BY <1>1, <1>2, <1>4 DEF WorkerInv, JobsInv
<1>9. StatusInv'
  <2> SUFFICES ASSUME NEW s \in Ids, Present(s)', rows'[s].status = "analyzing"
               PROVE  s \in lost' \/ s \in Pending'
    BY DEF StatusInv
  <2>1. CASE s = Target
    BY <2>1, <1>4 DEF Present
  <2>2. CASE s # Target
    BY <2>2, <1>4 DEF StatusInv, Present
  <2> QED
    BY <2>1, <2>2
<1>10. HeldInv'
  <2>1. Pending' \subseteq Pending /\ Pending \subseteq Ids
    BY <1>4 DEF Pending
  <2> QED
    BY <1>2, <1>5, <2>1 DEF HeldInv
<1>11. SnapshotSinceRequest'
  <2> SUFFICES ASSUME NEW s \in Ids, Present(s)', rows'[s].kind = "position",
                      rows'[s].status = "done"
               PROVE  rows'[s].snap \in held[s]
    BY DEF SnapshotSinceRequest
  <2>1. CASE rows'[s] = rows[s]
    BY <2>1 DEF SnapshotSinceRequest, Present
  <2>2. CASE rows'[s] # rows[s]
    <3>1. s = Target /\ rows' # rows
      BY <2>2
    <3>2. PICK new \in Row :
               /\ rows' = [rows EXCEPT ![Target] = new]
               /\ new.kind = "position" /\ new.status = "done" => new.snap \in held[Target]
      BY <3>1 DEF Judged
    <3>3. rows'[s] = new
      BY <1>2, <3>1, <3>2 DEF TypeOK
    <3> QED
      BY <3>1, <3>2, <3>3
  <2> QED
    BY <2>1, <2>2
<1> QED
  BY <1>5, <1>7, <1>8, <1>9, <1>10, <1>11

\* The job as the worker leaves it.
LEMMA WorkersJob ==
    ASSUME PortfolioInv, worker.at # "idle"
    PROVE  /\ Target \in Ids /\ worker.job \in Jobs /\ jobs[worker.job] \in Job
           /\ [jobs[worker.job] EXCEPT !.state = "ended"] \in Job
           /\ [jobs[worker.job] EXCEPT !.state = "ended"].row = Target
BY DEF PortfolioInv, WorkerInv, TypeOK, Job, Target

LEMMA BeginKeeps ==
    ASSUME PortfolioInv, Begin
    PROVE  PortfolioInv'
<1> USE DEF PortfolioInv
<1> DEFINE new == [rows[Target] EXCEPT !.status = "analyzing"]
<1>1. /\ worker.at = "begin" /\ Present(Target) /\ Target \in Ids /\ worker.job \in Jobs
      /\ jobs[worker.job].state = "doing"
  BY DEF Begin, WorkerInv
<1>2. rows[Target] \in Row
  BY <1>1, RowFacts
<1>3. /\ new \in Row /\ new.kind = rows[Target].kind /\ new.owner = rows[Target].owner
      /\ new.inst = rows[Target].inst /\ new.shares = rows[Target].shares
      /\ new.status = "analyzing"
  BY <1>2 DEF Row, Statuses
<1>4. /\ rows' = [rows EXCEPT ![Target] = new]
      /\ worker' = [worker EXCEPT !.at = "llm", !.read = rows[Target]]
      /\ UNCHANGED <<instruments, jobs, request, edits, faults, lost, held>>
  BY <1>1 DEF Begin, TypeOK, budget
<1> HIDE DEF new
<1>5. /\ rows' \in [Ids -> Row \cup {NoRow}] /\ rows'[Target] = new
      /\ \A s \in Ids \ {Target} : rows'[s] = rows[s]
      /\ WatchedOnce'
  BY <1>1, <1>3, <1>4, EditKeeps
<1>6. /\ worker' \in [job: Jobs \cup {NoJob}, at: {"idle", "begin", "llm"}, read: Row \cup {NoRow}]
      /\ worker'.job = worker.job /\ worker'.at = "llm" /\ worker'.read = rows[Target]
  BY <1>2, <1>4 DEF TypeOK
<1>7. TypeOK'
  BY <1>4, <1>5, <1>6 DEF TypeOK
<1>8. Pending' = Pending /\ Target' = Target
  BY <1>4, <1>6 DEF Pending, Live, Target
<1>9. WorkerInv' /\ JobsInv'
  BY <1>1, <1>2, <1>4, <1>6, <1>8 DEF WorkerInv, JobsInv
<1>10. Target \in Pending
  BY <1>1 DEF Pending, Live, Target
<1>11. StatusInv'
  BY <1>4, <1>5, <1>8, <1>10 DEF StatusInv, Present
<1>12. HeldInv'
  <2>1. rows[Target].shares \in held[Target]
    BY <1>1, <1>10 DEF HeldInv
  <2>2. ASSUME NEW s \in Pending, rows'[s] # NoRow
        PROVE  rows'[s].shares \in held[s]
    <3>1. s \in Ids
      BY DEF Pending
    <3> QED
      BY <1>3, <1>5, <2>1, <2>2, <3>1 DEF HeldInv, Present
  <2> QED
    BY <1>4, <1>6, <1>8, <2>1, <2>2 DEF HeldInv, Present
<1>13. SnapshotSinceRequest'
  BY <1>3, <1>4, <1>5 DEF SnapshotSinceRequest, Present
<1> QED
  BY <1>5, <1>7, <1>9, <1>11, <1>12, <1>13

LEMMA BeginNothingKeeps ==
    ASSUME PortfolioInv, BeginNothing
    PROVE  PortfolioInv'
<1> DEFINE job == [jobs[worker.job] EXCEPT !.state = "ended"]
<1>1. worker.at # "idle" /\ rows[Target] = NoRow
  BY DEF BeginNothing, Present
<1>2. job \in Job /\ job.row = Target
  BY <1>1, WorkersJob
<1>3. /\ jobs' = [jobs EXCEPT ![worker.job] = job] /\ worker' = IdleWorker
      /\ rows' = rows
      /\ UNCHANGED <<instruments, request, edits, faults, lost, held>>
  BY <1>1, WorkersJob DEF BeginNothing, Ended, PortfolioInv, TypeOK, budget
<1>4. {edits', faults'} \subseteq Nat /\ lost' \subseteq Ids
  BY <1>3 DEF PortfolioInv, TypeOK
<1> HIDE DEF job
<1> QED
  BY <1>1, <1>2, <1>3, <1>4, GiveUpKeeps

LEMMA BeginRaisesKeeps ==
    ASSUME PortfolioInv, BeginRaises
    PROVE  PortfolioInv'
<1>1. worker.at # "idle" /\ {edits', faults'} \subseteq Nat
  BY DEF BeginRaises, Fault, PortfolioInv, TypeOK
<1>2. /\ worker' = IdleWorker /\ rows' = rows
      /\ UNCHANGED <<instruments, request, held>>
  BY DEF BeginRaises
<1>3. CASE jobs[worker.job].tries < MaxRetries
  <2> DEFINE job == [jobs[worker.job] EXCEPT !.state = "todo", !.tries = @ + 1]
  <2>1. jobs[worker.job].tries \in 0 .. MaxRetries
    BY <1>1, WorkersJob DEF Job
  <2>2. jobs[worker.job].tries + 1 \in 0 .. MaxRetries
    BY <1>3, <2>1, PortfolioAssumption
  <2>3. job \in Job /\ job.row = Target /\ job.state = "todo"
    BY <1>1, <2>2, WorkersJob DEF Job, Target
  <2>4. jobs' = [jobs EXCEPT ![worker.job] = job] /\ lost' = lost
    BY <1>1, <1>3, WorkersJob DEF BeginRaises, PortfolioInv, TypeOK
  <2>5. lost' \subseteq Ids
    BY <2>4 DEF PortfolioInv, TypeOK
  <2> HIDE DEF job
  <2> QED
    BY <1>1, <1>2, <2>3, <2>4, <2>5, GiveUpKeeps
<1>4. CASE ~(jobs[worker.job].tries < MaxRetries)
  <2> DEFINE job == [jobs[worker.job] EXCEPT !.state = "ended"]
  <2>1. job \in Job /\ job.row = Target
    BY <1>1, WorkersJob
  <2>2. jobs' = [jobs EXCEPT ![worker.job] = job] /\ lost' = lost \cup {Target}
    BY <1>1, <1>4, WorkersJob DEF BeginRaises, PortfolioInv, TypeOK
  <2>3. lost' \subseteq Ids
    BY <1>1, <2>2, WorkersJob DEF PortfolioInv, TypeOK
  <2> HIDE DEF job
  <2> QED
    BY <1>1, <1>2, <2>1, <2>2, <2>3, GiveUpKeeps
<1> QED
  BY <1>3, <1>4

\* Write and AnalysisFails: the row leaves "analyzing" if it is still there.
LEMMA FinishKeeps ==
    ASSUME PortfolioInv, Write \/ AnalysisFails
    PROVE  PortfolioInv'
<1> USE DEF PortfolioInv
<1> DEFINE job  == [jobs[worker.job] EXCEPT !.state = "ended"]
           fail == [rows[Target] EXCEPT !.status = "failed"]
<1>1. worker.at = "llm" /\ Target \in Ids
  BY DEF Write, AnalysisFails, WorkerInv
<1>2. job \in Job /\ job.row = Target
  BY <1>1, WorkersJob
<1>3. /\ jobs' = [jobs EXCEPT ![worker.job] = job] /\ worker' = IdleWorker
      /\ lost' = lost \ {Target}
      /\ UNCHANGED <<instruments, request, edits, faults, held>>
  BY <1>1, WorkersJob DEF Write, AnalysisFails, Ended, TypeOK, budget
<1>4. {edits', faults'} \subseteq Nat /\ lost' \subseteq Ids
  BY <1>3 DEF TypeOK
<1> HIDE DEF job
<1>5. CASE ~Present(Target)
  <2>1. rows' = rows /\ rows[Target] = NoRow
    BY <1>5 DEF Write, AnalysisFails, Present
  <2> QED
    BY <1>1, <1>2, <1>3, <1>4, <2>1, GiveUpKeeps
<1>6. CASE Present(Target)
  <2>1. rows[Target] \in Row
    BY <1>1, <1>6, RowFacts
  <2>2. PICK new \in Row :
          /\ rows' = [rows EXCEPT ![Target] = new]
          /\ new.kind = rows[Target].kind /\ new.owner = rows[Target].owner
          /\ new.inst = rows[Target].inst /\ new.shares = rows[Target].shares
          /\ new.status # "analyzing"
          /\ new.kind = "position" /\ new.status = "done" => new.snap \in held[Target]
    <3>1. CASE Write
      <4>1. worker.read \in Row /\ worker.read.shares \in held[Target]
        BY <1>1, <1>6 DEF WorkerInv, HeldInv
      <4>2. worker.read.shares \in Shares
        BY <4>1 DEF Row
      <4> DEFINE snap == IF rows[Target].kind = "position" THEN worker.read.shares ELSE 0
                 new  == [rows[Target] EXCEPT !.note = "llm", !.status = "done", !.snap = snap]
      <4>3. snap \in Shares \cup {0}
        BY <4>2
      <4>4. Analysed(Target) = new
        BY DEF Analysed
      <4> HIDE DEF snap
      <4>5. /\ new \in Row
            /\ new.kind = rows[Target].kind /\ new.owner = rows[Target].owner
            /\ new.inst = rows[Target].inst /\ new.shares = rows[Target].shares
            /\ new.status = "done" /\ new.snap = snap
        BY <2>1, <4>3 DEF Row, Statuses
      <4>6. rows' = [rows EXCEPT ![Target] = new]
        BY <1>6, <3>1, <4>4 DEF Write
      <4>7. rows[Target].kind = "position" => snap \in held[Target]
        BY <4>1 DEF snap
      <4> HIDE DEF new
      <4> QED
        BY <4>5, <4>6, <4>7
    <3>2. CASE AnalysisFails
      <4>1. /\ fail \in Row
            /\ fail.kind = rows[Target].kind /\ fail.owner = rows[Target].owner
            /\ fail.inst = rows[Target].inst /\ fail.shares = rows[Target].shares
            /\ fail.status = "failed"
        BY <2>1 DEF Row, Statuses
      <4>2. rows' = [rows EXCEPT ![Target] = fail]
        BY <1>1, <1>6, <3>2 DEF AnalysisFails, TypeOK
      <4> HIDE DEF fail
      <4> QED
        BY <4>1, <4>2
    <3> QED
      BY <3>1, <3>2
  <2>3. rows'[Target] = new /\ \A s \in Ids \ {Target} : rows'[s] = rows[s]
    BY <1>1, <2>2 DEF TypeOK
  <2>4. Judged
    BY <2>2 DEF Judged
  <2> QED
    BY <1>1, <1>2, <1>3, <1>4, <1>6, <2>2, <2>3, <2>4, GiveUpKeeps
<1> QED
  BY <1>5, <1>6

LEMMA WorkerDiesKeeps ==
    ASSUME PortfolioInv, WorkerDies
    PROVE  PortfolioInv'
<1>1. worker.at # "idle" /\ {edits', faults'} \subseteq Nat
  BY DEF WorkerDies, Fault, PortfolioInv, TypeOK
<1>2. /\ worker' = IdleWorker /\ rows' = rows /\ jobs' = jobs
      /\ lost' = lost \cup {Target}
      /\ UNCHANGED <<instruments, request, held>>
  BY DEF WorkerDies
<1>3. Target \in Ids /\ jobs[worker.job] \in Job /\ jobs[worker.job].row = Target
  BY <1>1, WorkersJob DEF Target
<1>4. jobs' = [jobs EXCEPT ![worker.job] = jobs[worker.job]]
  BY <1>2 DEF PortfolioInv, TypeOK
<1>5. lost' \subseteq Ids
  BY <1>2, <1>3 DEF PortfolioInv, TypeOK
<1> QED
  BY <1>1, <1>2, <1>3, <1>4, <1>5, GiveUpKeeps

-----------------------------------------------------------------------------
\* Every request and every step of the worker keeps the invariant.
LEMMA StepKeeps ==
    ASSUME PortfolioInv, [Next]_vars
    PROVE  PortfolioInv'
<1>1. ASSUME NEW q \in Requests, NEW k \in Kinds, NEW o \in Owners, NEW i \in Instruments,
             NEW s \in Shares, AddRead(q, k, o, i, s)
      PROVE  PortfolioInv'
  BY <1>1, AddReadKeeps
<1>2. ASSUME NEW q \in Requests, AddWrite(q) PROVE PortfolioInv'
  <2>1. CASE request[q].found = NoRow
    BY <1>2, <2>1, InsertKeeps DEF AddWrite
  <2>2. CASE request[q].found # NoRow
    BY <1>2, <2>2, UpdateKeeps DEF AddWrite
  <2> QED
    BY <2>1, <2>2
<1>3. ASSUME NEW q \in Requests, AddRefused(q) PROVE PortfolioInv'
  BY <1>3, AddRefusedKeeps
<1>4. ASSUME NEW r \in Ids, NEW s \in Shares, UpdatePosition(r, s) PROVE PortfolioInv'
  BY <1>4, UpdatePositionKeeps
<1>5. ASSUME NEW r \in Ids, DeleteRow(r) PROVE PortfolioInv'
  BY <1>5, DeleteRowKeeps
<1>6. ASSUME NEW r \in Ids, NEW j \in Jobs, Analyze(r, j) PROVE PortfolioInv'
  BY <1>6, AnalyzeKeeps
<1>7. ASSUME NEW j \in Jobs, Fetch(j) PROVE PortfolioInv'
  BY <1>7, FetchKeeps
<1>8. CASE WorkerRun
  BY <1>8, BeginNothingKeeps, BeginKeeps, FinishKeeps DEF WorkerRun
<1>9. CASE BeginRaises \/ WorkerDies
  BY <1>9, BeginRaisesKeeps, WorkerDiesKeeps
<1>10. CASE UNCHANGED vars
  <2>1. Pending' = Pending /\ Target' = Target
    BY <1>10 DEF vars, Pending, Live, Target
  <2>2. TypeOK' /\ WorkerInv' /\ JobsInv'
    BY <1>10, <2>1 DEF vars, PortfolioInv, TypeOK, WorkerInv, JobsInv
  <2>3. StatusInv' /\ HeldInv'
    BY <1>10, <2>1 DEF vars, PortfolioInv, StatusInv, HeldInv, Present
  <2>4. SnapshotSinceRequest' /\ WatchedOnce'
    BY <1>10 DEF vars, PortfolioInv, SnapshotSinceRequest, WatchedOnce, Present
  <2> QED
    BY <2>2, <2>3, <2>4 DEF PortfolioInv
<1> QED
  BY <1>1, <1>2, <1>3, <1>4, <1>5, <1>6, <1>7, <1>8, <1>9, <1>10 DEF Next

(* The inductive invariant of positions, watchlist, queue and worker holds  *)
(* in every reachable state.                                                *)
THEOREM PortfolioSafety == Spec => []PortfolioInv
<1>1. PortfolioInv /\ [Next]_vars => PortfolioInv'
  BY StepKeeps
<1> QED
  BY InitPortfolio, <1>1, PTL DEF Spec

(* Columns keep their types, a row shows "analyzing" only with a job that   *)
(* will end it or after one was lost, and a user watches an instrument      *)
(* once, although add_watchlist decides on what it read before.             *)
THEOREM PortfolioRowsAndJobs == Spec => []RowsAndJobsAgree
<1>1. PortfolioInv => RowsAndJobsAgree
  BY DEF PortfolioInv, RowsAndJobsAgree, StatusInv, AnalyzingHasJob, Pending
<1> QED
  BY PortfolioSafety, <1>1, PTL

(* An analysis that is done reports a holding the position had after the    *)
(* analysis was asked for, whatever was edited, deleted or asked meanwhile. *)
THEOREM PortfolioSnapshotSince == Spec => []SnapshotSinceRequest
<1>1. PortfolioInv => SnapshotSinceRequest
  BY DEF PortfolioInv
<1> QED
  BY PortfolioSafety, <1>1, PTL
=============================================================================
