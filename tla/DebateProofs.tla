---------------------------- MODULE DebateProofs ----------------------------
(***************************************************************************)
(* Theorems about DebateLifecycle, for every number of debates, jobs,      *)
(* workers, marks, retries and crashes.  DebateInv is inductive; what a    *)
(* user sees of it follows.  A step of execute_debate is summed up once,   *)
(* by ExecuteEffect, and each part of the invariant uses that summary.     *)
(* The last part is about DebateGraph: what a report is made of, for any   *)
(* number of attempts and assignments.                                     *)
(***************************************************************************)
EXTENDS DebateInvariant, DebateGraphInvariant, TLAPS

-----------------------------------------------------------------------------
(* What the helpers of the model return.                                   *)

LEMMA AssignType ==
    ASSUME NEW A, NEW B, NEW f \in [A -> B], NEW a, NEW b \in B
    PROVE  [f EXCEPT ![a] = b] \in [A -> B]
OBVIOUS

LEMMA FlushFacts ==
    ASSUME NEW old \in Row, NEW new \in Row, NEW stored \in Row
    PROVE  /\ Flush(old, new, stored) \in Row
           /\ Flush(old, new, stored).status
                = IF new.status = old.status THEN stored.status ELSE new.status
           /\ new.job = old.job => Flush(old, new, stored).job = stored.job
           /\ new.cancelReq = old.cancelReq
                => Flush(old, new, stored).cancelReq = stored.cancelReq
BY DEF Flush, Column, Row

LEMMA StatusFacts ==
    ASSUME NEW r \in Row, NEW s \in Statuses
    PROVE  /\ WithStatus(r, s) \in Row
           /\ WithStatus(r, s).status = s
           /\ WithStatus(r, s).job = r.job
           /\ WithStatus(r, s).cancelReq = r.cancelReq
BY DEF WithStatus, Row

LEMMA ClaimedFacts ==
    ASSUME NEW r \in Row
    PROVE  /\ Claimed(r) \in Row
           /\ Claimed(r).status = "running"
           /\ Claimed(r).job = r.job
           /\ Claimed(r).cancelReq = r.cancelReq
<1>1. /\ r.attempt + 1 \in Nat
      /\ Raise(r.progress, ClaimMark) \in Nat
  BY DEF ClaimMark, Raise, Row
<1> DEFINE a == r.attempt + 1
           p == Raise(r.progress, ClaimMark)
<1>2. Claimed(r) = [r EXCEPT !.status = "running", !.attempt = a, !.progress = p]
  BY DEF Claimed
<1> HIDE DEF a, p
<1>3. a \in Nat /\ p \in Nat
  BY <1>1 DEF a, p
<1> QED
  BY <1>2, <1>3 DEF Row, Statuses, Active

LEMMA MarkedFacts ==
    ASSUME NEW r \in Row, NEW m \in Nat
    PROVE  /\ Marked(r, m) \in Row
           /\ Marked(r, m).status = r.status
           /\ Marked(r, m).job = r.job
           /\ Marked(r, m).cancelReq = r.cancelReq
           /\ ~Canceling(r) => ~Canceling(Marked(r, m))
BY DEF Marked, Raise, Row, Canceling

LEMMA CompletedFacts ==
    ASSUME NEW r \in Row
    PROVE  /\ Completed(r) \in Row
           /\ Completed(r).status = "done"
           /\ Completed(r).job = r.job
           /\ Completed(r).cancelReq = r.cancelReq
BY DEF Completed, DoneMark, Row, Statuses, Terminal

LEMMA ReopenedFacts ==
    ASSUME NEW r \in Row, NEW j \in JobIds
    PROVE  /\ Reopened(r, j) \in Row
           /\ Reopened(r, j).status = "queued"
           /\ Reopened(r, j).job = j
           /\ Reopened(r, j).cancelReq = FALSE
BY DEF Reopened, Row, Statuses, Active

LEMMA JobFacts ==
    ASSUME NEW b \in Job
    PROVE  /\ \A s \in JobStates : /\ InState(b, s) \in Job
                                   /\ InState(b, s).state = s
                                   /\ InState(b, s).debate = b.debate
           /\ Retried(b) \in Job
           /\ Retried(b).state = "todo"
           /\ Retried(b).debate = b.debate
           /\ Cancelled(b) \in Job
           /\ b.state # "absent" => Cancelled(b).state # "absent"
           /\ b.state = "doing" => Cancelled(b).state = "doing"
           /\ Cancelled(b).debate = b.debate
<1>1. \A s \in JobStates : /\ InState(b, s) \in Job
                           /\ InState(b, s).state = s
                           /\ InState(b, s).debate = b.debate
  BY DEF InState, Job
<1>2. /\ Retried(b) \in Job
      /\ Retried(b).state = "todo"
      /\ Retried(b).debate = b.debate
  <2> DEFINE n == b.attempts + 1
             c == InState(b, "todo")
  <2>1. n \in Nat
    BY DEF Job
  <2>2. c \in Job /\ c.state = "todo" /\ c.debate = b.debate
    BY <1>1 DEF JobStates
  <2>3. Retried(b) = [c EXCEPT !.attempts = n]
    BY DEF Retried, InState
  <2> HIDE DEF c, n
  <2>4. /\ [c EXCEPT !.attempts = n] \in Job
        /\ [c EXCEPT !.attempts = n].state = c.state
        /\ [c EXCEPT !.attempts = n].debate = c.debate
    BY <2>1, <2>2 DEF Job
  <2> QED
    BY <2>2, <2>3, <2>4
<1>3. /\ Cancelled(b) \in Job
      /\ b.state # "absent" => Cancelled(b).state # "absent"
      /\ b.state = "doing" => Cancelled(b).state = "doing"
      /\ Cancelled(b).debate = b.debate
  <2> DEFINE s == IF b.state = "todo" THEN "cancelled" ELSE b.state
             a == b.abort \/ b.state = "doing"
             c == [b EXCEPT !.state = s]
  <2>1. Cancelled(b) = [c EXCEPT !.abort = a]
    BY DEF Cancelled
  <2>2. /\ s \in JobStates
        /\ b.state # "absent" => s # "absent"
        /\ b.state = "doing" => s = "doing"
    BY DEF Job, JobStates
  <2>3. a \in BOOLEAN
    OBVIOUS
  <2> HIDE DEF s, a
  <2>4. c \in Job /\ c.state = s /\ c.debate = b.debate
    BY <2>2 DEF Job
  <2> HIDE DEF c
  <2>5. /\ [c EXCEPT !.abort = a] \in Job
        /\ [c EXCEPT !.abort = a].state = c.state
        /\ [c EXCEPT !.abort = a].debate = c.debate
    BY <2>3, <2>4 DEF Job
  <2> QED
    BY <2>1, <2>2, <2>4, <2>5
<1> QED
  BY <1>1, <1>2, <1>3

LEMMA BlankFacts ==
    /\ AbsentRow \in Row
    /\ AbsentJob \in Job
    /\ \A d \in Debates : NewJob(d) \in Job
    /\ \A j \in JobIds : [AbsentRow EXCEPT !.status = "queued", !.job = j] \in Row
BY DEF AbsentRow, AbsentJob, NewJob, Row, Job, Statuses, Active, JobStates

-----------------------------------------------------------------------------
(* One step of execute_debate.                                             *)

\* Worker w stays busy and disturbs neither the queue nor another worker.
Frame(w) ==
    /\ UNCHANGED <<jobs, cancels, held, crashes>>
    /\ pc[w] # "idle" /\ pc'[w] # "idle"
    /\ pc' \in [Workers -> PcValues]
    /\ seen' \in [Workers -> Row]
    /\ stage' \in [Workers -> 1 .. Len(Marks) + 1]
    /\ \A v \in Workers \ {w} :
          pc'[v] = pc[v] /\ seen'[v] = seen[v] /\ stage'[v] = stage[v]

\* It writes its own row only, never the job or the cancel request, and
\* makes no row queued; a cancellation is overwritten only from a copy.
Writes(w) ==
    /\ rows' \in [Debates -> Row]
    /\ \A d \in Debates :
          /\ d # Target(w) => rows'[d] = rows[d]
          /\ rows'[d].job = rows[d].job
          /\ rows'[d].cancelReq = rows[d].cancelReq
          /\ rows'[d].status \in {rows[d].status, "running"} \cup Terminal
          /\ rows'[d].status # rows[d].status /\ rows'[d].status \in Active
                => pc[w] = "claim" /\ IndexAllows(d, rows'[d].status)
          /\ rows[d].status = "canceled" /\ rows'[d].status # "canceled"
                => pc[w] \in ActsOnCopy

LEMMA TargetType ==
    ASSUME TypeOK, HoldInv, RefInv, NEW w \in Workers, pc[w] # "idle"
    PROVE  /\ held[w] \in JobIds
           /\ Target(w) \in Debates
           /\ rows[Target(w)].status # "absent"
<1>1. held[w] \in JobIds /\ jobs[held[w]].state = "doing"
  BY DEF HoldInv
<1> QED
  BY <1>1 DEF RefInv, Target

\* The write of a copy that keeps job and cancel request.
LEMMA WriteEffect ==
    ASSUME TypeOK, NEW w \in Workers, Target(w) \in Debates,
           NEW old \in Row, NEW new \in Row,
           new.job = old.job, new.cancelReq = old.cancelReq,
           new.status \in {old.status, "running"} \cup Terminal,
           new.status # old.status /\ new.status \in Active =>
               pc[w] = "claim" /\ IndexAllows(Target(w), new.status),
           \/ pc[w] \in ActsOnCopy
           \/ rows[Target(w)].status = "canceled" =>
                  new.status \in {old.status, "canceled"},
           rows' = [rows EXCEPT ![Target(w)] = Flush(old, new, rows[Target(w)])]
    PROVE  Writes(w)
<1> DEFINE d == Target(w)
           f == Flush(old, new, rows[d])
<1>1. rows[d] \in Row
  BY DEF TypeOK
<1>2. /\ f \in Row
      /\ f.status = IF new.status = old.status THEN rows[d].status ELSE new.status
      /\ f.job = rows[d].job
      /\ f.cancelReq = rows[d].cancelReq
  BY <1>1, FlushFacts
<1> HIDE DEF f
<1>3. rows' = [rows EXCEPT ![d] = f]
  BY DEF f
<1>4. rows' \in [Debates -> Row]
  BY <1>2, <1>3, AssignType DEF TypeOK
<1>5. rows'[d] = f /\ \A e \in Debates : e # d => rows'[e] = rows[e]
  BY <1>3 DEF TypeOK
<1>6. ASSUME NEW e \in Debates
      PROVE  /\ e # d => rows'[e] = rows[e]
             /\ rows'[e].job = rows[e].job
             /\ rows'[e].cancelReq = rows[e].cancelReq
             /\ rows'[e].status \in {rows[e].status, "running"} \cup Terminal
             /\ rows'[e].status # rows[e].status /\ rows'[e].status \in Active
                   => pc[w] = "claim" /\ IndexAllows(e, rows'[e].status)
             /\ rows[e].status = "canceled" /\ rows'[e].status # "canceled"
                   => pc[w] \in ActsOnCopy
  <2>1. CASE e # d
    BY <2>1, <1>5
  <2>2. CASE e = d
    BY <2>2, <1>5, <1>2
  <2> QED
    BY <2>1, <2>2
<1> QED
  BY <1>4, <1>6 DEF Writes

LEMMA ExecuteEffect ==
    ASSUME TypeOK, StageInv, CopyInv, HoldInv, RefInv,
           NEW w \in Workers, Execute(w)
    PROVE  Frame(w) /\ Writes(w)
<1> DEFINE d == Target(w)
<1> USE DEF TypeOK, PcValues, Goto
<1>1. pc[w] # "idle"
  BY DEF Execute, Load, Drop, Claim, ClaimRefused, Check, Mark, WorkFails,
         Save, SaveFails, Stop, Converge
<1>2. d \in Debates /\ rows[d] \in Row /\ seen[w] \in Row
  BY <1>1, TargetType
<1>3. {"canceled", "done", "failed", "running"} \subseteq Statuses
  BY DEF Statuses, Active, Terminal
<1>4. UNCHANGED rows => Writes(w)
  BY <1>2 DEF Writes
<1>5. CASE Load(w)
  BY <1>1, <1>2, <1>4, <1>5 DEF Load, Frame
<1>6. CASE Drop(w)
  <2> DEFINE new == WithStatus(seen[w], "canceled")
  <2>1. /\ new \in Row /\ new.status = "canceled"
        /\ new.job = seen[w].job /\ new.cancelReq = seen[w].cancelReq
    BY <1>2, <1>3, StatusFacts
  <2>2. /\ seen' = [seen EXCEPT ![w] = new]
        /\ rows' = [rows EXCEPT ![d] = Flush(seen[w], new, rows[d])]
    BY <1>6 DEF Drop, Commit
  <2> HIDE DEF new
  <2>3. Frame(w)
    BY <1>1, <1>6, <2>1, <2>2 DEF Drop, Frame
  <2>4. Writes(w)
    BY <1>2, <2>1, <2>2, WriteEffect DEF Terminal, Active
  <2> QED
    BY <2>3, <2>4
<1>7. CASE Claim(w)
  <2> DEFINE new == Claimed(seen[w])
  <2>1. /\ new \in Row /\ new.status = "running"
        /\ new.job = seen[w].job /\ new.cancelReq = seen[w].cancelReq
    BY <1>2, ClaimedFacts
  <2> HIDE DEF new
  <2>2. seen' = [seen EXCEPT ![w] = new] /\ pc[w] = "claim"
    BY <1>7 DEF Claim, Commit, new
  <2>3. Frame(w)
    BY <1>1, <1>7, <2>1, <2>2, DebateAssumption DEF Claim, Frame
  <2>4. new.status # seen[w].status => IndexAllows(d, new.status)
    BY <1>2, <1>7, <2>1, FlushFacts DEF Claim, new
  <2>5. rows' = [rows EXCEPT ![d] = Flush(seen[w], new, rows[d])]
    BY <1>7 DEF Claim, Commit, new
  <2>6. Writes(w)
    BY <1>2, <2>1, <2>2, <2>4, <2>5, WriteEffect DEF ActsOnCopy
  <2> QED
    BY <2>3, <2>6
<1>8. CASE ClaimRefused(w)
  BY <1>1, <1>2, <1>4, <1>8 DEF ClaimRefused, Frame
<1>9. CASE Check(w)
  BY <1>1, <1>2, <1>4, <1>9 DEF Check, Frame
<1>10. CASE Mark(w)
  <2> DEFINE new == Marked(seen[w], Marks[stage[w]])
  <2>1. Marks[stage[w]] \in Nat /\ stage[w] + 1 \in 1 .. Len(Marks) + 1
    BY <1>10, DebateAssumption DEF Mark, StageInv
  <2>2. /\ new \in Row /\ new.status = seen[w].status
        /\ new.job = seen[w].job /\ new.cancelReq = seen[w].cancelReq
    BY <1>2, <2>1, MarkedFacts
  <2>3. /\ seen' = [seen EXCEPT ![w] = new]
        /\ rows' = [rows EXCEPT ![d] = Flush(seen[w], new, rows[d])]
    BY <1>10 DEF Mark, Commit
  <2> HIDE DEF new
  <2>4. Frame(w)
    BY <1>1, <1>10, <2>1, <2>2, <2>3 DEF Mark, Frame
  <2>5. Writes(w)
    BY <1>2, <1>10, <2>2, <2>3, WriteEffect DEF Mark, ActsOnCopy
  <2> QED
    BY <2>4, <2>5
<1>11. CASE WorkFails(w)
  BY <1>1, <1>2, <1>4, <1>11 DEF WorkFails, Frame
<1>12. CASE Save(w)
  <2> DEFINE new == IF Canceling(seen[w]) THEN WithStatus(seen[w], "canceled")
                    ELSE Completed(seen[w])
  <2>1. /\ new \in Row /\ new.status \in {"canceled", "done"}
        /\ new.job = seen[w].job /\ new.cancelReq = seen[w].cancelReq
    BY <1>2, <1>3, StatusFacts, CompletedFacts
  <2>2. /\ seen' = [seen EXCEPT ![w] = new]
        /\ rows' = [rows EXCEPT ![d] = Flush(seen[w], new, rows[d])]
    BY <1>12 DEF Save, Commit
  <2> HIDE DEF new
  <2>3. Frame(w)
    BY <1>1, <1>12, <2>1, <2>2 DEF Save, Frame
  <2>4. Writes(w)
    BY <1>2, <1>12, <2>1, <2>2, WriteEffect DEF Save, ActsOnCopy, Terminal, Active
  <2> QED
    BY <2>3, <2>4
<1>13. CASE SaveFails(w)
  BY <1>1, <1>2, <1>4, <1>13 DEF SaveFails, Frame
<1>14. CASE Stop(w)
  <2> DEFINE new == WithStatus(rows[d], "canceled")
  <2>1. /\ new \in Row /\ new.status = "canceled"
        /\ new.job = rows[d].job /\ new.cancelReq = rows[d].cancelReq
    BY <1>2, <1>3, StatusFacts
  <2>2. rows' = [rows EXCEPT ![d] = new]
    BY <1>14 DEF Stop
  <2> HIDE DEF new
  <2>3. Frame(w)
    BY <1>1, <1>14 DEF Stop, Frame
  <2>4. Writes(w)
    BY <1>2, <2>1, <2>2 DEF Writes, Terminal, Active
  <2> QED
    BY <2>3, <2>4
<1>15. CASE Converge(w)
  <2> DEFINE copy == IF pc[w] = "errorFresh" THEN rows[d] ELSE seen[w]
             s    == IF Canceling(copy) THEN "canceled" ELSE "failed"
             new  == WithStatus(copy, s)
  <2>1. copy \in Row /\ s \in {"canceled", "failed"} /\ s \in Statuses
    BY <1>2, <1>3
  <2>2. pc[w] = "errorFresh" /\ rows[d].status = "canceled" => s = "canceled"
    BY DEF Canceling
  <2>3. rows' = [rows EXCEPT ![d] = Flush(copy, new, rows[d])]
    BY <1>15 DEF Converge
  <2>4. pc[w] = "errorFresh" \/ pc[w] \in ActsOnCopy
    BY <1>15 DEF Converge, ActsOnCopy
  <2> HIDE DEF copy, s
  <2>5. /\ new \in Row /\ new.status = s
        /\ new.job = copy.job /\ new.cancelReq = copy.cancelReq
    BY <2>1, StatusFacts
  <2> HIDE DEF new
  <2>6. Frame(w)
    BY <1>1, <1>15 DEF Converge, Frame
  <2>7. new.status \in Terminal /\ new.status \notin Active
    BY <2>1, <2>5 DEF Terminal, Active
  <2>8. \/ pc[w] \in ActsOnCopy
        \/ rows[d].status = "canceled" => new.status \in {copy.status, "canceled"}
    BY <2>2, <2>4, <2>5
  <2>9. Writes(w)
    BY <1>2, <2>1, <2>3, <2>5, <2>7, <2>8, WriteEffect
  <2> QED
    BY <2>6, <2>9
<1> QED
  BY <1>5, <1>6, <1>7, <1>8, <1>9, <1>10, <1>11, <1>12, <1>13, <1>14, <1>15
  DEF Execute

-----------------------------------------------------------------------------
(* The other steps.                                                        *)

\* Worker w lets its job go; a job other than its own stays as it is.
Leaves(w) ==
    /\ UNCHANGED <<rows, cancels>>
    /\ pc[w] # "idle"
    /\ LetGo(w)
    /\ crashes' \in 0 .. MaxCrashes
    /\ jobs' \in [JobIds -> Job]
    /\ \A j \in JobIds :
          /\ jobs'[j].debate = jobs[j].debate
          /\ j # held[w] \/ pc[w] \notin {"raised", "returned"}
                => jobs'[j] = jobs[j]
          /\ jobs[j].state # "absent" <=> jobs'[j].state # "absent"

LEMMA LeaveEffect ==
    ASSUME TypeOK, HoldInv, NEW w \in Workers,
           Return(w) \/ JobRetried(w) \/ JobFailed(w) \/ Crash(w)
    PROVE  Leaves(w)
<1> DEFINE h == held[w]
<1>1. pc[w] # "idle" /\ LetGo(w) /\ UNCHANGED <<rows, cancels>>
  BY DEF Return, JobRetried, JobFailed, Crash
<1>2. h \in JobIds /\ jobs[h] \in Job /\ jobs[h].state = "doing"
  BY <1>1 DEF HoldInv, TypeOK
<1>3. ASSUME NEW b \in Job, b.debate = jobs[h].debate, b.state # "absent",
             pc[w] \in {"raised", "returned"},
             jobs' = [jobs EXCEPT ![h] = b], UNCHANGED crashes
      PROVE  Leaves(w)
  <2>1. jobs' \in [JobIds -> Job]
    BY <1>3, AssignType DEF TypeOK
  <2>2. jobs'[h] = b /\ \A j \in JobIds : j # h => jobs'[j] = jobs[j]
    BY <1>2, <1>3 DEF TypeOK
  <2>3. crashes' \in 0 .. MaxCrashes
    BY <1>3 DEF TypeOK
  <2> QED
    BY <1>1, <1>2, <1>3, <2>1, <2>2, <2>3 DEF Leaves
<1>4. {"succeeded", "failed"} \subseteq JobStates
  BY DEF JobStates
<1>5. CASE Return(w)
  <2> DEFINE b == InState(jobs[h], "succeeded")
  <2>1. b \in Job /\ b.debate = jobs[h].debate /\ b.state = "succeeded"
    BY <1>2, <1>4, JobFacts
  <2>2. jobs' = [jobs EXCEPT ![h] = b] /\ UNCHANGED crashes /\ pc[w] = "returned"
    BY <1>5 DEF Return
  <2> HIDE DEF b
  <2> QED
    BY <1>3, <2>1, <2>2
<1>6. CASE JobRetried(w)
  <2> DEFINE b == Retried(jobs[h])
  <2>1. b \in Job /\ b.debate = jobs[h].debate /\ b.state = "todo"
    BY <1>2, JobFacts
  <2>2. jobs' = [jobs EXCEPT ![h] = b] /\ UNCHANGED crashes /\ pc[w] = "raised"
    BY <1>6 DEF JobRetried
  <2> HIDE DEF b
  <2> QED
    BY <1>3, <2>1, <2>2
<1>7. CASE JobFailed(w)
  <2> DEFINE b == InState(jobs[h], "failed")
  <2>1. b \in Job /\ b.debate = jobs[h].debate /\ b.state = "failed"
    BY <1>2, <1>4, JobFacts
  <2>2. jobs' = [jobs EXCEPT ![h] = b] /\ UNCHANGED crashes /\ pc[w] = "raised"
    BY <1>7 DEF JobFailed
  <2> HIDE DEF b
  <2> QED
    BY <1>3, <2>1, <2>2
<1>8. CASE Crash(w)
  <2>1. UNCHANGED jobs /\ crashes' = crashes + 1 /\ crashes < MaxCrashes
    BY <1>8 DEF Crash
  <2>2. crashes' \in 0 .. MaxCrashes
    BY <2>1, DebateAssumption DEF TypeOK
  <2> QED
    BY <1>1, <2>1, <2>2 DEF Leaves, TypeOK
<1> QED
  BY <1>5, <1>6, <1>7, <1>8

\* Create and Resume write one row as queued with a new job.
Defers(d, j) ==
    /\ UNCHANGED <<cancels, pc, held, seen, stage, crashes>>
    /\ rows[d].status \in {"absent", "failed"}
    /\ jobs[j].state = "absent"
    /\ IndexAllows(d, "queued")
    /\ rows' \in [Debates -> Row]
    /\ jobs' \in [JobIds -> Job]
    /\ rows'[d].status = "queued" /\ rows'[d].job = j /\ ~rows'[d].cancelReq
    /\ jobs'[j].state = "todo" /\ jobs'[j].debate = d
    /\ \A e \in Debates : e # d => rows'[e] = rows[e]
    /\ \A i \in JobIds : i # j => jobs'[i] = jobs[i]

LEMMA DeferEffect ==
    ASSUME TypeOK, NEW d \in Debates, NEW j \in JobIds,
           Create(d, j) \/ Resume(d, j)
    PROVE  Defers(d, j)
<1>1. NewJob(d) \in Job /\ NewJob(d).state = "todo" /\ NewJob(d).debate = d
  BY BlankFacts DEF NewJob
<1>2. \E r \in Row : /\ rows' = [rows EXCEPT ![d] = r]
                     /\ r.status = "queued" /\ r.job = j /\ ~r.cancelReq
  <2>1. CASE Create(d, j)
    <3> DEFINE r == [AbsentRow EXCEPT !.status = "queued", !.job = j]
    <3>1. r \in Row /\ rows' = [rows EXCEPT ![d] = r]
      BY <2>1, BlankFacts DEF Create
    <3>2. r.status = "queued" /\ r.job = j /\ ~r.cancelReq
      BY DEF AbsentRow
    <3> QED
      BY <3>1, <3>2
  <2>2. CASE Resume(d, j)
    <3>1. rows' = [rows EXCEPT ![d] = Reopened(rows[d], j)] /\ rows[d] \in Row
      BY <2>2 DEF Resume, TypeOK
    <3> QED
      BY <3>1, ReopenedFacts
  <2> QED
    BY <2>1, <2>2
<1>3. PICK r \in Row : /\ rows' = [rows EXCEPT ![d] = r]
                       /\ r.status = "queued" /\ r.job = j /\ ~r.cancelReq
  BY <1>2
<1>4. jobs' = [jobs EXCEPT ![j] = NewJob(d)]
  BY DEF Create, Resume
<1>5. rows' \in [Debates -> Row] /\ jobs' \in [JobIds -> Job]
  BY <1>1, <1>3, <1>4, AssignType DEF TypeOK
<1>6. rows'[d] = r /\ \A e \in Debates : e # d => rows'[e] = rows[e]
  BY <1>3 DEF TypeOK
<1>7. jobs'[j] = NewJob(d) /\ \A i \in JobIds : i # j => jobs'[i] = jobs[i]
  BY <1>4 DEF TypeOK
<1>8. /\ rows[d].status \in {"absent", "failed"}
      /\ jobs[j].state = "absent"
      /\ IndexAllows(d, "queued")
      /\ UNCHANGED <<cancels, pc, held, seen, stage, crashes>>
  BY DEF Create, Resume, workerVars
<1> QED
  BY <1>1, <1>3, <1>5, <1>6, <1>7, <1>8 DEF Defers

LEMMA CancelEffect ==
    ASSUME TypeOK, NEW d \in Debates, Cancel(d)
    PROVE  /\ UNCHANGED <<jobs, pc, held, seen, stage, crashes>>
           /\ rows[d].status \notin {"absent", "done", "failed"}
           /\ cancels' = cancels \cup {rows[d].job}
           /\ rows' \in [Debates -> Row]
           /\ rows'[d].status = "canceled" /\ rows'[d].cancelReq
           /\ rows'[d].job = rows[d].job
           /\ \A e \in Debates : e # d => rows'[e] = rows[e]
<1> DEFINE r == [rows[d] EXCEPT !.status = "canceled", !.cancelReq = TRUE]
<1>1. rows[d] \in Row /\ "canceled" \in Statuses
  BY DEF TypeOK, Statuses, Terminal
<1>2. r = [WithStatus(rows[d], "canceled") EXCEPT !.cancelReq = TRUE]
  BY DEF WithStatus
<1>3. /\ r \in Row /\ r.status = "canceled" /\ r.cancelReq
      /\ r.job = rows[d].job
  BY <1>1, <1>2, StatusFacts DEF Row
<1>4. rows' = [rows EXCEPT ![d] = r]
  BY DEF Cancel
<1> HIDE DEF r
<1>5. rows' \in [Debates -> Row]
  BY <1>3, <1>4, AssignType DEF TypeOK
<1>6. rows'[d] = r /\ \A e \in Debates : e # d => rows'[e] = rows[e]
  BY <1>4 DEF TypeOK
<1> QED
  BY <1>3, <1>5, <1>6 DEF Cancel, workerVars

LEMMA CancelJobEffect ==
    ASSUME TypeOK, NEW j \in JobIds, CancelJob(j) \/ CancelJobLost(j)
    PROVE  /\ UNCHANGED <<rows, pc, held, seen, stage, crashes>>
           /\ j \in cancels /\ cancels' = cancels \ {j}
           /\ jobs' \in [JobIds -> Job]
           /\ \A i \in JobIds :
                 /\ jobs'[i].debate = jobs[i].debate
                 /\ i # j => jobs'[i] = jobs[i]
                 /\ jobs[i].state # "absent" => jobs'[i].state # "absent"
                 /\ jobs[i].state = "doing" => jobs'[i].state = "doing"
                 /\ jobs'[i].state # "absent" => jobs[i].state # "absent" \/ i = j
<1>1. CASE CancelJob(j)
  <2>1. jobs[j] \in Job
    BY DEF TypeOK
  <2>2. jobs' = [jobs EXCEPT ![j] = Cancelled(jobs[j])]
    BY <1>1 DEF CancelJob
  <2>3. jobs' \in [JobIds -> Job]
    BY <2>1, <2>2, JobFacts, AssignType DEF TypeOK
  <2>4. /\ jobs'[j] = Cancelled(jobs[j])
        /\ \A i \in JobIds : i # j => jobs'[i] = jobs[i]
    BY <2>2 DEF TypeOK
  <2>5. /\ UNCHANGED <<rows, pc, held, seen, stage, crashes>>
        /\ j \in cancels /\ cancels' = cancels \ {j}
    BY <1>1 DEF CancelJob, workerVars
  <2> QED
    BY <2>1, <2>3, <2>4, <2>5, JobFacts
<1>2. CASE CancelJobLost(j)
  BY <1>2 DEF CancelJobLost, workerVars, TypeOK
<1> QED
  BY <1>1, <1>2

LEMMA FetchEffect ==
    ASSUME TypeOK, NEW w \in Workers, NEW j \in JobIds, Fetch(w, j)
    PROVE  /\ UNCHANGED <<rows, cancels, seen, stage, crashes>>
           /\ pc[w] = "idle" /\ jobs[j].state = "todo"
           /\ pc' = [pc EXCEPT ![w] = "load"] /\ held' = [held EXCEPT ![w] = j]
           /\ jobs' \in [JobIds -> Job]
           /\ jobs'[j].state = "doing"
           /\ \A i \in JobIds : /\ jobs'[i].debate = jobs[i].debate
                                /\ i # j => jobs'[i] = jobs[i]
<1>1. jobs[j] \in Job /\ "doing" \in JobStates
  BY DEF TypeOK, JobStates
<1>2. jobs' = [jobs EXCEPT ![j] = InState(jobs[j], "doing")]
  BY DEF Fetch
<1>3. jobs' \in [JobIds -> Job]
  BY <1>1, <1>2, JobFacts, AssignType DEF TypeOK
<1>4. /\ jobs'[j] = InState(jobs[j], "doing")
      /\ \A i \in JobIds : i # j => jobs'[i] = jobs[i]
  BY <1>2 DEF TypeOK
<1> QED
  BY <1>1, <1>3, <1>4, JobFacts DEF Fetch, Goto

\* Every step is of one of these kinds.
LEMMA StepKinds ==
    ASSUME [Next]_vars
    PROVE  \/ \E d \in Debates, j \in JobIds : Create(d, j) \/ Resume(d, j)
           \/ \E d \in Debates : Cancel(d)
           \/ \E j \in JobIds : CancelJob(j) \/ CancelJobLost(j)
           \/ \E w \in Workers, j \in JobIds : Fetch(w, j)
           \/ \E w \in Workers : Execute(w)
           \/ \E w \in Workers :
                 Return(w) \/ JobRetried(w) \/ JobFailed(w) \/ Crash(w)
           \/ UNCHANGED vars
BY DEF Next, User, WorkerStep

-----------------------------------------------------------------------------
(* The invariant, part by part.                                            *)

LEMMA InitInv == Init => DebateInv
<1> SUFFICES ASSUME Init PROVE DebateInv
  OBVIOUS
<1>1. TypeOK
  <2>1. AbsentRow \in Row /\ AbsentJob \in Job /\ "idle" \in PcValues
    BY BlankFacts DEF PcValues
  <2>2. 1 \in 1 .. Len(Marks) + 1 /\ 0 \in 0 .. MaxCrashes
    BY DebateAssumption
  <2> QED
    BY <2>1, <2>2 DEF Init, TypeOK
<1>2. StageInv /\ CopyInv /\ HoldInv
  BY DEF Init, StageInv, CopyInv, HoldInv, ActsOnCopy
<1>3. RefInv /\ OneActive /\ QueuedInv
  BY DEF Init, RefInv, OneActive, QueuedInv, AbsentRow, AbsentJob, Active
<1> QED
  BY <1>1, <1>2, <1>3 DEF DebateInv

LEMMA TypeStep ==
    ASSUME DebateInv, [Next]_vars
    PROVE  TypeOK'
<1> USE DEF DebateInv
<1>1. ASSUME NEW d \in Debates, NEW j \in JobIds, Create(d, j) \/ Resume(d, j)
      PROVE  TypeOK'
  <2>1. Defers(d, j)
    BY <1>1, DeferEffect
  <2> QED
    BY <2>1 DEF Defers, TypeOK
<1>2. ASSUME NEW d \in Debates, Cancel(d) PROVE TypeOK'
  <2>1. rows[d].job \in JobIds
    BY <1>2, CancelEffect DEF RefInv
  <2> QED
    BY <1>2, <2>1, CancelEffect DEF TypeOK
<1>3. ASSUME NEW j \in JobIds, CancelJob(j) \/ CancelJobLost(j) PROVE TypeOK'
  BY <1>3, CancelJobEffect DEF TypeOK
<1>4. ASSUME NEW w \in Workers, NEW j \in JobIds, Fetch(w, j) PROVE TypeOK'
  <2>1. "load" \in PcValues
    BY DEF PcValues
  <2>2. pc' = [pc EXCEPT ![w] = "load"] /\ held' = [held EXCEPT ![w] = j]
    BY <1>4, FetchEffect
  <2>3. pc' \in [Workers -> PcValues]
    BY <2>1, <2>2, AssignType DEF TypeOK
  <2>4. held' \in [Workers -> JobIds \cup {NoJob}]
    BY <2>2 DEF TypeOK
  <2>5. /\ jobs' \in [JobIds -> Job]
        /\ UNCHANGED <<rows, cancels, seen, stage, crashes>>
    BY <1>4, FetchEffect
  <2> QED
    BY <2>3, <2>4, <2>5 DEF TypeOK
<1>5. ASSUME NEW w \in Workers, Execute(w) PROVE TypeOK'
  BY <1>5, ExecuteEffect DEF Frame, Writes, TypeOK
<1>6. ASSUME NEW w \in Workers,
             Return(w) \/ JobRetried(w) \/ JobFailed(w) \/ Crash(w)
      PROVE  TypeOK'
  <2>1. Leaves(w)
    BY <1>6, LeaveEffect
  <2>2. 1 \in 1 .. Len(Marks) + 1
    BY DebateAssumption
  <2>3. "idle" \in PcValues
    BY DEF PcValues
  <2>4. /\ pc' \in [Workers -> PcValues]
        /\ held' \in [Workers -> JobIds \cup {NoJob}]
        /\ seen' \in [Workers -> Row]
        /\ stage' \in [Workers -> 1 .. Len(Marks) + 1]
    BY <2>1, <2>2, <2>3, BlankFacts, AssignType DEF Leaves, LetGo, Goto, TypeOK
  <2> QED
    BY <2>1, <2>4 DEF Leaves, TypeOK
<1>7. CASE UNCHANGED vars
  BY <1>7 DEF vars, TypeOK
<1> QED
  BY <1>1, <1>2, <1>3, <1>4, <1>5, <1>6, <1>7, StepKinds

LEMMA StageStep ==
    ASSUME DebateInv, TypeOK', [Next]_vars
    PROVE  StageInv'
<1> USE DEF DebateInv
<1>1. ASSUME NEW w \in Workers, Execute(w) PROVE StageInv'
  <2>1. Frame(w)
    BY <1>1, ExecuteEffect
  <2>2. pc'[w] \in {"check", "mark"} => stage'[w] <= Len(Marks)
    <3> USE DEF TypeOK, Goto, StageInv
    <3>1. CASE Claim(w)
      BY <3>1, DebateAssumption DEF Claim
    <3>2. CASE Check(w)
      BY <3>2 DEF Check
    <3>3. CASE Mark(w)
      BY <3>3, DebateAssumption DEF Mark
    <3>4. CASE ~(Claim(w) \/ Check(w) \/ Mark(w))
      BY <1>1, <3>4 DEF Execute, Load, Drop, ClaimRefused, WorkFails, Save,
                        SaveFails, Stop, Converge
    <3> QED
      BY <3>1, <3>2, <3>3, <3>4
  <2> QED
    BY <2>1, <2>2 DEF Frame, StageInv
<1>2. ASSUME NEW w \in Workers,
             Return(w) \/ JobRetried(w) \/ JobFailed(w) \/ Crash(w)
      PROVE  StageInv'
  <2>1. pc' = [pc EXCEPT ![w] = "idle"] /\ stage' = [stage EXCEPT ![w] = 1]
    BY <1>2, LeaveEffect DEF Leaves, LetGo, Goto
  <2> SUFFICES ASSUME NEW v \in Workers, pc'[v] \in {"check", "mark"}
               PROVE  stage'[v] <= Len(Marks)
    BY DEF StageInv
  <2>2. v # w /\ pc'[v] = pc[v] /\ stage'[v] = stage[v]
    BY <2>1 DEF TypeOK
  <2> QED
    BY <2>2 DEF StageInv
<1>3. ASSUME NEW w \in Workers, NEW j \in JobIds, Fetch(w, j) PROVE StageInv'
  BY <1>3, FetchEffect DEF TypeOK, StageInv
<1>4. CASE UNCHANGED <<pc, stage>>
  BY <1>4 DEF StageInv
<1> QED
  BY <1>1, <1>2, <1>3, <1>4, StepKinds, DeferEffect, CancelEffect,
     CancelJobEffect DEF Defers, vars

LEMMA CopyStep ==
    ASSUME DebateInv, TypeOK', [Next]_vars
    PROVE  CopyInv'
<1> USE DEF DebateInv
<1>1. ASSUME NEW w \in Workers, Execute(w) PROVE CopyInv'
  <2>1. Frame(w)
    BY <1>1, ExecuteEffect
  <2>2. /\ pc'[w] \in ActsOnCopy => ~Canceling(seen'[w])
        /\ pc'[w] = "drop" => seen'[w].status # "canceled"
    <3> USE DEF TypeOK, Goto, CopyInv, ActsOnCopy
    <3>1. CASE Load(w)
      BY <3>1 DEF Load, Canceling
    <3>2. CASE Claim(w)
      <4>1. seen'[w] = Claimed(seen[w]) /\ seen[w] \in Row
        BY <3>2 DEF Claim, Commit
      <4> QED
        BY <3>2, <4>1, ClaimedFacts DEF Claim, Canceling
    <3>3. CASE Check(w)
      BY <3>3 DEF Check
    <3>4. CASE Mark(w)
      <4>1. /\ seen'[w] = Marked(seen[w], Marks[stage[w]])
            /\ seen[w] \in Row /\ ~Canceling(seen[w])
        BY <3>4 DEF Mark, Commit
      <4>2. Marks[stage[w]] \in Nat
        BY <3>4, DebateAssumption DEF Mark, StageInv
      <4> QED
        <5> HIDE DEF TypeOK, Goto, CopyInv, ActsOnCopy
        <5>1. ~Canceling(Marked(seen[w], Marks[stage[w]]))
          BY <4>1, <4>2, MarkedFacts
        <5>2. pc'[w] # "drop"
          BY <3>4 DEF Mark, Goto, TypeOK
        <5> QED
          BY <4>1, <5>1, <5>2
    <3>5. CASE WorkFails(w)
      BY <3>5 DEF WorkFails
    <3>6. CASE Drop(w) \/ ClaimRefused(w) \/ Save(w) \/ SaveFails(w)
                 \/ Stop(w) \/ Converge(w)
      BY <3>6 DEF Drop, ClaimRefused, Save, SaveFails, Stop, Converge
    <3> QED
      BY <1>1, <3>1, <3>2, <3>3, <3>4, <3>5, <3>6 DEF Execute
  <2> QED
    BY <2>1, <2>2 DEF Frame, CopyInv
<1>2. ASSUME NEW w \in Workers,
             Return(w) \/ JobRetried(w) \/ JobFailed(w) \/ Crash(w)
      PROVE  CopyInv'
  <2>1. /\ pc'[w] = "idle"
        /\ \A v \in Workers : v # w => pc'[v] = pc[v] /\ seen'[v] = seen[v]
    BY <1>2, LeaveEffect DEF Leaves, LetGo, Goto, TypeOK
  <2> QED
    BY <2>1 DEF CopyInv, ActsOnCopy
<1>3. ASSUME NEW w \in Workers, NEW j \in JobIds, Fetch(w, j) PROVE CopyInv'
  BY <1>3, FetchEffect DEF TypeOK, CopyInv, ActsOnCopy
<1>4. CASE UNCHANGED <<pc, seen>>
  BY <1>4 DEF CopyInv
<1> QED
  BY <1>1, <1>2, <1>3, <1>4, StepKinds, DeferEffect, CancelEffect,
     CancelJobEffect DEF Defers, vars

LEMMA HoldStep ==
    ASSUME DebateInv, TypeOK', [Next]_vars
    PROVE  HoldInv'
<1> USE DEF DebateInv
<1>1. ASSUME NEW d \in Debates, NEW j \in JobIds, Create(d, j) \/ Resume(d, j)
      PROVE  HoldInv'
  BY <1>1, DeferEffect DEF Defers, HoldInv
<1>2. ASSUME NEW j \in JobIds, CancelJob(j) \/ CancelJobLost(j) PROVE HoldInv'
  BY <1>2, CancelJobEffect DEF HoldInv
<1>3. ASSUME NEW w \in Workers, NEW j \in JobIds, Fetch(w, j) PROVE HoldInv'
  <2>1. /\ pc'[w] = "load" /\ held'[w] = j
        /\ \A v \in Workers : v # w => pc'[v] = pc[v] /\ held'[v] = held[v]
    BY <1>3, FetchEffect DEF TypeOK
  <2>2. \A v \in Workers : v # w /\ pc[v] # "idle" => held[v] # j
    BY <1>3, FetchEffect DEF HoldInv
  <2> QED
    BY <1>3, <2>1, <2>2, FetchEffect DEF HoldInv
<1>4. ASSUME NEW w \in Workers, Execute(w) PROVE HoldInv'
  <2>1. /\ UNCHANGED <<held, jobs>>
        /\ \A v \in Workers : pc'[v] # "idle" => pc[v] # "idle"
    BY <1>4, ExecuteEffect DEF Frame
  <2> QED
    BY <2>1 DEF HoldInv
<1>5. ASSUME NEW w \in Workers,
             Return(w) \/ JobRetried(w) \/ JobFailed(w) \/ Crash(w)
      PROVE  HoldInv'
  <2>1. Leaves(w)
    BY <1>5, LeaveEffect
  <2>2. /\ pc'[w] = "idle"
        /\ \A v \in Workers : v # w => pc'[v] = pc[v] /\ held'[v] = held[v]
    BY <2>1 DEF Leaves, LetGo, Goto, TypeOK
  <2>3. \A v \in Workers : v # w /\ pc[v] # "idle" => jobs'[held[v]] = jobs[held[v]]
    BY <2>1 DEF Leaves, HoldInv
  <2> QED
    BY <2>2, <2>3 DEF HoldInv
<1>6. CASE UNCHANGED <<pc, held, jobs>>
  BY <1>6 DEF HoldInv
<1> QED
  BY <1>1, <1>2, <1>3, <1>4, <1>5, <1>6, StepKinds, CancelEffect DEF vars

LEMMA RefStep ==
    ASSUME DebateInv, TypeOK', [Next]_vars
    PROVE  RefInv'
<1> USE DEF DebateInv
\* A step of the queue that defers no job and forgets none.
<1>0. ASSUME UNCHANGED rows, cancels' \subseteq cancels,
             \A i \in JobIds :
                 /\ jobs'[i].debate = jobs[i].debate
                 /\ jobs'[i].state # "absent" <=> jobs[i].state # "absent"
      PROVE  RefInv'
  BY <1>0 DEF RefInv, TypeOK
<1>1. ASSUME NEW d \in Debates, NEW j \in JobIds, Create(d, j) \/ Resume(d, j)
      PROVE  RefInv'
  <2>1. Defers(d, j)
    BY <1>1, DeferEffect
  <2>2. \A e \in Debates : rows'[e].status # "absent" =>
          /\ rows'[e].job \in JobIds
          /\ jobs'[rows'[e].job].debate = e
          /\ jobs'[rows'[e].job].state # "absent"
    <3>1. jobs'[j].state # "absent"
      BY <2>1 DEF Defers
    <3> QED
      BY <2>1, <3>1 DEF Defers, RefInv
  <2>3. \A i \in JobIds : jobs'[i].state # "absent" =>
          /\ jobs'[i].debate \in Debates
          /\ rows'[jobs'[i].debate].status # "absent"
    BY <2>1 DEF Defers, RefInv
  <2>4. \A i \in cancels' : jobs'[i].state # "absent"
    BY <2>1 DEF Defers, RefInv, TypeOK
  <2>5. \A e \in Debates : rows'[e].status = "absent" => ~rows'[e].cancelReq
    BY <2>1 DEF Defers, RefInv
  <2> QED
    BY <2>2, <2>3, <2>4, <2>5 DEF RefInv
<1>2. ASSUME NEW d \in Debates, Cancel(d) PROVE RefInv'
  BY <1>2, CancelEffect DEF RefInv
<1>3. ASSUME NEW j \in JobIds, CancelJob(j) \/ CancelJobLost(j) PROVE RefInv'
  <2>1. jobs[j].state # "absent"
    BY <1>3, CancelJobEffect DEF RefInv
  <2>2. \A i \in JobIds : /\ jobs'[i].debate = jobs[i].debate
                          /\ jobs'[i].state # "absent" <=> jobs[i].state # "absent"
    BY <1>3, <2>1, CancelJobEffect
  <2> QED
    BY <1>0, <1>3, <2>2, CancelJobEffect
<1>4. ASSUME NEW w \in Workers, NEW j \in JobIds, Fetch(w, j) PROVE RefInv'
  <2>1. \A i \in JobIds : /\ jobs'[i].debate = jobs[i].debate
                          /\ jobs'[i].state # "absent" <=> jobs[i].state # "absent"
    BY <1>4, FetchEffect
  <2> QED
    BY <1>0, <1>4, <2>1, FetchEffect
<1>5. ASSUME NEW w \in Workers, Execute(w) PROVE RefInv'
  <2>1. UNCHANGED <<jobs, cancels>> /\ pc[w] # "idle"
    BY <1>5, ExecuteEffect DEF Frame
  <2>2. Target(w) \in Debates /\ rows[Target(w)].status # "absent"
    BY <2>1, TargetType
  <2>3. \A d \in Debates : /\ rows'[d].job = rows[d].job
                           /\ rows'[d].cancelReq = rows[d].cancelReq
                           /\ rows'[d].status # "absent" <=> rows[d].status # "absent"
    BY <1>5, <2>2, ExecuteEffect DEF Writes, Terminal
  <2> QED
    BY <2>1, <2>3 DEF RefInv
<1>6. ASSUME NEW w \in Workers,
             Return(w) \/ JobRetried(w) \/ JobFailed(w) \/ Crash(w)
      PROVE  RefInv'
  BY <1>0, <1>6, LeaveEffect DEF Leaves
<1>7. CASE UNCHANGED vars
  BY <1>7 DEF vars, RefInv
<1> QED
  BY <1>1, <1>2, <1>3, <1>4, <1>5, <1>6, <1>7, StepKinds

LEMMA OneActiveStep ==
    ASSUME DebateInv, TypeOK', [Next]_vars
    PROVE  OneActive'
<1> USE DEF DebateInv
\* A row may become active only where the index allows it.
<1>1. ASSUME NEW d \in Debates,
             \A e \in Debates : e # d => rows'[e] = rows[e],
             rows'[d].status \in Active =>
                 rows[d].status \in Active \/ IndexAllows(d, rows'[d].status)
      PROVE  OneActive'
  BY <1>1 DEF OneActive, IndexAllows
<1>2. ASSUME NEW d \in Debates, NEW j \in JobIds, Create(d, j) \/ Resume(d, j)
      PROVE  OneActive'
  BY <1>1, <1>2, DeferEffect DEF Defers
<1>3. ASSUME NEW d \in Debates, Cancel(d) PROVE OneActive'
  BY <1>1, <1>3, CancelEffect DEF Active
<1>4. ASSUME NEW w \in Workers, Execute(w) PROVE OneActive'
  <2>1. Writes(w) /\ pc[w] # "idle"
    BY <1>4, ExecuteEffect DEF Frame
  <2>2. Target(w) \in Debates
    BY <2>1, TargetType
  <2> QED
    BY <1>1, <2>1, <2>2 DEF Writes
<1>5. CASE UNCHANGED rows
  BY <1>5 DEF OneActive
<1> QED
  BY <1>2, <1>3, <1>4, <1>5, StepKinds, CancelJobEffect, FetchEffect,
     LeaveEffect DEF Leaves, vars

\* The clause of QueuedInv about the worker that holds the job.
FirstCommitAhead(v, d) ==
    pc[v] # "idle" /\ held[v] = rows[d].job
        => \/ pc[v] = "load"
           \/ pc[v] = "claim" /\ seen[v].status = "queued"

\* An execution that holds the job of a queued debate finds it queued, or
\* makes it something else.
LEMMA QueuedExecute ==
    ASSUME DebateInv, NEW w \in Workers, Execute(w), NEW d \in Debates,
           rows[d].status = "queued", rows'[d].status = "queued",
           held[w] = rows[d].job
    PROVE  pc'[w] = "load" \/ (pc'[w] = "claim" /\ seen'[w].status = "queued")
<1> USE DEF DebateInv
<1>1. pc[w] # "idle"
  BY ExecuteEffect DEF Frame
<1>2. Target(w) = d
  BY DEF RefInv, Target
<1>3. ~rows[d].cancelReq
  BY DEF QueuedInv
<1>4. CASE pc[w] = "load"
  <2>1. Load(w)
    BY <1>4 DEF Execute, Load, Drop, Claim, ClaimRefused, Check, Mark,
                WorkFails, Save, SaveFails, Stop, Converge
  <2> QED
    BY <1>2, <1>3, <2>1 DEF Load, Goto, TypeOK
<1>5. CASE pc[w] = "claim" /\ seen[w].status = "queued"
  <2>1. Claim(w) \/ ClaimRefused(w)
    BY <1>5 DEF Execute, Load, Drop, Claim, ClaimRefused, Check, Mark,
                WorkFails, Save, SaveFails, Stop, Converge
  <2>2. seen[w] \in Row /\ rows[d] \in Row
    BY DEF TypeOK
  <2>3. Flush(seen[w], Claimed(seen[w]), rows[d]).status = "running"
    BY <1>5, <2>2, ClaimedFacts, FlushFacts
  <2>4. IndexAllows(d, "running")
    BY DEF OneActive, IndexAllows, Active
  <2>5. Claim(w)
    BY <1>2, <2>1, <2>3, <2>4 DEF ClaimRefused
  <2>6. rows'[d].status = "running"
    BY <1>2, <2>2, <2>3, <2>5 DEF Claim, Commit, TypeOK
  <2> QED
    BY <2>6
<1> QED
  BY <1>1, <1>4, <1>5 DEF QueuedInv

LEMMA QueuedStep ==
    ASSUME DebateInv, TypeOK', RefInv', [Next]_vars
    PROVE  QueuedInv'
<1> USE DEF DebateInv
<1> DEFINE Q(d) == /\ ~rows[d].cancelReq
                   /\ rows[d].job \notin cancels
                   /\ jobs[rows[d].job].state \in {"todo", "doing"}
                   /\ \A v \in Workers : FirstCommitAhead(v, d)
<1>1. QueuedInv <=> \A d \in Debates : rows[d].status = "queued" => Q(d)
  BY DEF QueuedInv, FirstCommitAhead
<1>2. QueuedInv' <=> \A d \in Debates : rows'[d].status = "queued" => Q(d)'
  BY DEF QueuedInv, FirstCommitAhead
<1>3. \A d \in Debates : rows[d].status = "queued" =>
          /\ rows[d].job \in JobIds
          /\ jobs[rows[d].job].debate = d
          /\ jobs[rows[d].job].state # "absent"
  BY DEF RefInv
<1>4. ASSUME NEW d \in Debates, NEW j \in JobIds, Create(d, j) \/ Resume(d, j)
      PROVE  QueuedInv'
  <2>1. Defers(d, j)
    BY <1>4, DeferEffect
  <2>2. j \notin cancels
    BY <2>1 DEF Defers, RefInv
  <2>3. \A v \in Workers : pc[v] # "idle" => held[v] # j
    BY <2>1 DEF Defers, HoldInv
  <2>4. Q(d)'
    BY <2>1, <2>2, <2>3 DEF Defers, FirstCommitAhead
  <2>5. ASSUME NEW e \in Debates, e # d, rows'[e].status = "queued"
        PROVE  Q(e)'
    <3>1. Q(e) /\ rows'[e] = rows[e] /\ rows[e].job # j
      BY <1>1, <1>3, <2>1, <2>5 DEF Defers
    <3>2. jobs'[rows[e].job] = jobs[rows[e].job]
      BY <1>3, <2>1, <2>5, <3>1 DEF Defers
    <3> QED
      BY <2>1, <3>1, <3>2 DEF Defers, FirstCommitAhead
  <2> QED
    BY <1>2, <2>4, <2>5
<1>5. ASSUME NEW d \in Debates, Cancel(d) PROVE QueuedInv'
  <2>1. ASSUME NEW e \in Debates, rows'[e].status = "queued" PROVE Q(e)'
    <3>1. e # d /\ rows'[e] = rows[e] /\ rows[d].status # "absent"
      BY <1>5, <2>1, CancelEffect
    <3>2. Q(e) /\ rows[e].job # rows[d].job
      BY <1>1, <1>3, <2>1, <3>1 DEF RefInv
    <3> QED
      BY <1>5, <3>1, <3>2, CancelEffect DEF FirstCommitAhead
  <2> QED
    BY <1>2, <2>1
<1>6. ASSUME NEW j \in JobIds, CancelJob(j) \/ CancelJobLost(j) PROVE QueuedInv'
  <2>1. ASSUME NEW e \in Debates, rows'[e].status = "queued" PROVE Q(e)'
    <3>1. Q(e) /\ rows[e].job # j /\ rows' = rows
      BY <1>1, <1>6, <2>1, CancelJobEffect
    <3>2. jobs'[rows[e].job] = jobs[rows[e].job]
      BY <1>3, <1>6, <2>1, <3>1, CancelJobEffect
    <3> QED
      BY <1>6, <3>1, <3>2, CancelJobEffect DEF FirstCommitAhead
  <2> QED
    BY <1>2, <2>1
<1>7. ASSUME NEW w \in Workers, NEW j \in JobIds, Fetch(w, j) PROVE QueuedInv'
  <2>1. ASSUME NEW e \in Debates, rows'[e].status = "queued" PROVE Q(e)'
    <3>1. Q(e) /\ rows' = rows /\ cancels' = cancels /\ seen' = seen
      BY <1>1, <1>7, <2>1, FetchEffect
    <3>2. jobs'[rows[e].job].state \in {"todo", "doing"}
      BY <1>3, <1>7, <2>1, <3>1, FetchEffect
    <3>3. \A v \in Workers : FirstCommitAhead(v, e)'
      BY <1>7, <3>1, FetchEffect DEF FirstCommitAhead, TypeOK
    <3> QED
      BY <3>1, <3>2, <3>3
  <2> QED
    BY <1>2, <2>1
<1>8. ASSUME NEW w \in Workers, Execute(w) PROVE QueuedInv'
  <2>1. Frame(w) /\ Writes(w)
    BY <1>8, ExecuteEffect
  <2>2. ASSUME NEW e \in Debates, rows'[e].status = "queued" PROVE Q(e)'
    <3>1. rows[e].status = "queued"
      BY <2>1, <2>2 DEF Writes, Terminal, Active, IndexAllows, Frame
    <3>2. Q(e) /\ rows'[e].job = rows[e].job /\ ~rows'[e].cancelReq
      BY <1>1, <2>1, <3>1 DEF Writes
    <3>3. ASSUME NEW v \in Workers PROVE FirstCommitAhead(v, e)'
      <4>1. CASE v = w
        BY <1>8, <2>1, <2>2, <3>1, <3>2, <4>1, QueuedExecute
        DEF FirstCommitAhead, Frame
      <4>2. CASE v # w
        BY <2>1, <3>2, <4>2 DEF FirstCommitAhead, Frame
      <4> QED
        BY <4>1, <4>2
    <3> QED
      BY <2>1, <3>2, <3>3 DEF Frame
  <2> QED
    BY <1>2, <2>2
<1>9. ASSUME NEW w \in Workers,
             Return(w) \/ JobRetried(w) \/ JobFailed(w) \/ Crash(w)
      PROVE  QueuedInv'
  <2>1. Leaves(w)
    BY <1>9, LeaveEffect
  <2>2. ASSUME NEW e \in Debates, rows'[e].status = "queued" PROVE Q(e)'
    <3>1. Q(e) /\ rows' = rows /\ cancels' = cancels
      BY <1>1, <2>1, <2>2 DEF Leaves
    <3>2. jobs'[rows[e].job] = jobs[rows[e].job]
      <4>1. rows[e].job \in JobIds
        BY <1>3, <2>2, <3>1
      <4>2. rows[e].job # held[w] \/ pc[w] \notin {"raised", "returned"}
        BY <2>1, <3>1 DEF Leaves, FirstCommitAhead
      <4> QED
        BY <2>1, <4>1, <4>2 DEF Leaves
    <3>3. /\ pc'[w] = "idle"
          /\ \A v \in Workers : v # w =>
                pc'[v] = pc[v] /\ held'[v] = held[v] /\ seen'[v] = seen[v]
      BY <2>1 DEF Leaves, LetGo, Goto, TypeOK
    <3> QED
      BY <3>1, <3>2, <3>3 DEF FirstCommitAhead
  <2> QED
    BY <1>2, <2>2
<1>10. CASE UNCHANGED vars
  BY <1>10 DEF vars, QueuedInv
<1> QED
  BY <1>4, <1>5, <1>6, <1>7, <1>8, <1>9, <1>10, StepKinds

-----------------------------------------------------------------------------
(* Theorems.                                                               *)

LEMMA InvStep == DebateInv /\ [Next]_vars => DebateInv'
  BY TypeStep, StageStep, CopyStep, HoldStep, RefStep, OneActiveStep,
     QueuedStep DEF DebateInv

\* The invariant holds in every reachable state.
THEOREM DebateInvariant == Spec => []DebateInv
  BY InitInv, InvStep, PTL DEF Spec

\* The variables keep their types: no step writes a value outside the
\* columns' domains or calls update_stage past the last mark.
THEOREM DebateTypeOK == Spec => []TypeOK
<1>1. DebateInv => TypeOK
  BY DEF DebateInv
<1> QED
  BY <1>1, DebateInvariant, PTL

\* At most one debate of an owner on an instrument is queued or running,
\* whatever create, resume, retries, cancels and crashes do together.
THEOREM DebateOneActive == Spec => []OneActive
<1>1. DebateInv => OneActive
  BY DEF DebateInv
<1> QED
  BY <1>1, DebateInvariant, PTL

\* A queued debate always has the job its queue_job_id names, waiting or
\* fetched and not recorded as ended: no late cancel_job, retry or return
\* takes it away.
THEOREM DebateQueuedHasJob == Spec => []QueuedHasJob
<1>1. DebateInv => QueuedHasJob
  BY DEF DebateInv, RefInv, QueuedInv, QueuedHasJob
<1> QED
  BY <1>1, DebateInvariant, PTL

\* No write of a worker, stale copy or not, erases a cancel request; only a
\* resume of the failed debate withdraws it.
THEOREM DebateCancelRequestSurvives == Spec => CancelRequestSurvives
<1> DEFINE Kept == \A d \in Debates :
              rows[d].cancelReq /\ ~rows'[d].cancelReq
                  => rows[d].status = "failed" /\ rows'[d].status = "queued"
<1>1. DebateInv /\ [Next]_vars => Kept
  <2> SUFFICES ASSUME DebateInv, [Next]_vars PROVE Kept
    OBVIOUS
  <2> USE DEF DebateInv
  <2>1. ASSUME NEW d \in Debates, NEW j \in JobIds, Create(d, j) \/ Resume(d, j)
        PROVE  Kept
    BY <2>1, DeferEffect DEF Defers, RefInv
  <2>2. ASSUME NEW d \in Debates, Cancel(d) PROVE Kept
    BY <2>2, CancelEffect
  <2>3. ASSUME NEW w \in Workers, Execute(w) PROVE Kept
    BY <2>3, ExecuteEffect DEF Writes
  <2>4. CASE UNCHANGED rows
    BY <2>4
  <2> QED
    BY <2>1, <2>2, <2>3, <2>4, StepKinds, CancelJobEffect, FetchEffect,
       LeaveEffect DEF Leaves, vars
<1> QED
  BY <1>1, DebateInvariant, PTL DEF Spec, CancelRequestSurvives

\* A canceled debate becomes something else only through an execution that
\* still works from a copy read before the cancel.
THEOREM DebateCanceledUnlessBlind == Spec => CanceledUnlessBlind
<1> DEFINE Kept == \A d \in Debates :
              rows[d].status = "canceled" /\ rows'[d].status # "canceled"
                  => BlindTo(d) # {}
<1>1. DebateInv /\ [Next]_vars => Kept
  <2> SUFFICES ASSUME DebateInv, [Next]_vars PROVE Kept
    OBVIOUS
  <2> USE DEF DebateInv
  <2>1. ASSUME NEW d \in Debates, NEW j \in JobIds, Create(d, j) \/ Resume(d, j)
        PROVE  Kept
    BY <2>1, DeferEffect DEF Defers
  <2>2. ASSUME NEW d \in Debates, Cancel(d) PROVE Kept
    BY <2>2, CancelEffect
  <2>3. ASSUME NEW w \in Workers, Execute(w) PROVE Kept
    <3>1. ASSUME NEW d \in Debates,
                 rows[d].status = "canceled", rows'[d].status # "canceled"
          PROVE  BlindTo(d) # {}
      <4>1. Target(w) = d /\ pc[w] \in ActsOnCopy
        BY <2>3, <3>1, ExecuteEffect DEF Writes
      <4>2. w \in BlindTo(d)
        BY <4>1 DEF CopyInv, ActsOnCopy, BlindTo
      <4> QED
        BY <4>2
    <3> QED
      BY <3>1
  <2>4. CASE UNCHANGED rows
    BY <2>4
  <2> QED
    BY <2>1, <2>2, <2>3, <2>4, StepKinds, CancelJobEffect, FetchEffect,
       LeaveEffect DEF Leaves, vars
<1> QED
  BY <1>1, DebateInvariant, PTL DEF Spec, CanceledUnlessBlind

\* With one worker, an execution reads its row as done only to return: the
\* row it works on is not done before its own last write.
LEMMA DoneStep ==
    ASSUME \A v, w \in Workers : v = w, DebateInv, DoneInv, [Next]_vars
    PROVE  DoneInv'
<1> USE DEF DebateInv
<1> DEFINE Busy == ActsOnCopy \cup {"drop", "stopping", "errorFresh"}
<1>1. ASSUME NEW d \in Debates, NEW j \in JobIds, Create(d, j) \/ Resume(d, j)
      PROVE  DoneInv'
  <2>1. Defers(d, j)
    BY <1>1, DeferEffect
  <2>2. \A w \in Workers : pc[w] \in Busy => held[w] \in JobIds /\ held[w] # j
    BY <2>1 DEF Defers, HoldInv, ActsOnCopy
  <2> QED
    BY <2>1, <2>2 DEF Defers, DoneInv, Target, HoldInv, RefInv, ActsOnCopy
<1>2. ASSUME NEW d \in Debates, Cancel(d) PROVE DoneInv'
  BY <1>2, CancelEffect DEF DoneInv, Target, RefInv, HoldInv, ActsOnCopy
<1>3. ASSUME NEW j \in JobIds, CancelJob(j) \/ CancelJobLost(j) PROVE DoneInv'
  BY <1>3, CancelJobEffect DEF DoneInv, Target, HoldInv, ActsOnCopy
<1>4. ASSUME NEW w \in Workers, NEW j \in JobIds, Fetch(w, j) PROVE DoneInv'
  <2>1. pc'[w] = "load"
    BY <1>4, FetchEffect DEF TypeOK
  <2> QED
    BY <2>1 DEF DoneInv, ActsOnCopy
<1>5. ASSUME NEW w \in Workers, Execute(w) PROVE DoneInv'
  <2> DEFINE d == Target(w)
  <2>1. Frame(w) /\ Writes(w) /\ d \in Debates /\ rows[d] \in Row /\ seen[w] \in Row
    BY <1>5, ExecuteEffect, TargetType DEF Frame, TypeOK
  <2>2. DoneInv' <=> (pc'[w] \in Busy => rows'[d].status # "done")
    BY <2>1 DEF DoneInv, Frame, Target
  <2>3. \A label \in PcValues : Goto(w, label) => pc'[w] = label
    BY DEF Goto, TypeOK
  <2>4. {"drop", "claim", "check", "mark", "save", "stopping", "errorFresh",
         "errorStale", "returned", "raised"} \subseteq PcValues
    BY DEF PcValues
  <2>5. CASE Load(w)
    BY <2>2, <2>3, <2>4, <2>5 DEF Load, ActsOnCopy
  <2>6. CASE Claim(w)
    <3>1. rows'[d] = Flush(seen[w], Claimed(seen[w]), rows[d])
      BY <2>1, <2>6 DEF Claim, Commit, TypeOK
    <3>2. rows[d].status # "done"
      BY <2>6 DEF Claim, DoneInv, ActsOnCopy
    <3> QED
      BY <2>1, <2>2, <3>1, <3>2, ClaimedFacts, FlushFacts
  <2>7. CASE Mark(w)
    <3> DEFINE new == Marked(seen[w], Marks[stage[w]])
    <3>1. rows'[d] = Flush(seen[w], new, rows[d])
      BY <2>1, <2>7 DEF Mark, Commit, TypeOK
    <3>2. Marks[stage[w]] \in Nat
      BY <2>7, DebateAssumption DEF Mark, TypeOK, StageInv
    <3>3. new \in Row /\ new.status = seen[w].status
      BY <2>1, <3>2, MarkedFacts
    <3>4. rows[d].status # "done"
      BY <2>7 DEF Mark, DoneInv, ActsOnCopy
    <3> HIDE DEF new
    <3> QED
      BY <2>1, <2>2, <3>1, <3>3, <3>4, FlushFacts
  <2>8. CASE Check(w) \/ WorkFails(w) \/ SaveFails(w)
    BY <2>2, <2>8 DEF Check, WorkFails, SaveFails, DoneInv, ActsOnCopy
  <2>9. CASE Drop(w) \/ ClaimRefused(w) \/ Save(w) \/ Stop(w) \/ Converge(w)
    <3>1. pc'[w] \in {"returned", "raised"}
      BY <2>3, <2>4, <2>9 DEF Drop, ClaimRefused, Save, Stop, Converge
    <3> QED
      BY <2>2, <3>1 DEF ActsOnCopy
  <2> QED
    BY <1>5, <2>5, <2>6, <2>7, <2>8, <2>9 DEF Execute
<1>6. ASSUME NEW w \in Workers,
             Return(w) \/ JobRetried(w) \/ JobFailed(w) \/ Crash(w)
      PROVE  DoneInv'
  <2>1. pc'[w] = "idle"
    BY <1>6, LeaveEffect DEF Leaves, LetGo, Goto, TypeOK
  <2> QED
    BY <2>1 DEF DoneInv, ActsOnCopy
<1>7. CASE UNCHANGED vars
  BY <1>7 DEF vars, DoneInv, Target
<1> QED
  BY <1>1, <1>2, <1>3, <1>4, <1>5, <1>6, <1>7, StepKinds

\* With the one worker that docker-compose.yml starts, the row of a finished
\* debate, report included, is never written again: not by a pending retry,
\* a resumed job, a redelivery or a cancel.  (With two workers it may be:
\* both can have loaded the row before the first of them finished.)
THEOREM DebateDoneIsFinal ==
    ASSUME \A v, w \in Workers : v = w
    PROVE  Spec => DoneIsFinal
<1> DEFINE Kept == \A d \in Debates :
              rows[d].status = "done" => rows'[d] = rows[d]
<1>1. Init => DoneInv
  BY DEF Init, DoneInv, ActsOnCopy
<1>2. DebateInv /\ DoneInv /\ [Next]_vars => DoneInv'
  BY DoneStep
<1>3. DebateInv /\ DoneInv /\ [Next]_vars => Kept
  <2> SUFFICES ASSUME DebateInv, DoneInv, [Next]_vars PROVE Kept
    OBVIOUS
  <2> USE DEF DebateInv
  <2>1. ASSUME NEW d \in Debates, NEW j \in JobIds, Create(d, j) \/ Resume(d, j)
        PROVE  Kept
    BY <2>1, DeferEffect DEF Defers
  <2>2. ASSUME NEW d \in Debates, Cancel(d) PROVE Kept
    BY <2>2, CancelEffect
  <2>3. ASSUME NEW w \in Workers, Execute(w) PROVE Kept
    <3>1. Writes(w)
      BY <2>3, ExecuteEffect
    <3>2. CASE pc[w] \in ActsOnCopy \cup {"drop", "stopping", "errorFresh"}
      BY <3>1, <3>2 DEF Writes, DoneInv
    <3>3. CASE pc[w] \notin ActsOnCopy \cup {"drop", "stopping", "errorFresh"}
      BY <2>3, <3>3 DEF Execute, Load, Drop, Claim, ClaimRefused, Check, Mark,
           WorkFails, Save, SaveFails, Stop, Converge, ActsOnCopy
    <3> QED
      BY <3>2, <3>3
  <2>4. CASE UNCHANGED rows
    BY <2>4
  <2> QED
    BY <2>1, <2>2, <2>3, <2>4, StepKinds, CancelJobEffect, FetchEffect,
       LeaveEffect DEF Leaves, vars
<1> QED
  BY <1>1, <1>2, <1>3, DebateInvariant, PTL DEF Spec, DoneIsFinal

-----------------------------------------------------------------------------
(* DebateLifecycle implements DebateOutcome for every value of the         *)
(* constants.  The mapped variables are named here; every kind of step of  *)
(* the lifecycle is shown to be a step of DebateOutcome or to leave them.  *)

Shown == [d \in Debates |-> rows[d].status]
Wants == [d \in Debates |-> rows[d].cancelReq]
On    == [w \in Workers |-> IF pc[w] = "idle" THEN NoDebate ELSE Target(w)]
Know  == [w \in Workers |-> Knowledge(w)]

Abstract == Outcome!Next \/ UNCHANGED <<Shown, Wants, On, Know>>

LEMMA DeferMaps ==
    ASSUME DebateInv, NEW d \in Debates, NEW j \in JobIds,
           Create(d, j) \/ Resume(d, j)
    PROVE  Abstract
<1>1. Defers(d, j) /\ TypeOK /\ RefInv /\ HoldInv
  BY DeferEffect DEF DebateInv
<1>2. Shown' = [Shown EXCEPT ![d] = "queued"]
  BY <1>1 DEF Defers, Shown, TypeOK
<1>3. UNCHANGED Know
  BY <1>1 DEF Defers, Know, Knowledge
<1>4. \A w \in Workers : pc[w] # "idle" => held[w] \in JobIds /\ held[w] # j
  BY <1>1 DEF Defers, HoldInv
<1>5. UNCHANGED On
  BY <1>1, <1>4 DEF Defers, On, Target
<1>6. CASE Create(d, j)
  <2>1. rows[d].status = "absent" /\ ~rows[d].cancelReq
    BY <1>1, <1>6 DEF Create, RefInv
  <2>2. UNCHANGED Wants
    BY <1>1, <2>1 DEF Defers, Wants, TypeOK, Row
  <2>3. Outcome!Submit(d)
    BY <1>2, <1>3, <1>5, <2>1, <2>2 DEF Outcome!Submit, Shown, Wants, On, Know
  <2> QED
    BY <2>3 DEF Abstract, Outcome!Next
<1>7. CASE Resume(d, j)
  <2>1. rows[d].status = "failed"
    BY <1>7 DEF Resume
  <2>2. Wants' = [Wants EXCEPT ![d] = FALSE]
    BY <1>1 DEF Defers, Wants, TypeOK, Row
  <2>3. Outcome!Resubmit(d)
    BY <1>2, <1>3, <1>5, <2>1, <2>2 DEF Outcome!Resubmit, Shown, Wants, On, Know
  <2> QED
    BY <2>3 DEF Abstract, Outcome!Next
<1> QED
  BY <1>6, <1>7

LEMMA CancelMaps ==
    ASSUME DebateInv, NEW d \in Debates, Cancel(d)
    PROVE  Abstract
<1>1. TypeOK
  BY DEF DebateInv
<1>2. Shown' = [Shown EXCEPT ![d] = "canceled"]
  BY <1>1, CancelEffect DEF Shown, TypeOK
<1>3. Wants' = [Wants EXCEPT ![d] = TRUE]
  BY <1>1, CancelEffect DEF Wants, TypeOK, Row
<1>4. UNCHANGED <<On, Know>>
  BY <1>1, CancelEffect DEF On, Know, Knowledge, Target
<1>5. rows[d].status \in {"queued", "running", "canceled"}
  BY <1>1, CancelEffect DEF TypeOK, Row, Statuses, Active, Terminal
<1>6. Outcome!Cancel(d)
  BY <1>2, <1>3, <1>4, <1>5 DEF Outcome!Cancel, Shown, Wants, On, Know
<1> QED
  BY <1>6 DEF Abstract, Outcome!Next

LEMMA CancelJobMaps ==
    ASSUME DebateInv, NEW j \in JobIds, CancelJob(j) \/ CancelJobLost(j)
    PROVE  Abstract
<1>1. TypeOK /\ HoldInv
  BY DEF DebateInv
<1>2. UNCHANGED <<Shown, Wants, Know>>
  BY <1>1, CancelJobEffect DEF Shown, Wants, Know, Knowledge
<1>3. UNCHANGED On
  BY <1>1, CancelJobEffect DEF On, Target, HoldInv
<1> QED
  BY <1>2, <1>3 DEF Abstract

LEMMA FetchMaps ==
    ASSUME DebateInv, NEW w \in Workers, NEW j \in JobIds, Fetch(w, j)
    PROVE  Abstract
<1>1. TypeOK /\ HoldInv /\ RefInv
  BY DEF DebateInv
<1>2. UNCHANGED <<Shown, Wants>>
  BY <1>1, FetchEffect DEF Shown, Wants
<1>3. /\ pc[w] = "idle" /\ pc'[w] = "load" /\ held'[w] = j
      /\ \A v \in Workers : v # w => pc'[v] = pc[v] /\ held'[v] = held[v]
  BY <1>1, FetchEffect DEF TypeOK
<1>4. UNCHANGED Know
  BY <1>3 DEF Know, Knowledge, ActsOnCopy
<1>5. jobs[j].debate \in Debates /\ jobs'[j].debate = jobs[j].debate
  BY <1>1, FetchEffect DEF RefInv
<1>6. \A v \in Workers : pc[v] # "idle" => jobs'[held[v]].debate = jobs[held[v]].debate
  BY <1>1, FetchEffect DEF HoldInv
<1>7. On' = [On EXCEPT ![w] = jobs[j].debate] /\ On[w] = NoDebate
  BY <1>3, <1>5, <1>6 DEF On, Target
<1>8. PICK d \in Debates : d = jobs[j].debate
  BY <1>5
<1>9. Outcome!Engage(w, d)
  BY <1>2, <1>4, <1>7, <1>8 DEF Outcome!Engage, Shown, Wants, On, Know
<1> QED
  BY <1>9 DEF Abstract, Outcome!Next

LEMMA LeaveMaps ==
    ASSUME DebateInv, NEW w \in Workers,
           Return(w) \/ JobRetried(w) \/ JobFailed(w) \/ Crash(w)
    PROVE  Abstract
<1>1. TypeOK /\ HoldInv /\ Leaves(w)
  BY LeaveEffect DEF DebateInv
<1>2. UNCHANGED <<Shown, Wants>>
  BY <1>1 DEF Leaves, Shown, Wants
<1>3. /\ pc'[w] = "idle"
      /\ \A v \in Workers : v # w => pc'[v] = pc[v] /\ held'[v] = held[v]
  BY <1>1 DEF Leaves, LetGo, Goto, TypeOK
<1>4. Know' = [Know EXCEPT ![w] = "blank"]
  BY <1>3 DEF Know, Knowledge, ActsOnCopy
<1>5. \A v \in Workers : pc[v] # "idle" => jobs'[held[v]].debate = jobs[held[v]].debate
  BY <1>1 DEF Leaves, HoldInv
<1>6. On' = [On EXCEPT ![w] = NoDebate]
  BY <1>3, <1>5 DEF On, Target
<1>7. Outcome!Leave(w)
  BY <1>2, <1>4, <1>6 DEF Outcome!Leave, Shown, Wants, On, Know
<1> QED
  BY <1>7 DEF Abstract, Outcome!Next

\* What a step of execute_debate does to the mapped variables: the debate's
\* status becomes s and the worker's knowledge k, all else stays.
Does(w, s, k) ==
    /\ Shown' = [Shown EXCEPT ![Target(w)] = s]
    /\ Know' = [Know EXCEPT ![w] = k]
    /\ UNCHANGED <<Wants, On>>

LEMMA ExecuteFrame ==
    ASSUME DebateInv, NEW w \in Workers, Execute(w)
    PROVE  /\ Target(w) \in Debates /\ rows[Target(w)] \in Row
           /\ seen[w] \in Row
           /\ On[w] = Target(w) /\ Know[w] = Knowledge(w)
           /\ Does(w, rows'[Target(w)].status, Know'[w])
<1>1. TypeOK /\ HoldInv /\ RefInv /\ Frame(w) /\ Writes(w)
  BY ExecuteEffect DEF DebateInv
<1>2. Target(w) \in Debates /\ rows[Target(w)] \in Row /\ seen[w] \in Row
  BY <1>1, TargetType DEF Frame, TypeOK
<1>3. Shown' = [Shown EXCEPT ![Target(w)] = rows'[Target(w)].status]
  BY <1>1, <1>2 DEF Writes, Shown
<1>4. UNCHANGED Wants
  BY <1>1 DEF Writes, Wants
<1>5. UNCHANGED On /\ On[w] = Target(w)
  BY <1>1 DEF Frame, On, Target
<1>6. Know' = [Know EXCEPT ![w] = Know'[w]] /\ Know[w] = Knowledge(w)
  BY <1>1 DEF Frame, Know, Knowledge
<1> QED
  BY <1>2, <1>3, <1>4, <1>5, <1>6 DEF Does

\* The abstract actions of an execution, in terms of Does.
LEMMA AbstractSteps ==
    ASSUME DebateInv, NEW w \in Workers, Target(w) \in Debates,
           On[w] = Target(w), Know[w] = Knowledge(w), NEW s, NEW k,
           Does(w, s, k)
    PROVE  LET was == rows[Target(w)].status
               off == Canceling(rows[Target(w)])
           IN
           /\ s = was /\ k = Knowledge(w) => Abstract
           /\ s = was /\ Knowledge(w) \in {"blank", "live"}
                /\ k = (IF off THEN "stop" ELSE "live") => Abstract
           /\ s = was /\ Knowledge(w) = "live" /\ k \in {"careful", "blank"}
                => Abstract
           /\ s = "running" /\ Knowledge(w) = "live" /\ k = "live" => Abstract
           /\ s \in {"done", "failed"} /\ Knowledge(w) = "live" /\ k = "blank"
                => Abstract
           /\ s = "canceled" /\ Knowledge(w) = "stop" /\ k = "blank" => Abstract
           /\ s = (IF off THEN "canceled" ELSE "failed")
                /\ Knowledge(w) = "careful" /\ k = "blank" => Abstract
<1> DEFINE d   == Target(w)
           was == rows[d].status
           off == Canceling(rows[d])
<1> USE DEF Abstract, Outcome!Next
<1>1. s = was => Shown' = Shown
  BY DEF Does, Shown
<1>2. k = Knowledge(w) => Know' = Know
  BY DEF Does, Know
<1>3. Target(w) # NoDebate
  BY DebateAssumption
<1>4. Outcome!Withdrawn(d) <=> off
  BY DEF Outcome!Withdrawn, Canceling
<1>5. s = was /\ k = Knowledge(w) => Abstract
  BY <1>1, <1>2 DEF Does
<1>6. s = was /\ Knowledge(w) \in {"blank", "live"}
        /\ k = (IF off THEN "stop" ELSE "live") => Outcome!Look(w)
  BY <1>1, <1>3, <1>4 DEF Does, Outcome!Look, Shown, Wants, On, Know
<1>7. s = was /\ Knowledge(w) = "live" /\ k \in {"careful", "blank"}
        => Outcome!Recoil(w)
  BY <1>1 DEF Does, Outcome!Recoil, Shown, Wants, On, Know
<1>8. s = "running" /\ Knowledge(w) = "live" /\ k = "live" => Outcome!Begin(w)
  BY <1>2 DEF Does, Outcome!Begin, Shown, Wants, On, Know
<1>9. s \in {"done", "failed"} /\ Knowledge(w) = "live" /\ k = "blank"
        => Outcome!FinishOrFail(w)
  BY DEF Does, Outcome!FinishOrFail, Outcome!Decide, Shown, Wants, On, Know
<1>10. s = "canceled" /\ Knowledge(w) = "stop" /\ k = "blank"
        => Outcome!Settle(w)
  BY DEF Does, Outcome!Settle, Outcome!Decide, Shown, Wants, On, Know
<1>11. s = (IF off THEN "canceled" ELSE "failed")
         /\ Knowledge(w) = "careful" /\ k = "blank" => Outcome!GiveUp(w)
  BY <1>4 DEF Does, Outcome!GiveUp, Outcome!Decide, Shown, Wants, On, Know
<1> QED
  BY <1>5, <1>6, <1>7, <1>8, <1>9, <1>10, <1>11

LEMMA ExecuteMaps ==
    ASSUME DebateInv, NEW w \in Workers, Execute(w)
    PROVE  Abstract
<1> DEFINE d   == Target(w)
           was == rows[d].status
           s   == rows'[d].status
           off == Canceling(rows[d])
           k   == Know'[w]
<1>1. /\ d \in Debates /\ rows[d] \in Row /\ seen[w] \in Row
      /\ On[w] = d /\ Know[w] = Knowledge(w)
      /\ Does(w, s, k)
  BY ExecuteFrame
<1>2. TypeOK /\ CopyInv
  BY DEF DebateInv
<1>3. /\ s = was /\ k = Knowledge(w) => Abstract
      /\ s = was /\ Knowledge(w) \in {"blank", "live"}
           /\ k = (IF off THEN "stop" ELSE "live") => Abstract
      /\ s = was /\ Knowledge(w) = "live" /\ k \in {"careful", "blank"}
           => Abstract
      /\ s = "running" /\ Knowledge(w) = "live" /\ k = "live" => Abstract
      /\ s \in {"done", "failed"} /\ Knowledge(w) = "live" /\ k = "blank"
           => Abstract
      /\ s = "canceled" /\ Knowledge(w) = "stop" /\ k = "blank" => Abstract
      /\ s = (IF off THEN "canceled" ELSE "failed")
           /\ Knowledge(w) = "careful" /\ k = "blank" => Abstract
  <2> HIDE DEF s, k
  <2> QED
    BY <1>1, AbstractSteps
<1>4. \A label \in PcValues : Goto(w, label) => pc'[w] = label
  BY <1>2 DEF Goto, TypeOK
<1>5. /\ {"load", "drop", "claim", "check", "mark", "save", "stopping"} \subseteq PcValues
      /\ {"errorFresh", "errorStale", "returned", "raised"} \subseteq PcValues
      /\ {"canceled", "done", "failed"} \subseteq Statuses
  BY DEF PcValues, Statuses, Terminal
<1>6. UNCHANGED rows => s = was
  OBVIOUS
\* The status after a flush of copy new, loaded as old.
<1>7. ASSUME NEW old \in Row, NEW new \in Row,
             rows' = [rows EXCEPT ![d] = Flush(old, new, rows[d])]
      PROVE  s = IF new.status = old.status THEN was ELSE new.status
  <2>1. s = Flush(old, new, rows[d]).status
    BY <1>1, <1>2, <1>7 DEF TypeOK
  <2> QED
    BY <1>1, <1>7, <2>1, FlushFacts
<1> HIDE DEF s, k, was
<1>8. CASE Load(w)
  <2>1. s = was /\ pc[w] = "load"
    BY <1>6, <1>8 DEF Load
  <2>2. pc'[w] = IF was \in {"done", "canceled"} THEN "returned"
                 ELSE IF rows[d].cancelReq THEN "drop" ELSE "claim"
    BY <1>4, <1>5, <1>8 DEF Load, was
  <2>3. off <=> was = "canceled" \/ rows[d].cancelReq
    BY DEF Canceling, was
  <2> QED
    BY <1>3, <2>1, <2>2, <2>3 DEF Know, Knowledge, ActsOnCopy, k
<1>9. CASE Drop(w)
  <2> DEFINE new == WithStatus(seen[w], "canceled")
  <2>1. /\ pc[w] = "drop" /\ pc'[w] = "returned"
        /\ rows' = [rows EXCEPT ![d] = Flush(seen[w], new, rows[d])]
    BY <1>4, <1>5, <1>9 DEF Drop, Commit
  <2>2. new \in Row /\ new.status = "canceled" /\ seen[w].status # "canceled"
    BY <1>1, <1>2, <1>5, <2>1, StatusFacts DEF CopyInv
  <2>3. s = "canceled"
    BY <1>1, <1>7, <2>1, <2>2
  <2> QED
    BY <1>3, <2>1, <2>3 DEF Know, Knowledge, ActsOnCopy, k
<1>10. CASE Claim(w)
  <2> DEFINE new == Claimed(seen[w])
  <2>1. /\ pc[w] = "claim" /\ pc'[w] = "check"
        /\ rows' = [rows EXCEPT ![d] = Flush(seen[w], new, rows[d])]
    BY <1>4, <1>5, <1>10 DEF Claim, Commit
  <2>2. new \in Row /\ new.status = "running"
    BY <1>1, ClaimedFacts
  <2> HIDE DEF new
  <2>3. s \in {was, "running"}
    BY <1>1, <1>7, <2>1, <2>2
  <2> QED
    BY <1>3, <2>1, <2>3 DEF Know, Knowledge, ActsOnCopy, k
<1>11. CASE ClaimRefused(w)
  <2>1. pc[w] = "claim" /\ pc'[w] = "raised" /\ s = was
    BY <1>4, <1>5, <1>6, <1>11 DEF ClaimRefused
  <2> QED
    BY <1>3, <2>1 DEF Know, Knowledge, ActsOnCopy, k
<1>12. CASE Check(w)
  <2>1. /\ pc[w] = "check" /\ s = was
        /\ pc'[w] = IF off THEN "stopping" ELSE "mark"
    BY <1>4, <1>5, <1>6, <1>12 DEF Check
  <2> QED
    BY <1>3, <2>1 DEF Know, Knowledge, ActsOnCopy, k
<1>13. CASE Mark(w)
  <2> DEFINE new == Marked(seen[w], Marks[stage[w]])
  <2>1. /\ pc[w] = "mark" /\ pc'[w] \in {"save", "check"}
        /\ rows' = [rows EXCEPT ![d] = Flush(seen[w], new, rows[d])]
    BY <1>4, <1>5, <1>13 DEF Mark, Commit
  <2>2. Marks[stage[w]] \in Nat
    BY <2>1, DebateAssumption DEF DebateInv, TypeOK, StageInv
  <2>3. new \in Row /\ new.status = seen[w].status
    BY <1>1, <2>2, MarkedFacts
  <2> HIDE DEF new
  <2>4. s = was
    BY <1>1, <1>7, <2>1, <2>3
  <2> QED
    BY <1>3, <2>1, <2>4 DEF Know, Knowledge, ActsOnCopy, k
<1>14. CASE WorkFails(w)
  <2>1. pc[w] = "check" /\ pc'[w] \in {"errorFresh", "errorStale"} /\ s = was
    BY <1>4, <1>5, <1>6, <1>14 DEF WorkFails
  <2> QED
    BY <1>3, <2>1 DEF Know, Knowledge, ActsOnCopy, k
<1>15. CASE Save(w)
  <2> DEFINE new == Completed(seen[w])
  <2>1. /\ pc[w] = "save" /\ pc'[w] = "returned"
        /\ ~Canceling(seen[w])
    BY <1>2, <1>4, <1>5, <1>15 DEF Save, CopyInv, ActsOnCopy
  <2>2. rows' = [rows EXCEPT ![d] = Flush(seen[w], new, rows[d])]
    BY <1>15, <2>1 DEF Save, Commit
  <2>3. new \in Row /\ new.status = "done"
    BY <1>1, CompletedFacts
  <2> HIDE DEF new
  <2>4. s \in {was, "done"}
    BY <1>1, <1>7, <2>2, <2>3
  <2> QED
    BY <1>3, <2>1, <2>4 DEF Know, Knowledge, ActsOnCopy, k
<1>16. CASE SaveFails(w)
  <2>1. pc[w] = "save" /\ pc'[w] = "errorFresh" /\ s = was
    BY <1>4, <1>5, <1>6, <1>16 DEF SaveFails
  <2> QED
    BY <1>3, <2>1 DEF Know, Knowledge, ActsOnCopy, k
<1>17. CASE Stop(w)
  <2>1. /\ pc[w] = "stopping" /\ pc'[w] = "returned"
        /\ rows' = [rows EXCEPT ![d] = WithStatus(rows[d], "canceled")]
    BY <1>4, <1>5, <1>17 DEF Stop
  <2>2. s = WithStatus(rows[d], "canceled").status
    BY <1>1, <1>2, <2>1 DEF s, TypeOK
  <2>3. s = "canceled"
    BY <1>1, <1>5, <2>2, StatusFacts
  <2> QED
    BY <1>3, <2>1, <2>3 DEF Know, Knowledge, ActsOnCopy, k
<1>18. CASE Converge(w)
  <2> DEFINE copy == IF pc[w] = "errorFresh" THEN rows[d] ELSE seen[w]
             t    == IF Canceling(copy) THEN "canceled" ELSE "failed"
             new  == WithStatus(copy, t)
  <2>1. /\ pc[w] \in {"errorFresh", "errorStale"}
        /\ pc'[w] \in {"returned", "raised"}
        /\ rows' = [rows EXCEPT ![d] = Flush(copy, new, rows[d])]
    BY <1>4, <1>5, <1>18 DEF Converge
  <2>2. copy \in Row /\ t \in {"canceled", "failed"} /\ t \in Statuses
    BY <1>1, <1>5
  <2>3. pc[w] = "errorFresh" =>
          copy.status = was /\ t = IF off THEN "canceled" ELSE "failed"
    BY DEF was
  <2>4. pc[w] = "errorStale" => t = "failed"
    BY <1>2 DEF CopyInv, ActsOnCopy
  <2> HIDE DEF copy, t
  <2>5. new \in Row /\ new.status = t
    BY <2>2, StatusFacts
  <2>6. s = IF t = copy.status THEN was ELSE t
    <3> HIDE DEF new
    <3> QED BY <1>7, <2>1, <2>2, <2>5
  <2>7. k = "blank"
    BY <2>1 DEF Know, Knowledge, ActsOnCopy, k
  <2>8. CASE pc[w] = "errorFresh"
    <3>1. Knowledge(w) = "careful"
      BY <2>8 DEF Knowledge, ActsOnCopy
    <3> QED
      BY <1>3, <2>3, <2>6, <2>7, <2>8, <3>1
  <2>9. CASE pc[w] = "errorStale"
    <3>1. Knowledge(w) = "live"
      BY <2>9 DEF Knowledge, ActsOnCopy
    <3> QED
      BY <1>3, <2>4, <2>6, <2>7, <2>9, <3>1
  <2> QED
    BY <2>1, <2>8, <2>9
<1> QED
  BY <1>8, <1>9, <1>10, <1>11, <1>12, <1>13, <1>14, <1>15, <1>16, <1>17, <1>18
  DEF Execute

-----------------------------------------------------------------------------
LEMMA InitMaps == Init => Outcome!Init
  BY DEF Init, Outcome!Init, AbsentRow, Knowledge, ActsOnCopy

LEMMA StepMaps == DebateInv /\ [Next]_vars => [Outcome!Next]_Outcome!vars
<1> SUFFICES ASSUME DebateInv, [Next]_vars PROVE Abstract
  BY DEF Abstract, Outcome!vars, Shown, Wants, On, Know, Knowledge
<1>1. UNCHANGED vars => Abstract
  BY DEF vars, Abstract, Shown, Wants, On, Know, Knowledge, Target
<1> QED
  BY <1>1, StepKinds, DeferMaps, CancelMaps, CancelJobMaps, FetchMaps,
     ExecuteMaps, LeaveMaps

\* The lifecycle implements the abstract specification: whatever the tables,
\* the queue, retries, stale copies and crashes do, a user sees a status
\* change only by an API call or by an execution acting on what it last read.
THEOREM LifecycleImplementsOutcome == Spec => ImplementsOutcome
  BY DebateInvariant, InitMaps, StepMaps, PTL
  DEF Spec, ImplementsOutcome, Outcome!Spec

-----------------------------------------------------------------------------
(* DebateGraph                                                             *)

\* The edges lead from "persist" back to every node.
LEMMA AllBeforePersist ==
    ASSUME NEW D \in SUBSET Nodes, "persist" \in D,
           \A n \in D : Before(n) \subseteq D
    PROVE  D = Nodes
<1>1. \A m, n \in Nodes : n \in D /\ <<m, n>> \in Edges => m \in D
  BY DEF Before
<1>2. <<"risk", "persist">> \in Edges /\ <<"judge", "risk">> \in Edges
      /\ <<"rebuttal", "judge">> \in Edges /\ <<"opening", "rebuttal">> \in Edges
  BY DEF Edges
<1>3. "risk" \in D /\ "judge" \in D /\ "rebuttal" \in D /\ "opening" \in D
  BY <1>1, <1>2 DEF Nodes
<1>4. \A a \in Analysts : <<a, "opening">> \in Edges /\ <<"validate", a>> \in Edges
  BY DEF Edges
<1>5. \A a \in Analysts : a \in D
  BY <1>1, <1>3, <1>4 DEF Nodes
<1>6. "technical" \in Analysts
  BY DEF Analysts
<1>7. "validate" \in D
  BY <1>1, <1>4, <1>5, <1>6 DEF Nodes
<1> QED
  BY <1>3, <1>5, <1>7 DEF Nodes

LEMMA Constants ==
    /\ None \in Maybe
    /\ 0 \in Attempts
    /\ Assignments \subseteq Maybe
    /\ Idle \in AttemptFrame
    /\ NoReport \in Content
<1>1. None \in Maybe /\ Assignments \subseteq Maybe
  BY DEF Maybe
<1>2. 0 \in Attempts
  BY GraphAssumption DEF Attempts
<1>3. Idle \in AttemptFrame
  BY <1>1, <1>2 DEF Idle, AttemptFrame
<1>4. NoView \in View
  BY <1>1, <1>2 DEF NoView, View
<1>5. NoReport \in Content
  BY <1>1, <1>2, <1>4 DEF NoReport, Content
<1> QED
  BY <1>1, <1>2, <1>3, <1>5

LEMMA InitGraphInv == GraphInit => GraphInv
<1> SUFFICES ASSUME GraphInit PROVE GraphInv
  OBVIOUS
<1>1. debate \in Debate /\ thread \in Thread
  BY Constants DEF GraphInit, Debate, Thread
<1>2. GraphTyped
  BY <1>1, Constants DEF GraphInit, GraphTyped
<1>3. TurnInv /\ NodesInv /\ ModelsInv
  BY DEF GraphInit, TurnInv, NodesInv, ModelsInv, Idle
<1>4. AssignInv /\ ReportInv
  BY DEF GraphInit, AssignInv, ReportInv, Idle
<1> QED
  BY <1>2, <1>3, <1>4 DEF GraphInv

-----------------------------------------------------------------------------
(* Each step keeps the row, the thread and the locals of the right type.   *)

LEMMA StepGraphTyped == GraphInv /\ [GraphNext]_graphVars => GraphTyped'
<1> SUFFICES ASSUME GraphInv, [GraphNext]_graphVars PROVE GraphTyped'
  OBVIOUS
<1>0. GraphTyped /\ TurnInv
  BY DEF GraphInv
<1>1. CASE ChangeRouting
  BY <1>0, <1>1 DEF ChangeRouting, GraphTyped
<1>2. CASE ClaimAttempt
  <2>1. debate.attempt + 1 \in Attempts
    BY <1>0, <1>2, GraphAssumption DEF ClaimAttempt, GraphTyped, Debate, Attempts
  <2>2. debate' \in Debate
    BY <1>0, <1>2, <2>1 DEF ClaimAttempt, GraphTyped, Debate
  <2>3. debate.assign \in Maybe
    BY <1>0 DEF GraphTyped, Debate
  <2>4. attempt' \in AttemptFrame
    BY <1>2, <2>3, Constants DEF ClaimAttempt, AttemptFrame
  <2> QED
    BY <1>0, <1>2, <2>2, <2>4 DEF ClaimAttempt, GraphTyped
<1>3. CASE Route
  <2>1. Resumable(attempt.before, routing) \in BOOLEAN
    BY DEF Resumable
  <2>2. debate' \in Debate /\ attempt' \in AttemptFrame
    BY <1>0, <1>3, <2>1 DEF Route, GraphTyped, Debate, AttemptFrame
  <2> QED
    BY <1>0, <1>3, <2>2 DEF Route, GraphTyped
<1>4. CASE Collect
  <2>1. attempt' \in AttemptFrame
    BY <1>0, <1>4 DEF Collect, GraphTyped, Debate, AttemptFrame
  <2> QED
    BY <1>0, <1>4, <2>1 DEF Collect, GraphTyped
<1>5. CASE FreshTurn
  <2>1. thread.turn + 1 \in Attempts
    BY <1>0, <1>5, GraphAssumption
       DEF FreshTurn, GraphTyped, TurnInv, Attempts, Debate, Thread
  <2>2. thread'.input \in Content
    BY <1>0, <1>5 DEF FreshTurn, GraphTyped, Debate, Thread, AttemptFrame, Content
  <2>3. thread' \in Thread
    BY <1>5, <2>1, <2>2 DEF FreshTurn, Thread
  <2>4. attempt' \in AttemptFrame
    BY <1>0, <1>5 DEF FreshTurn, InGraph, GraphTyped, AttemptFrame
  <2> QED
    BY <1>0, <1>5, <2>3, <2>4 DEF FreshTurn, GraphTyped
<1>6. CASE Continue
  <2>1. attempt' \in AttemptFrame
    BY <1>0, <1>6 DEF Continue, InGraph, GraphTyped, AttemptFrame
  <2> QED
    BY <1>0, <1>6, <2>1 DEF Continue, GraphTyped
<1>7. ASSUME NEW n \in Nodes, RunNode(n) PROVE GraphTyped'
  <2> DEFINE view == [turn |-> thread.turn, by |-> attempt.router,
                      evidence |-> thread.input.evidence]
  <2>1. view \in View
    BY <1>0 DEF GraphTyped, Thread, AttemptFrame, Content, View
  <2>2. thread.input \in Content
    BY <1>0 DEF GraphTyped, Thread
  <2>3. thread' = [turn |-> thread.turn,
                   input |-> [thread.input EXCEPT !.views[n] = view],
                   done |-> thread.done \cup {n}]
    BY <1>0, <1>7 DEF RunNode, GraphTyped, Thread
  <2> HIDE DEF view
  <2>4. [thread.input EXCEPT !.views[n] = view] \in Content
    BY <2>1, <2>2 DEF Content
  <2>5. thread' \in Thread
    BY <1>0, <2>3, <2>4 DEF GraphTyped, Thread
  <2> QED
    BY <1>0, <1>7, <2>5 DEF RunNode, GraphTyped
<1>8. CASE SaveReport
  <2>1. debate' \in Debate
    BY <1>0, <1>8 DEF SaveReport, GraphTyped, Debate, Thread
  <2> QED
    BY <1>0, <1>8, <2>1, Constants DEF SaveReport, GraphTyped
<1>9. CASE Fail
  <2>1. debate' \in Debate /\ lost' \in BOOLEAN
    BY <1>0, <1>9 DEF Fail, GraphTyped, Debate
  <2> QED
    BY <1>0, <1>9, <2>1, Constants DEF Fail, GraphTyped
<1>10. CASE StopAttempt
  <2>1. debate' \in Debate
    BY <1>0, <1>10 DEF StopAttempt, GraphTyped, Debate
  <2> QED
    BY <1>0, <1>10, <2>1, Constants DEF StopAttempt, GraphTyped
<1>11. CASE UNCHANGED graphVars
  BY <1>0, <1>11 DEF graphVars, GraphTyped
<1> QED
  BY <1>1, <1>2, <1>3, <1>4, <1>5, <1>6, <1>7, <1>8, <1>9, <1>10, <1>11
     DEF GraphNext

-----------------------------------------------------------------------------
(* What RunNode and FreshTurn do to the thread.                            *)

LEMMA RunNodeEffect ==
    ASSUME GraphTyped, NEW n \in Nodes, RunNode(n)
    PROVE  /\ thread'.turn = thread.turn
           /\ thread'.done = thread.done \cup {n}
           /\ thread'.input.assign = thread.input.assign
           /\ thread'.input.evidence = thread.input.evidence
           /\ thread'.input.views[n].turn = thread.turn
           /\ thread'.input.views[n].by = attempt.router
           /\ thread'.input.views[n].evidence = thread.input.evidence
           /\ \A m \in Nodes \ {n} :
                 thread'.input.views[m] = thread.input.views[m]
BY DEF GraphTyped, Thread, Content, RunNode

LEMMA FreshTurnEffect ==
    ASSUME GraphTyped, FreshTurn
    PROVE  /\ thread'.turn = thread.turn + 1
           /\ thread'.done = {}
           /\ thread'.input.assign = debate.assign
           /\ lost' = FALSE
           /\ attempt'.at = "graph"
           /\ attempt'.router = attempt.router
BY DEF GraphTyped, Thread, AttemptFrame, FreshTurn, InGraph

-----------------------------------------------------------------------------
(* Each step keeps the rest of the invariant.                              *)

LEMMA StepTurnInv == GraphInv /\ [GraphNext]_graphVars => TurnInv'
<1> SUFFICES ASSUME GraphInv, [GraphNext]_graphVars PROVE TurnInv'
  OBVIOUS
<1>0. GraphTyped /\ TurnInv /\ AssignInv
  BY DEF GraphInv
<1>n. thread.turn \in Nat /\ debate.attempt \in Nat
  BY <1>0, GraphAssumption DEF GraphTyped, Thread, Debate, Attempts
<1>1. CASE ChangeRouting
  BY <1>0, <1>1 DEF ChangeRouting, TurnInv
<1>2. CASE ClaimAttempt
  BY <1>0, <1>n, <1>2 DEF ClaimAttempt, TurnInv, GraphTyped, Debate, AttemptFrame, Idle
<1>3. CASE Route
  BY <1>0, <1>3 DEF Route, TurnInv, GraphTyped, Debate, AttemptFrame
<1>4. CASE Collect
  BY <1>0, <1>4 DEF Collect, TurnInv, GraphTyped, AttemptFrame
<1>5. CASE FreshTurn
  <2>1. thread.turn < debate.attempt
    BY <1>0, <1>5 DEF FreshTurn, TurnInv
  <2>2. debate.assign # None
    BY <1>0, <1>5 DEF FreshTurn, AssignInv
  <2>3. thread'.turn <= debate'.attempt
    <3>1. thread'.turn = thread.turn + 1 /\ debate'.attempt = debate.attempt
      BY <1>0, <1>5, FreshTurnEffect DEF FreshTurn
    <3> QED
      BY <1>n, <2>1, <3>1
  <2> QED
    BY <1>0, <1>5, <2>2, <2>3, FreshTurnEffect DEF TurnInv
<1>6. CASE Continue
  BY <1>0, <1>6 DEF Continue, InGraph, TurnInv, GraphTyped, AttemptFrame
<1>7. ASSUME NEW n \in Nodes, RunNode(n) PROVE TurnInv'
  BY <1>0, <1>7, RunNodeEffect DEF RunNode, TurnInv
<1>8. CASE SaveReport
  BY <1>0, <1>8 DEF SaveReport, TurnInv, GraphTyped, Debate, Idle
<1>9. CASE Fail
  BY <1>0, <1>9 DEF Fail, TurnInv, GraphTyped, Debate, Idle
<1>10. CASE StopAttempt
  BY <1>0, <1>10 DEF StopAttempt, TurnInv, GraphTyped, Debate, Idle
<1>11. CASE UNCHANGED graphVars
  BY <1>0, <1>11 DEF graphVars, TurnInv
<1> QED
  BY <1>1, <1>2, <1>3, <1>4, <1>5, <1>6, <1>7, <1>8, <1>9, <1>10, <1>11
     DEF GraphNext

LEMMA StepNodesInv == GraphInv /\ [GraphNext]_graphVars => NodesInv' /\ ModelsInv'
<1> SUFFICES ASSUME GraphInv, [GraphNext]_graphVars PROVE NodesInv' /\ ModelsInv'
  OBVIOUS
<1>0. GraphTyped /\ NodesInv /\ ModelsInv /\ AssignInv
  BY DEF GraphInv
<1>1. CASE UNCHANGED <<thread, lost>>
  BY <1>0, <1>1 DEF NodesInv, ModelsInv
<1>2. CASE FreshTurn
  BY <1>0, <1>2, FreshTurnEffect DEF NodesInv, ModelsInv
<1>3. ASSUME NEW n \in Nodes, RunNode(n) PROVE NodesInv' /\ ModelsInv'
  <2>1. thread.done \subseteq Nodes
    BY <1>0 DEF GraphTyped, Thread
  <2>2. Before(n) \subseteq thread.done
    BY <1>3 DEF RunNode
  <2>3. NodesInv'
    BY <1>0, <1>3, <2>1, <2>2, RunNodeEffect DEF NodesInv
  <2>4. lost \/ attempt.router = thread.input.assign
    BY <1>0, <1>3 DEF RunNode, AssignInv
  <2>5. lost' = lost
    BY <1>3 DEF RunNode
  <2>6. ModelsInv'
    BY <1>0, <1>3, <2>1, <2>4, <2>5, RunNodeEffect DEF ModelsInv
  <2> QED
    BY <2>3, <2>6
<1>4. CASE Fail
  BY <1>0, <1>4 DEF Fail, NodesInv, ModelsInv
<1> QED
  BY <1>1, <1>2, <1>3, <1>4
     DEF GraphNext, graphVars, ChangeRouting, ClaimAttempt, Route, Collect, Continue, SaveReport, StopAttempt

LEMMA StepReportInv == GraphInv /\ [GraphNext]_graphVars => ReportInv'
<1> SUFFICES ASSUME GraphInv, [GraphNext]_graphVars PROVE ReportInv'
  OBVIOUS
<1>0. GraphTyped /\ ReportInv
  BY DEF GraphInv
<1>1. CASE ChangeRouting
  BY <1>0, <1>1 DEF ChangeRouting, ReportInv
<1>2. CASE ClaimAttempt
  BY <1>0, <1>2 DEF ClaimAttempt, ReportInv, GraphTyped, Debate
<1>3. CASE Route
  BY <1>0, <1>3 DEF Route, ReportInv, GraphTyped, Debate, AttemptFrame
<1>4. CASE Collect
  BY <1>0, <1>4 DEF Collect, ReportInv, GraphTyped, AttemptFrame
<1>5. CASE FreshTurn
  BY <1>0, <1>5 DEF FreshTurn, ReportInv
<1>6. CASE Continue
  BY <1>0, <1>6 DEF Continue, ReportInv
<1>7. ASSUME NEW n \in Nodes, RunNode(n) PROVE ReportInv'
  BY <1>0, <1>7 DEF RunNode, ReportInv
<1>8. CASE SaveReport
  BY <1>0, <1>8 DEF SaveReport, ReportInv, GraphTyped, Debate, Idle
<1>9. CASE Fail
  BY <1>0, <1>9 DEF Fail, ReportInv, GraphTyped, Debate, Idle
<1>10. CASE StopAttempt
  BY <1>0, <1>10 DEF StopAttempt, ReportInv, GraphTyped, Debate, Idle
<1>11. CASE UNCHANGED graphVars
  BY <1>0, <1>11 DEF graphVars, ReportInv
<1> QED
  BY <1>1, <1>2, <1>3, <1>4, <1>5, <1>6, <1>7, <1>8, <1>9, <1>10, <1>11
     DEF GraphNext

LEMMA StepAssignInv == GraphInv /\ [GraphNext]_graphVars => AssignInv'
<1> SUFFICES ASSUME GraphInv, [GraphNext]_graphVars PROVE AssignInv'
  OBVIOUS
<1>0. GraphTyped /\ TurnInv /\ AssignInv /\ ReportInv
  BY DEF GraphInv
<1>1. CASE ChangeRouting
  BY <1>0, <1>1 DEF ChangeRouting, AssignInv
<1>2. CASE ClaimAttempt
  <2>1. attempt'.at = "claimed" /\ debate'.assign = debate.assign
    BY <1>0, <1>2 DEF ClaimAttempt, GraphTyped, Debate, Idle
  <2>2. thread.turn # 0 => debate.attempt > 0
    BY <1>0, GraphAssumption DEF TurnInv, GraphTyped, Thread, Debate, Attempts
  <2>3. thread.turn # 0 => attempt'.before = debate.assign
    BY <1>2, <2>2 DEF ClaimAttempt, Idle
  <2>4. lost \/ thread.turn = 0 \/ debate.assign = thread.input.assign
    BY <1>0, <1>2 DEF ClaimAttempt, AssignInv
  <2> QED
    BY <1>2, <2>1, <2>3, <2>4 DEF ClaimAttempt, AssignInv
<1>3. CASE Route
  <2>1. /\ attempt'.at = "routed"
        /\ attempt'.router = routing
        /\ debate'.assign = routing
        /\ attempt'.resume = Resumable(attempt.before, routing)
    BY <1>0, <1>3 DEF Route, GraphTyped, Debate, AttemptFrame
  <2>2. lost \/ thread.turn = 0 \/ attempt.before = thread.input.assign
    BY <1>0, <1>3 DEF Route, AssignInv, ReportInv
  <2>3. lost \/ thread.turn = 0
             \/ (attempt'.resume <=> routing = thread.input.assign)
    BY <1>0, <2>1, <2>2 DEF Resumable, TurnInv
  <2> QED
    BY <1>3, <2>1, <2>3 DEF Route, AssignInv
<1>4. CASE Collect
  <2>1. /\ attempt'.at = "collected"
        /\ attempt'.router = attempt.router
        /\ attempt'.resume = attempt.resume
    BY <1>0, <1>4 DEF Collect, GraphTyped, AttemptFrame
  <2> QED
    BY <1>0, <1>4, <2>1 DEF Collect, AssignInv
<1>5. CASE FreshTurn
  <2>1. attempt.router = debate.assign
    BY <1>0, <1>5 DEF FreshTurn, AssignInv
  <2>2. thread'.turn # 0
    <3>1. thread'.turn = thread.turn + 1
      BY <1>0, <1>5, FreshTurnEffect
    <3>2. thread.turn \in Nat
      BY <1>0, GraphAssumption DEF GraphTyped, Thread, Attempts
    <3> QED
      BY <3>1, <3>2
  <2> QED
    BY <1>0, <1>5, <2>1, <2>2, FreshTurnEffect DEF FreshTurn, AssignInv
<1>6. CASE Continue
  <2>1. attempt'.at = "graph" /\ attempt'.router = attempt.router
    BY <1>0, <1>6 DEF Continue, InGraph, GraphTyped, AttemptFrame
  <2> QED
    BY <1>0, <1>6, <2>1 DEF Continue, AssignInv
<1>7. ASSUME NEW n \in Nodes, RunNode(n) PROVE AssignInv'
  BY <1>0, <1>7, RunNodeEffect DEF RunNode, AssignInv
<1>8. CASE SaveReport
  <2>1. attempt'.at = "idle" /\ debate'.assign = debate.assign
    BY <1>0, <1>8 DEF SaveReport, GraphTyped, Debate, Idle
  <2> QED
    BY <1>0, <1>8, <2>1 DEF SaveReport, AssignInv
<1>9. CASE Fail
  <2>1. attempt'.at = "idle" /\ debate'.assign = debate.assign
    BY <1>0, <1>9 DEF Fail, GraphTyped, Debate, Idle
  <2>2. attempt.at \in {"claimed", "routed", "collected", "graph"}
    BY <1>0, <1>9 DEF Fail, GraphTyped, AttemptFrame
  <2>3. debate.status # "canceled"
    BY <1>0, <1>9 DEF Fail, ReportInv
  <2> QED
    BY <1>0, <1>9, <2>1, <2>2, <2>3 DEF Fail, AssignInv
<1>10. CASE StopAttempt
  <2>1. attempt'.at = "idle" /\ debate'.status = "canceled"
    BY <1>0, <1>10 DEF StopAttempt, GraphTyped, Debate, Idle
  <2> QED
    BY <2>1 DEF AssignInv
<1>11. CASE UNCHANGED graphVars
  BY <1>0, <1>11 DEF graphVars, AssignInv
<1> QED
  BY <1>1, <1>2, <1>3, <1>4, <1>5, <1>6, <1>7, <1>8, <1>9, <1>10, <1>11
     DEF GraphNext

\* The invariant is inductive; the theorems below rest on it.
THEOREM GraphInvariant == GraphSpec => []GraphInv
<1>1. GraphInit => GraphInv
  BY InitGraphInv
<1>2. GraphInv /\ [GraphNext]_graphVars => GraphInv'
  BY StepGraphTyped, StepTurnInv, StepNodesInv, StepReportInv, StepAssignInv
     DEF GraphInv
<1> QED
  BY <1>1, <1>2, PTL DEF GraphSpec

-----------------------------------------------------------------------------
\* Type correctness of row, checkpoint and locals.
THEOREM GraphTypeOK == GraphSpec => []GraphTyped
BY GraphInvariant, PTL DEF GraphInv

\* In a done debate every node succeeded in the thread's last turn.
LEMMA DoneIsComplete ==
    ASSUME GraphInv, debate.status = "done"
    PROVE  /\ debate.report = thread.input
           /\ thread.done = Nodes
<1>1. debate.report = thread.input /\ "persist" \in thread.done
  BY DEF GraphInv, ReportInv
<1>2. thread.done \in SUBSET Nodes
  BY DEF GraphInv, GraphTyped, Thread
<1>3. \A n \in thread.done : Before(n) \subseteq thread.done
  BY DEF GraphInv, NodesInv
<1> QED
  BY <1>1, <1>2, <1>3, AllBeforePersist

\* A report is made of one turn, although channels are never cleared, and the
\* evidence it shows is what its analysts read.
THEOREM GraphReportIsWhole == GraphSpec => []ReportIsWhole
<1>1. GraphInv => ReportOfOneTurn
  BY DoneIsComplete DEF GraphInv, NodesInv, ReportOfOneTurn
<1>2. GraphInv => EvidenceMatchesReport
  BY DoneIsComplete DEF GraphInv, NodesInv, EvidenceMatchesReport, Nodes
<1>3. GraphInv => ReportIsWhole
  BY <1>1, <1>2 DEF ReportIsWhole
<1> QED
  BY <1>3, GraphInvariant, PTL

\* A report mixes models only after an attempt was lost before the graph.
THEOREM GraphOldTurnOnlyAfterLostTurn == GraphSpec => []OldTurnOnlyAfterLostTurn
<1>1. GraphInv => OldTurnOnlyAfterLostTurn
  BY DoneIsComplete DEF GraphInv, ModelsInv, OldTurnOnlyAfterLostTurn, Roles
<1> QED
  BY <1>1, GraphInvariant, PTL

\* The same models continue the turn of an attempt that failed in the graph.
THEOREM GraphWorkIsKept == GraphSpec => WorkIsKept
<1>1. ASSUME GraphInv, [GraphNext]_graphVars,
             thread'.turn # thread.turn, thread.turn # 0
      PROVE  lost \/ attempt.router # thread.input.assign
  <2>1. CASE FreshTurn
    <3>1. attempt.at = "collected" /\ ~attempt.resume
      BY <1>1, <2>1 DEF FreshTurn
    <3> QED
      BY <1>1, <3>1 DEF GraphInv, AssignInv
  <2>2. ASSUME NEW n \in Nodes, RunNode(n) PROVE FALSE
    BY <1>1, <2>2, RunNodeEffect DEF GraphInv
  <2>3. CASE UNCHANGED thread
    BY <1>1, <2>3
  <2> QED
    BY <1>1, <2>1, <2>2, <2>3
       DEF GraphNext, graphVars, ChangeRouting, ClaimAttempt, Route, Collect, Continue, SaveReport,
           Fail, StopAttempt
<1>2. GraphInv /\ [GraphNext]_graphVars =>
          [thread'.turn # thread.turn /\ thread.turn # 0 =>
              lost \/ attempt.router # thread.input.assign]_graphVars
  BY <1>1
<1> QED
  BY <1>2, GraphInvariant, PTL DEF GraphSpec, WorkIsKept
=============================================================================
