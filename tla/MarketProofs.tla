----------------------------- MODULE MarketProofs -----------------------------
(***************************************************************************)
(* What comes in from outside, in three parts.  SignalSync: the ledger of  *)
(* runs and the ledger of versions, for any number of days, runs, imports, *)
(* worker deaths and changes of the document.  BarSync: the bars and the   *)
(* signals computed from them, for any number of jobs, loops, secids,      *)
(* themes, failures of providers and stops of processes.  MarketCache:     *)
(* what requests see of the cache of the indices and of overrides, for any *)
(* number of requests, edits and turns of the market.                      *)
(***************************************************************************)
EXTENDS SignalSync, BarSync, MarketCache,
        FiniteSetTheorems, NaturalsInduction, WellFoundedInduction, TLAPS

-----------------------------------------------------------------------------
(* SignalSync                                                              *)

RunsInv ==
    /\ runs \in [Runs -> RunRow \cup {NoRun}]
    /\ jobs \in [Runs -> {"none", "todo", "doing", "succeeded", "failed"}]
    /\ dead \subseteq Runs
    /\ RunsHaveJobs
    /\ OneActiveRunPerRange
    /\ RetryCoversFailures

\* An import writes version 1 only, a run counts on from there.
FirstVersions ==
    \A d \in Days : IF sections[d].byRun THEN sections[d].ver > 0 ELSE sections[d].ver <= 1

SectionRow == [ver : 0 .. MaxVersion, content : Contents \cup {0}, byRun : BOOLEAN]

VersionsInv ==
    /\ document \in [Days -> Contents]
    /\ sections \in [Days -> SectionRow]
    /\ signals \in [Signals -> {"absent", "active", "superseded"}]
    /\ reimported \subseteq Days
    /\ SectionKnowsLastVersion
    /\ FirstVersions
    /\ LastVersionShown

SignalInv == RunsInv /\ VersionsInv

-----------------------------------------------------------------------------
(* The range of a retry                                                    *)

LEMMA Least ==
    ASSUME NEW S, S \subseteq Nat, S # {}
    PROVE  \E m \in S : \A k \in S : m <= k
<1>1. PICK m \in S : \A k \in S : <<k, m>> \notin OpToRel(<, Nat)
  BY WFMin, NatLessThanWellFounded
<1>2. \A k \in S : ~(k < m)
  BY <1>1 DEF OpToRel
<1> QED
  BY <1>2

LEMMA Greatest ==
    ASSUME NEW S, S \subseteq Days, S # {}
    PROVE  \E m \in S : \A k \in S : k <= m
<1>1. PICK last \in Days : \A d \in Days : d <= last
  BY SignalAssumption
<1>2. S \subseteq Nat /\ last \in Nat
  BY SignalAssumption
<1> DEFINE U == {h \in Nat : \A k \in S : k <= h}
<1>3. last \in U
  BY <1>1, <1>2
<1>4. U \subseteq Nat /\ U # {}
  BY <1>3
<1> HIDE DEF U
<1>5. PICK m \in U : \A h \in U : m <= h
  BY <1>4, Least
<1>6. m \in Nat /\ \A k \in S : k <= m
  BY <1>5 DEF U
<1>7. m \in S
  <2> SUFFICES ASSUME m \notin S PROVE FALSE
    OBVIOUS
  <2>1. \A k \in S : k <= m - 1 /\ m - 1 \in Nat
    <3> SUFFICES ASSUME NEW k \in S PROVE k <= m - 1 /\ m - 1 \in Nat
      OBVIOUS
    <3>1. k \in Nat /\ k <= m /\ k # m
      BY <1>2, <1>6
    <3> QED
      BY <1>6, <3>1
  <2>2. m - 1 \in U
    BY <2>1 DEF U
  <2> QED
    BY <1>5, <1>6, <2>2
<1> QED
  BY <1>6, <1>7

\* The range from the first to the last failed day has every failed day.
LEMMA RetryRange ==
    ASSUME NEW failures \in SUBSET Days
    PROVE  failures \subseteq Scope(RetryBody(failures))
<1>1. CASE failures = {}
  BY <1>1
<1>2. CASE failures # {}
  <2>1. PICK lo \in failures : \A k \in failures : lo <= k
    BY <1>2, Least, SignalAssumption
  <2>2. PICK hi \in failures : \A k \in failures : k <= hi
    BY <1>2, Greatest
  <2>3. Min(failures) \in failures /\ \A k \in failures : Min(failures) <= k
    BY <2>1 DEF Min
  <2>4. Max(failures) \in failures /\ \A k \in failures : k <= Max(failures)
    BY <2>2 DEF Max
  <2>5. Scope(RetryBody(failures)) = (Min(failures) .. Max(failures)) \cap Days
    BY <1>2 DEF Scope, RetryBody
  <2>6. failures \subseteq Nat
    BY SignalAssumption
  <2>7. ASSUME NEW k \in failures PROVE k \in Min(failures) .. Max(failures)
    BY <2>3, <2>4, <2>6
  <2> QED
    BY <2>5, <2>7
<1> QED
  BY <1>1, <1>2

-----------------------------------------------------------------------------
(* The ledger of runs                                                      *)

\* One run and its job change.
LEMMA RowChanges ==
    ASSUME RunsInv, NEW r \in Runs, NEW new \in RunRow,
           NEW j \in {"todo", "doing", "succeeded", "failed"},
           runs' = [runs EXCEPT ![r] = new], jobs' = [jobs EXCEPT ![r] = j],
           dead' \subseteq Runs,
           new.status \in {"queued", "running"} =>
               j # "succeeded" /\ \A s \in Active \ {r} : runs[s].body # new.body,
           j = "todo" => new.status = "queued",
           new.trigger = "retry" => new.covers \subseteq Scope(new.body)
    PROVE  RunsInv'
<1>1. /\ runs' \in [Runs -> RunRow \cup {NoRun}]
      /\ jobs' \in [Runs -> {"none", "todo", "doing", "succeeded", "failed"}]
      /\ runs'[r] = new /\ \A s \in Runs \ {r} : runs'[s] = runs[s]
      /\ jobs'[r] = j /\ \A s \in Runs \ {r} : jobs'[s] = jobs[s]
  BY DEF RunsInv
<1>2. new # NoRun
  BY SignalAssumption
<1>3. \A s \in Runs : s \in Known' <=> s = r \/ s \in Known
  BY <1>1, <1>2 DEF Known
<1>4. Known' \subseteq Runs /\ Known \subseteq Runs /\ Active \subseteq Known /\ Active' \subseteq Known'
  BY DEF Known, Active
<1>5. RunsHaveJobs'
  <2> SUFFICES ASSUME NEW s \in Runs
               PROVE  /\ s \in Active' => jobs'[s] \in {"todo", "doing", "failed"}
                      /\ jobs'[s] = "todo" => s \in Known' /\ runs'[s].status = "queued"
                      /\ s \in Known' <=> jobs'[s] # "none"
    BY DEF RunsHaveJobs
  <2>1. CASE s = r
    <3>1. s \in Active' => new.status \in {"queued", "running"}
      BY <1>1, <2>1 DEF Active
    <3> QED
      BY <1>1, <1>3, <2>1, <3>1
  <2>2. CASE s # r
    <3>1. s \in Active' <=> s \in Active
      BY <1>1, <1>3, <2>2 DEF Active
    <3> QED
      BY <1>1, <1>3, <2>2, <3>1 DEF RunsInv, RunsHaveJobs
  <2> QED
    BY <2>1, <2>2
<1>6. OneActiveRunPerRange'
  <2>1. \A s \in Runs \ {r} : s \in Active' <=> s \in Active
    BY <1>1, <1>3 DEF Active
  <2>2. r \in Active' => new.status \in {"queued", "running"}
    BY <1>1 DEF Active
  <2> SUFFICES ASSUME NEW s \in Active', NEW t \in Active', s # t
               PROVE  runs'[s].body # runs'[t].body
    BY DEF OneActiveRunPerRange
  <2>3. s \in Runs /\ t \in Runs
    BY <1>4
  <2>4. CASE s # r /\ t # r
    BY <1>1, <2>1, <2>3, <2>4 DEF RunsInv, OneActiveRunPerRange
  <2>5. CASE s = r
    BY <1>1, <2>1, <2>2, <2>3, <2>5
  <2>6. CASE t = r
    BY <1>1, <2>1, <2>2, <2>3, <2>6
  <2> QED
    BY <2>4, <2>5, <2>6
<1>7. RetryCoversFailures'
  BY <1>1, <1>3, <1>4 DEF RunsInv, RetryCoversFailures
<1> QED
  BY <1>1, <1>5, <1>6, <1>7 DEF RunsInv

\* A run with a job is known, and its job is what it is.
LEMMA JobFacts ==
    ASSUME RunsInv, NEW r \in Runs, jobs[r] # "none"
    PROVE  /\ r \in Known /\ runs[r] \in RunRow
           /\ runs = [runs EXCEPT ![r] = runs[r]]
           /\ jobs = [jobs EXCEPT ![r] = jobs[r]]
           /\ dead \subseteq Runs
           /\ r \in Active <=> runs[r].status \in {"queued", "running"}
BY DEF RunsInv, RunsHaveJobs, Known, Active

\* A run in hand changes, but not what it was asked for.
LEMMA RunProceeds ==
    ASSUME RunsInv, NEW r \in Runs, jobs[r] = "doing", NEW new \in RunRow,
           runs' = [runs EXCEPT ![r] = new], jobs' = jobs, dead' = dead,
           new.status \in {"queued", "running"} => r \in Active,
           new.body = runs[r].body, new.trigger = runs[r].trigger, new.covers = runs[r].covers
    PROVE  RunsInv'
<1>1. r \in Active => \A s \in Active \ {r} : runs[s].body # new.body
  BY DEF RunsInv, OneActiveRunPerRange
<1>2. /\ r \in Known /\ dead' \subseteq Runs /\ jobs' = [jobs EXCEPT ![r] = "doing"]
  BY JobFacts
<1>3. new.trigger = "retry" => new.covers \subseteq Scope(new.body)
  BY <1>2 DEF RunsInv, RetryCoversFailures
<1> QED
  BY <1>1, <1>2, <1>3, RowChanges

LEMMA EnqueueKeeps ==
    ASSUME RunsInv, NEW r \in Runs, NEW b \in Bodies, NEW trigger \in {"manual", "retry"},
           NEW failures \in SUBSET Days, Enqueue(r, b, trigger, failures),
           trigger = "retry" => failures \subseteq Scope(b)
    PROVE  RunsInv'
<1> DEFINE new == [body |-> b, trigger |-> trigger, covers |-> failures, status |-> "queued",
                   todo |-> {}, failed |-> {}]
<1>1. new \in RunRow
  BY DEF RunRow
<1>2. /\ runs' = [runs EXCEPT ![r] = new] /\ jobs' = [jobs EXCEPT ![r] = "todo"]
      /\ dead' = dead /\ \A s \in Active : runs[s].body # b
  BY DEF Enqueue, KeyFree
<1>3. /\ new.status = "queued" /\ new.body = b /\ new.trigger = trigger
      /\ new.covers = failures
  OBVIOUS
<1>4. dead' \subseteq Runs
  BY <1>2 DEF RunsInv
<1> HIDE DEF new
<1> QED
  BY <1>1, <1>2, <1>3, <1>4, RowChanges

LEMMA RetryKeeps ==
    ASSUME RunsInv, NEW p \in Runs, NEW r \in Runs, Retry(p, r)
    PROVE  RunsInv'
<1>1. runs[p] \in RunRow
  BY DEF Retry, Ended, Known, RunsInv
<1>2. runs[p].failed \in SUBSET Days
  BY <1>1 DEF RunRow
<1>3. /\ RetryBody(runs[p].failed) \in Bodies
      /\ Enqueue(r, RetryBody(runs[p].failed), "retry", runs[p].failed)
  BY DEF Retry
<1> QED
  BY <1>2, <1>3, RetryRange, EnqueueKeeps

\* The worker takes a job, the job ends, or the worker dies: the run's row
\* stays as it is.
LEMMA JobKeeps ==
    ASSUME RunsInv, NEW r \in Runs, FetchJob(r) \/ EndJob(r) \/ Crash(r)
    PROVE  RunsInv'
<1>1. jobs[r] \in {"todo", "doing"} /\ runs' = runs
  BY DEF FetchJob, EndJob, Crash, InHand
<1>2. /\ r \in Known /\ runs[r] \in RunRow /\ runs' = [runs EXCEPT ![r] = runs[r]]
      /\ jobs = [jobs EXCEPT ![r] = jobs[r]] /\ dead \subseteq Runs
      /\ r \in Active <=> runs[r].status \in {"queued", "running"}
  BY <1>1, JobFacts
<1>3. r \in Active => \A s \in Active \ {r} : runs[s].body # runs[r].body
  BY DEF RunsInv, OneActiveRunPerRange
<1>4. runs[r].trigger = "retry" => runs[r].covers \subseteq Scope(runs[r].body)
  BY <1>2 DEF RunsInv, RetryCoversFailures
<1>5. PICK j \in {"doing", "succeeded", "failed"} :
        /\ jobs' = [jobs EXCEPT ![r] = j]
        /\ dead' \subseteq Runs
        /\ j = "succeeded" => r \in Ended
  <2>1. CASE FetchJob(r)
    BY <1>2, <2>1 DEF FetchJob
  <2>2. CASE EndJob(r)
    BY <1>2, <2>2 DEF EndJob
  <2>3. CASE Crash(r)
    BY <1>2, <2>3 DEF Crash, InHand
  <2> QED
    BY <2>1, <2>2, <2>3
<1>6. j = "succeeded" => r \notin Active
  BY <1>5 DEF Ended
<1> QED
  BY <1>2, <1>3, <1>4, <1>5, <1>6, RowChanges

LEMMA WorkKeeps ==
    ASSUME RunsInv, NEW r \in Runs,
           Claim(r) \/ Finish(r) \/ \E d \in Days : SyncDay(r, d) \/ FailDay(r, d)
    PROVE  RunsInv'
<1>1. jobs[r] = "doing" /\ jobs' = jobs /\ dead' = dead
  BY DEF Claim, Finish, SyncDay, FailDay, Running, InHand
<1>2. runs[r] \in RunRow /\ (r \in Active <=> runs[r].status \in {"queued", "running"})
  BY <1>1, JobFacts
<1>3. PICK new \in RunRow :
        /\ runs' = [runs EXCEPT ![r] = new]
        /\ new.status \in {"queued", "running"} => r \in Active
        /\ new.body = runs[r].body /\ new.trigger = runs[r].trigger
        /\ new.covers = runs[r].covers
  <2>1. CASE Claim(r)
    <3> DEFINE new == [runs[r] EXCEPT !.status = "running", !.todo = Scope(runs[r].body)]
    <3>1. Scope(runs[r].body) \subseteq Days /\ r \in Active
      BY <1>2, <2>1 DEF Scope, Claim
    <3>2. /\ new \in RunRow /\ new.body = runs[r].body /\ new.trigger = runs[r].trigger
          /\ new.covers = runs[r].covers
      BY <1>2, <3>1 DEF RunRow
    <3>3. runs' = [runs EXCEPT ![r] = new]
      BY <2>1 DEF Claim, RunsInv
    <3> HIDE DEF new
    <3> QED
      BY <3>1, <3>2, <3>3
  <2>2. CASE Finish(r)
    <3>1. PICK end \in {"succeeded", "partial", "failed"} :
            runs' = [runs EXCEPT ![r].status = end]
      BY <2>2 DEF Finish
    <3> DEFINE new == [runs[r] EXCEPT !.status = end]
    <3>2. /\ new \in RunRow /\ new.status = end /\ new.body = runs[r].body
          /\ new.trigger = runs[r].trigger /\ new.covers = runs[r].covers
      BY <1>2 DEF RunRow
    <3>3. runs' = [runs EXCEPT ![r] = new]
      BY <3>1 DEF RunsInv
    <3> HIDE DEF new
    <3> QED
      BY <3>2, <3>3
  <2>3. ASSUME NEW d \in Days, SyncDay(r, d) \/ FailDay(r, d)
        PROVE  \E new \in RunRow :
                 /\ runs' = [runs EXCEPT ![r] = new]
                 /\ new.status \in {"queued", "running"} => r \in Active
                 /\ new.body = runs[r].body /\ new.trigger = runs[r].trigger
                 /\ new.covers = runs[r].covers
    <3>1. r \in Active
      BY <1>2, <2>3 DEF SyncDay, FailDay, Running
    <3>2. CASE SyncDay(r, d)
      <4> DEFINE new == [runs[r] EXCEPT !.todo = @ \ {d}]
      <4>1. /\ new \in RunRow /\ new.body = runs[r].body /\ new.trigger = runs[r].trigger
            /\ new.covers = runs[r].covers
        BY <1>2 DEF RunRow
      <4>2. runs' = [runs EXCEPT ![r] = new]
        BY <3>2 DEF SyncDay, RunsInv
      <4> HIDE DEF new
      <4> QED
        BY <3>1, <4>1, <4>2
    <3>3. CASE FailDay(r, d)
      <4> DEFINE new == [runs[r] EXCEPT !.todo = @ \ {d}, !.failed = @ \cup {d}]
      <4>1. /\ new \in RunRow /\ new.body = runs[r].body /\ new.trigger = runs[r].trigger
            /\ new.covers = runs[r].covers
        BY <1>2 DEF RunRow
      <4>2. runs' = [runs EXCEPT ![r] = new]
        BY <3>3 DEF FailDay, RunsInv
      <4> HIDE DEF new
      <4> QED
        BY <3>1, <4>1, <4>2
    <3> QED
      BY <2>3, <3>2, <3>3
  <2> QED
    BY <2>1, <2>2, <2>3
<1> QED
  BY <1>1, <1>3, RunProceeds

-----------------------------------------------------------------------------
(* The ledger of versions                                                  *)

\* The document's content becomes the next version of the section.
LEMMA NextVersion ==
    ASSUME VersionsInv, NEW d \in Days, sections[d].ver < MaxVersion,
           sections' = [sections EXCEPT ![d] =
               [ver |-> sections[d].ver + 1, content |-> document[d], byRun |-> TRUE]],
           signals' = [g \in Signals |->
               IF g = <<d, sections[d].ver + 1>> THEN "active"
               ELSE IF g[1] = d /\ signals[g] = "active" THEN "superseded" ELSE signals[g]],
           reimported' = reimported \ {d}, document' = document
    PROVE  VersionsInv'
<1> DEFINE next == sections[d].ver + 1
           new == [ver |-> next, content |-> document[d], byRun |-> TRUE]
<1>1. sections[d] \in SectionRow /\ sections[d].ver \in 0 .. MaxVersion
  BY DEF VersionsInv, SectionRow
<1>2. next \in Versions /\ next \in Nat /\ next > 0 /\ next > sections[d].ver
  BY <1>1, SignalAssumption DEF Versions
<1>3. next \in 0 .. MaxVersion
  BY <1>2, SignalAssumption DEF Versions
<1>4. document[d] \in Contents
  BY DEF VersionsInv
<1> HIDE DEF next
<1>5. new \in SectionRow /\ new.ver = next /\ new.byRun = TRUE
  BY <1>3, <1>4 DEF SectionRow
<1>6. sections' = [sections EXCEPT ![d] = new]
  BY DEF next
<1> HIDE DEF new
<1>7. /\ sections' \in [Days -> SectionRow] /\ sections'[d] = new
      /\ \A e \in Days \ {d} : sections'[e] = sections[e]
  BY <1>5, <1>6 DEF VersionsInv
<1>8. ASSUME NEW e \in Days, NEW v \in Versions
      PROVE  /\ <<e, v>> \in Signals
             /\ signals'[<<e, v>>] = IF e = d /\ v = next THEN "active"
                   ELSE IF e = d /\ signals[<<e, v>>] = "active" THEN "superseded"
                   ELSE signals[<<e, v>>]
  BY DEF next, Signals
<1>9. signals' \in [Signals -> {"absent", "active", "superseded"}]
  BY DEF VersionsInv
<1>10. SectionKnowsLastVersion'
  <2> SUFFICES ASSUME NEW e \in Days
               PROVE  /\ \A v \in Versions : v > sections'[e].ver => signals'[<<e, v>>] = "absent"
                      /\ sections'[e].ver > 0 => signals'[<<e, sections'[e].ver>>] = "active"
    BY DEF SectionKnowsLastVersion
  <2>1. CASE e # d
    <3>1. sections'[e] = sections[e] /\ sections[e] \in SectionRow
      BY <1>7, <2>1 DEF VersionsInv
    <3>2. sections[e].ver \in 0 .. MaxVersion
      BY <3>1 DEF SectionRow
    <3>3. sections[e].ver > 0 => sections[e].ver \in Versions
      BY <3>2 DEF Versions
    <3>4. \A v \in Versions : signals'[<<e, v>>] = signals[<<e, v>>]
      BY <1>8, <2>1
    <3>5. /\ \A v \in Versions : v > sections[e].ver => signals[<<e, v>>] = "absent"
          /\ sections[e].ver > 0 => signals[<<e, sections[e].ver>>] = "active"
      BY DEF VersionsInv, SectionKnowsLastVersion
    <3>6. sections[e].ver > 0 => signals'[<<e, sections[e].ver>>] = "active"
      BY <3>3, <3>4, <3>5
    <3> QED
      BY <3>1, <3>4, <3>5, <3>6
  <2>2. CASE e = d
    <3>1. sections'[e].ver = next
      BY <1>5, <1>7, <2>2
    <3>2. signals'[<<e, next>>] = "active"
      BY <1>2, <1>8, <2>2
    <3>3. ASSUME NEW v \in Versions, v > next PROVE signals'[<<e, v>>] = "absent"
      <4>1. v > sections[d].ver /\ v # next
        BY <1>1, <1>2, <3>3 DEF Versions
      <4>2. signals[<<d, v>>] = "absent"
        BY <4>1 DEF VersionsInv, SectionKnowsLastVersion
      <4> QED
        BY <1>8, <2>2, <4>1, <4>2
    <3> QED
      BY <3>1, <3>2, <3>3
  <2> QED
    BY <2>1, <2>2
<1>11. FirstVersions'
  <2> SUFFICES ASSUME NEW e \in Days
               PROVE  IF sections'[e].byRun THEN sections'[e].ver > 0 ELSE sections'[e].ver <= 1
    BY DEF FirstVersions
  <2>1. CASE e = d
    BY <1>2, <1>5, <1>7, <2>1
  <2>2. CASE e # d
    BY <1>7, <2>2 DEF VersionsInv, FirstVersions
  <2> QED
    BY <2>1, <2>2
<1>12. LastVersionShown'
  <2> SUFFICES ASSUME NEW e \in Days, NEW v \in Versions, signals'[<<e, v>>] = "active"
               PROVE  v = sections'[e].ver \/ (v = 1 /\ e \in reimported')
    BY DEF LastVersionShown
  <2>1. CASE e = d
    BY <1>5, <1>7, <1>8, <2>1
  <2>2. CASE e # d
    <3>1. signals[<<e, v>>] = "active" /\ <<e, v>> \in Signals
      BY <1>8, <2>2
    <3>2. v = sections[e].ver \/ (v = 1 /\ e \in reimported)
      BY <3>1 DEF VersionsInv, LastVersionShown
    <3> QED
      BY <1>7, <2>2, <3>2
  <2> QED
    BY <2>1, <2>2
<1> QED
  BY <1>7, <1>9, <1>10, <1>11, <1>12 DEF VersionsInv

\* An import sets first versions active again and leaves later ones alone.
LEMMA ImportKeeps ==
    ASSUME VersionsInv, NEW c \in Contents, Import(c)
    PROVE  VersionsInv'
<1> DEFINE Writes(d) == d \in Legacy /\ sections[d].ver <= 1 /\ ~sections[d].byRun
           first == [ver |-> 1, content |-> c, byRun |-> FALSE]
<1>1. /\ signals' = [g \in Signals |-> IF g[1] \in Legacy /\ g[2] = 1 THEN "active" ELSE signals[g]]
      /\ sections' = [d \in Days |-> IF Writes(d) THEN first ELSE sections[d]]
      /\ reimported' = reimported \cup {d \in Legacy : sections[d].byRun}
      /\ document' = document
  BY DEF Import
<1>2. 1 \in Versions /\ 1 \in 0 .. MaxVersion
  BY SignalAssumption DEF Versions
<1>3. first \in SectionRow /\ first.ver = 1 /\ first.byRun = FALSE
  BY <1>2 DEF SectionRow
<1> HIDE DEF first, Writes
<1>4. ASSUME NEW d \in Days
      PROVE  /\ sections'[d] = IF Writes(d) THEN first ELSE sections[d]
             /\ sections[d] \in SectionRow /\ sections[d].ver \in 0 .. MaxVersion
             /\ sections[d].byRun \in BOOLEAN
  BY <1>1 DEF VersionsInv, SectionRow
<1>5. sections' \in [Days -> SectionRow]
  BY <1>1, <1>3, <1>4
<1>6. ASSUME NEW d \in Days, NEW v \in Versions
      PROVE  signals'[<<d, v>>] = IF d \in Legacy /\ v = 1 THEN "active" ELSE signals[<<d, v>>]
  BY <1>1 DEF Signals
<1>7. signals' \in [Signals -> {"absent", "active", "superseded"}]
  BY <1>1 DEF VersionsInv
<1>8. reimported' \subseteq Days
  BY <1>1, SignalAssumption DEF VersionsInv
<1>9. \A d \in Days : IF sections[d].byRun THEN sections[d].ver > 0 ELSE sections[d].ver <= 1
  BY DEF VersionsInv, FirstVersions
<1>10. SectionKnowsLastVersion'
  <2> SUFFICES ASSUME NEW d \in Days
               PROVE  /\ \A v \in Versions : v > sections'[d].ver => signals'[<<d, v>>] = "absent"
                      /\ sections'[d].ver > 0 => signals'[<<d, sections'[d].ver>>] = "active"
    BY DEF SectionKnowsLastVersion
  <2>1. /\ \A v \in Versions : v > sections[d].ver => signals[<<d, v>>] = "absent"
        /\ sections[d].ver > 0 => signals[<<d, sections[d].ver>>] = "active"
    BY DEF VersionsInv, SectionKnowsLastVersion
  <2>2. sections[d].ver > 0 => sections[d].ver \in Versions
    BY <1>4 DEF Versions
  <2>3. CASE Writes(d)
    <3>1. sections'[d].ver = 1 /\ d \in Legacy /\ sections[d].ver <= 1
      BY <1>3, <1>4, <2>3 DEF Writes
    <3>2. ASSUME NEW v \in Versions, v > 1 PROVE signals'[<<d, v>>] = "absent"
      <4>1. v > sections[d].ver /\ v # 1
        BY <1>4, <3>1, <3>2 DEF Versions
      <4> QED
        BY <1>6, <2>1, <4>1
    <3> QED
      BY <1>2, <1>6, <3>1, <3>2
  <2>4. CASE ~Writes(d)
    <3>1. sections'[d] = sections[d]
      BY <1>4, <2>4
    <3>2. d \in Legacy => sections[d].ver > 0
      BY <1>4, <1>9, <2>4 DEF Writes
    <3>3. ASSUME NEW v \in Versions, v > sections[d].ver PROVE signals'[<<d, v>>] = "absent"
      <4>1. d \in Legacy => v # 1
        BY <1>4, <3>2, <3>3 DEF Versions
      <4> QED
        BY <1>6, <2>1, <3>3, <4>1
    <3>4. sections[d].ver > 0 => signals'[<<d, sections[d].ver>>] = "active"
      BY <1>6, <2>1, <2>2
    <3> QED
      BY <3>1, <3>3, <3>4
  <2> QED
    BY <2>3, <2>4
<1>11. FirstVersions'
  <2> SUFFICES ASSUME NEW d \in Days
               PROVE  IF sections'[d].byRun THEN sections'[d].ver > 0 ELSE sections'[d].ver <= 1
    BY DEF FirstVersions
  <2> QED
    BY <1>3, <1>4, <1>9
<1>12. LastVersionShown'
  <2> SUFFICES ASSUME NEW d \in Days, NEW v \in Versions, signals'[<<d, v>>] = "active"
               PROVE  v = sections'[d].ver \/ (v = 1 /\ d \in reimported')
    BY DEF LastVersionShown
  <2>1. signals[<<d, v>>] = "active" => v = sections[d].ver \/ (v = 1 /\ d \in reimported)
    BY DEF VersionsInv, LastVersionShown
  <2>2. CASE Writes(d)
    <3>1. sections'[d].ver = 1 /\ sections[d].ver \in {0, 1}
      BY <1>3, <1>4, <2>2 DEF Writes
    <3>2. v \in Nat /\ v > 0
      BY DEF Versions
    <3>3. v = 1
      BY <1>6, <2>1, <3>1, <3>2
    <3> QED
      BY <3>1, <3>3
  <2>3. CASE ~Writes(d)
    <3>1. sections'[d] = sections[d]
      BY <1>4, <2>3
    <3>2. CASE d \in Legacy /\ v = 1
      <4>1. sections[d].byRun \/ sections[d].ver > 1
        BY <1>4, <2>3, <3>2 DEF Writes
      <4>2. sections[d].byRun
        BY <1>4, <1>9, <4>1
      <4> QED
        BY <1>1, <3>2, <4>2
    <3>3. CASE ~(d \in Legacy /\ v = 1)
      BY <1>1, <1>6, <2>1, <3>1, <3>3
    <3> QED
      BY <3>2, <3>3
  <2> QED
    BY <2>2, <2>3
<1> QED
  BY <1>1, <1>5, <1>7, <1>8, <1>10, <1>11, <1>12 DEF VersionsInv

-----------------------------------------------------------------------------
(* Steps                                                                   *)

LEMMA InitSignals == Init => SignalInv
<1> SUFFICES ASSUME Init PROVE SignalInv
  OBVIOUS
<1>1. Known = {} /\ Active = {}
  BY DEF Init, Known, Active
<1>2. RunsInv
  BY <1>1 DEF Init, RunsInv, RunsHaveJobs, OneActiveRunPerRange, RetryCoversFailures
<1>3. document \in [Days -> Contents]
  BY SignalAssumption DEF Init
<1>4. 0 \in 0 .. MaxVersion
  BY SignalAssumption
<1>5. \A d \in Days : sections[d].ver = 0 /\ sections[d].byRun = FALSE
  BY DEF Init
<1>6. sections \in [Days -> SectionRow]
  BY <1>4 DEF Init, SectionRow
<1>7. \A d \in Days, v \in Versions : signals[<<d, v>>] = "absent"
  BY DEF Init, Signals
<1>8. SectionKnowsLastVersion /\ FirstVersions /\ LastVersionShown
  BY <1>5, <1>7 DEF SectionKnowsLastVersion, FirstVersions, LastVersionShown
<1>9. signals \in [Signals -> {"absent", "active", "superseded"}] /\ reimported \subseteq Days
  BY DEF Init
<1> QED
  BY <1>2, <1>3, <1>6, <1>8, <1>9 DEF SignalInv, VersionsInv

LEMMA RunsUntouched ==
    ASSUME RunsInv, UNCHANGED <<runs, jobs, dead>> PROVE RunsInv'
BY DEF RunsInv, RunsHaveJobs, OneActiveRunPerRange, RetryCoversFailures, Known, Active

LEMMA VersionsUntouched ==
    ASSUME VersionsInv, document' \in [Days -> Contents],
           UNCHANGED <<sections, signals, reimported>>
    PROVE  VersionsInv'
BY DEF VersionsInv, SectionKnowsLastVersion, FirstVersions, LastVersionShown

LEMMA SyncDayKeeps ==
    ASSUME VersionsInv, NEW r \in Runs, NEW d \in Days, SyncDay(r, d)
    PROVE  VersionsInv'
<1>1. document' = document
  BY DEF SyncDay
<1>2. CASE document[d] = sections[d].content
  <2>1. UNCHANGED <<sections, signals, reimported>>
    BY <1>2 DEF SyncDay
  <2> QED
    BY <1>1, <2>1, VersionsUntouched DEF VersionsInv
<1>3. CASE document[d] # sections[d].content
  BY <1>1, <1>3, NextVersion DEF SyncDay
<1> QED
  BY <1>2, <1>3

LEMMA WorkerKeeps ==
    ASSUME SignalInv, NEW r \in Runs, Worker(r) \/ Crash(r)
    PROVE  SignalInv'
<1> USE DEF SignalInv
<1>1. RunsInv'
  BY JobKeeps, WorkKeeps DEF Worker
<1>2. CASE \E d \in Days : SyncDay(r, d)
  BY <1>1, <1>2, SyncDayKeeps
<1>3. CASE FetchJob(r) \/ Claim(r) \/ Finish(r) \/ EndJob(r) \/ Crash(r) \/ \E d \in Days : FailDay(r, d)
  <2>1. UNCHANGED <<document, sections, signals, reimported>>
    BY <1>3 DEF FetchJob, Claim, Finish, EndJob, Crash, FailDay
  <2> QED
    BY <1>1, <2>1, VersionsUntouched DEF VersionsInv
<1> QED
  BY <1>2, <1>3 DEF Worker

LEMMA RequestKeeps ==
    ASSUME SignalInv, NEW r \in Runs,
           (\E b \in Bodies : Enqueue(r, b, "manual", {})) \/ (\E p \in Runs : Retry(p, r))
    PROVE  SignalInv'
<1> USE DEF SignalInv
<1>1. RunsInv'
  <2>1. ASSUME NEW b \in Bodies, Enqueue(r, b, "manual", {}) PROVE RunsInv'
    BY <2>1, EnqueueKeeps
  <2>2. ASSUME NEW p \in Runs, Retry(p, r) PROVE RunsInv'
    BY <2>2, RetryKeeps
  <2> QED
    BY <2>1, <2>2
<1>2. UNCHANGED <<document, sections, signals, reimported>>
  BY DEF Retry, Enqueue
<1> QED
  BY <1>1, <1>2, VersionsUntouched DEF VersionsInv

LEMMA WriteKeeps ==
    ASSUME SignalInv, NEW d \in Days, NEW c \in Contents, Write(d, c)
    PROVE  SignalInv'
<1>1. document' \in [Days -> Contents]
  BY DEF Write, SignalInv, VersionsInv
<1>2. UNCHANGED <<runs, jobs, dead, sections, signals, reimported>>
  BY DEF Write
<1> QED
  BY <1>1, <1>2, RunsUntouched, VersionsUntouched DEF SignalInv

-----------------------------------------------------------------------------
(* Theorems *)

\* The inductive invariant: the ledger of runs with its jobs, and the ledger
\* of versions with what an import may still write.
THEOREM SignalSafety == Spec => []SignalInv
<1>1. ASSUME SignalInv, [Next]_vars PROVE SignalInv'
  <2>1. ASSUME NEW c \in Contents, Import(c) PROVE SignalInv'
    <3>1. UNCHANGED <<runs, jobs, dead>>
      BY <2>1 DEF Import
    <3> QED
      BY <1>1, <2>1, <3>1, RunsUntouched, ImportKeeps DEF SignalInv
  <2>2. CASE UNCHANGED vars
    <3>1. UNCHANGED <<runs, jobs, dead, document, sections, signals, reimported>>
      BY <2>2 DEF vars
    <3> QED
      BY <1>1, <3>1, RunsUntouched, VersionsUntouched DEF SignalInv, VersionsInv
  <2>3. ASSUME NEW r \in Runs, Worker(r) \/ Crash(r) PROVE SignalInv'
    BY <1>1, <2>3, WorkerKeeps
  <2>4. ASSUME NEW r \in Runs,
               (\E b \in Bodies : Enqueue(r, b, "manual", {})) \/ (\E p \in Runs : Retry(p, r))
        PROVE  SignalInv'
    BY <1>1, <2>4, RequestKeeps
  <2>5. ASSUME NEW d \in Days, NEW c \in Contents, Write(d, c) PROVE SignalInv'
    BY <1>1, <2>5, WriteKeeps
  <2> QED
    BY <1>1, <2>1, <2>2, <2>3, <2>4, <2>5 DEF Next
<1> QED
  BY <1>1, InitSignals, PTL DEF Spec

\* The tables keep their types, run and job come together whatever dies or is
\* raised between them, no range is run twice at a time, and the version on
\* record is the last one and, an import's first version apart, alone shown.
THEOREM SignalLedgersAgree == Spec => []LedgersAgree
<1>1. ASSUME SignalInv PROVE LedgersAgree
  <2>1. TypeOK
    BY <1>1 DEF SignalInv, RunsInv, VersionsInv, TypeOK, SectionRow
  <2> QED
    BY <1>1, <2>1 DEF SignalInv, RunsInv, VersionsInv, LedgersAgree
<1> QED
  BY <1>1, SignalSafety, PTL

\* A retry reads every day again that its predecessor failed on, whatever the
\* failures, the span and the length of the document.
THEOREM SignalRetryCovers == Spec => []RetryCoversFailures
<1>1. SignalInv => RetryCoversFailures
  BY DEF SignalInv, RunsInv
<1> QED
  BY <1>1, SignalSafety, PTL

-----------------------------------------------------------------------------
(* Sums over finite sets (SumFunctionOnSet): recursion over a set, by the  *)
(* least size at which something would be wrong.                           *)

\* A recursion over the subsets of S, each less the element that ch chooses of it.
Chooses(ch, S) == \A s \in (SUBSET S) \ {{}} : ch[s] \in s
Folding(S, base, step, ch, g) ==
    \A s \in SUBSET S : g[s] = IF s = {} THEN base ELSE step[<<ch[s], g[s \ {ch[s]}]>>]

\* Over a finite set it has a solution.
LEMMA RecursionExists ==
    ASSUME NEW S, IsFiniteSet(S), NEW A, NEW base \in A, NEW step \in [S \X A -> A],
           NEW ch, Chooses(ch, S)
    PROVE  \E g \in [SUBSET S -> A] : Folding(S, base, step, ch, g)
<1> DEFINE Again(g) == [s \in SUBSET S |-> IF s = {} THEN base ELSE step[<<ch[s], g[s \ {ch[s]}]>>]]
           Unfolds(g, n) == \A s \in SUBSET S : Cardinality(s) <= n => g[s] = Again(g)[s]
           Bad == {n \in Nat : ~ \E g \in [SUBSET S -> A] : Unfolds(g, n)}
<1>1. \A g \in [SUBSET S -> A] : Again(g) \in [SUBSET S -> A]
  BY DEF Chooses
<1>2. \A s \in SUBSET S : IsFiniteSet(s) /\ Cardinality(s) \in Nat
  BY FS_Subset, FS_CardinalityType
<1>3. ASSUME NEW g \in [SUBSET S -> A], NEW n \in Nat, Unfolds(g, n)
      PROVE  Unfolds(Again(g), n + 1)
  <2> SUFFICES ASSUME NEW s \in SUBSET S, Cardinality(s) <= n + 1
               PROVE  Again(g)[s] = Again(Again(g))[s]
    OBVIOUS
  <2>1. CASE s = {}
    BY <2>1
  <2>2. CASE s # {}
    <3> DEFINE u == s \ {ch[s]}
    <3>1. ch[s] \in s /\ u \in SUBSET S
      BY <2>2 DEF Chooses
    <3>2. Cardinality(u) = Cardinality(s) - 1
      BY <1>2, <3>1, FS_RemoveElement
    <3>3. Cardinality(u) <= n
      BY <1>2, <3>2
    <3>4. g[u] = Again(g)[u]
      BY <1>3, <3>1, <3>3
    <3> HIDE DEF u
    <3>5. Again(g)[s] = step[<<ch[s], g[u]>>]
      BY <2>2 DEF u
    <3>6. Again(Again(g))[s] = step[<<ch[s], Again(g)[u]>>]
      BY <2>2 DEF u
    <3> HIDE DEF Again
    <3> QED
      BY <3>4, <3>5, <3>6
  <2> QED
    BY <2>1, <2>2
<1>4. 0 \notin Bad
  <2> DEFINE g == [s \in SUBSET S |-> base]
  <2>1. \A s \in SUBSET S : Cardinality(s) <= 0 => s = {}
    <3> SUFFICES ASSUME NEW s \in SUBSET S, Cardinality(s) <= 0 PROVE s = {}
      OBVIOUS
    <3>1. Cardinality(s) = 0
      BY <1>2
    <3> QED
      BY <1>2, <3>1, FS_EmptySet
  <2>2. g \in [SUBSET S -> A] /\ Unfolds(g, 0)
    BY <2>1
  <2> QED
    BY <2>2
<1>5. Bad = {}
  <2> SUFFICES ASSUME Bad # {} PROVE FALSE
    OBVIOUS
  <2>1. Bad \subseteq Nat
    OBVIOUS
  <2> HIDE DEF Bad
  <2>2. PICK m \in Bad : \A k \in Bad : m <= k
    BY <2>1, Least
  <2>3. m \in Nat /\ m # 0 /\ m - 1 \in Nat /\ ~(m <= m - 1) /\ (m - 1) + 1 = m
    BY <1>4, <2>1, <2>2
  <2>4. m - 1 \notin Bad
    BY <2>2, <2>3
  <2>5. PICK g \in [SUBSET S -> A] : Unfolds(g, m - 1)
    BY <2>3, <2>4 DEF Bad
  <2>6. Again(g) \in [SUBSET S -> A]
    BY <1>1
  <2> HIDE DEF Again, Unfolds
  <2>7. Unfolds(Again(g), (m - 1) + 1)
    BY <1>3, <2>3, <2>5
  <2>8. Unfolds(Again(g), m)
    BY <2>3, <2>7
  <2>9. m \notin Bad
    BY <2>6, <2>8 DEF Bad
  <2> QED
    BY <2>2, <2>9
<1>6. Cardinality(S) \in Nat
  BY FS_CardinalityType
<1>7. PICK g \in [SUBSET S -> A] : Unfolds(g, Cardinality(S))
  BY <1>5, <1>6
<1>8. \A s \in SUBSET S : Cardinality(s) <= Cardinality(S)
  BY FS_Subset
<1>9. \A s \in SUBSET S : g[s] = Again(g)[s]
  BY <1>7, <1>8
<1> QED
  BY <1>9 DEF Folding

\* The recursion that SumFunctionOnSet unfolds.
Chosen(s) == CHOOSE x \in s : TRUE
Summing(f, S, g) ==
    g = [s \in SUBSET S |-> IF s = {} THEN 0 ELSE f[Chosen(s)] + g[s \ {Chosen(s)}]]

\* Whatever set a sum is part of, it is the same.
LEMMA SummingCoheres ==
    ASSUME NEW S, IsFiniteSet(S), NEW T, NEW f, NEW g, NEW h, Summing(f, S, g), Summing(f, T, h)
    PROVE  \A s \in (SUBSET S) \cap (SUBSET T) : g[s] = h[s]
<1> DEFINE Odd == {s \in (SUBSET S) \cap (SUBSET T) : g[s] # h[s]}
           Sizes == {Cardinality(s) : s \in Odd}
<1>1. SUFFICES ASSUME Odd # {} PROVE FALSE
  OBVIOUS
<1>2. \A s \in SUBSET S : IsFiniteSet(s) /\ Cardinality(s) \in Nat
  BY FS_Subset, FS_CardinalityType
<1>3. Sizes \subseteq Nat /\ Sizes # {}
  BY <1>1, <1>2
<1> HIDE DEF Sizes
<1>4. PICK m \in Sizes : \A k \in Sizes : m <= k
  BY <1>3, Least
<1>5. PICK s \in Odd : m = Cardinality(s)
  BY <1>4 DEF Sizes
<1>6. CASE s = {}
  BY <1>5, <1>6 DEF Summing
<1>7. CASE s # {}
  <2> DEFINE u == s \ {Chosen(s)}
  <2>1. Chosen(s) \in s /\ u \in (SUBSET S) \cap (SUBSET T)
    BY <1>5, <1>7 DEF Chosen
  <2>2. Cardinality(u) = Cardinality(s) - 1
    BY <1>2, <1>5, <2>1, FS_RemoveElement
  <2>3. Cardinality(u) \in Nat /\ ~(m <= Cardinality(u))
    BY <1>2, <1>5, <2>1, <2>2
  <2>4. u \notin Odd
    BY <1>4, <2>3 DEF Sizes
  <2>5. g[u] = h[u]
    BY <2>1, <2>4
  <2>6. g[s] = f[Chosen(s)] + g[u] /\ h[s] = f[Chosen(s)] + h[u]
    BY <1>5, <1>7 DEF Summing
  <2> QED
    BY <1>5, <2>5, <2>6
<1> QED
  BY <1>6, <1>7

\* The sum over a set is what such a recursion gives.
LEMMA SumIsSumming ==
    ASSUME NEW S, IsFiniteSet(S), NEW f, \A x \in S : f[x] \in Int
    PROVE  \E g \in [SUBSET S -> Int] : Summing(f, S, g) /\ SumFunctionOnSet(f, S) = g[S]
<1> DEFINE P(g) == g = [s \in SUBSET S |-> IF s = {} THEN 0
                          ELSE f[CHOOSE x \in s : TRUE] + g[s \ {CHOOSE x \in s : TRUE}]]
           G == CHOOSE g : P(g)
           ch == [s \in SUBSET S |-> CHOOSE x \in s : TRUE]
           step == [p \in S \X Int |-> f[p[1]] + p[2]]
<1>1. step \in [S \X Int -> Int]
  OBVIOUS
<1>2. Chooses(ch, S)
  BY DEF Chooses
<1>3. PICK g \in [SUBSET S -> Int] : Folding(S, 0, step, ch, g)
  <2> DEFINE A == Int
  <2>1. 0 \in A /\ step \in [S \X A -> A]
    BY <1>1
  <2> HIDE DEF step, ch
  <2>2. \E g \in [SUBSET S -> A] : Folding(S, 0, step, ch, g)
    BY <1>2, <2>1, RecursionExists
  <2> QED
    BY <2>2
<1>4. P(g)
  <2>1. ASSUME NEW s \in SUBSET S, s # {}
        PROVE  step[<<ch[s], g[s \ {ch[s]}]>>] = f[Chosen(s)] + g[s \ {Chosen(s)}]
    <3>1. ch[s] = Chosen(s) /\ Chosen(s) \in s
      BY <1>2, <2>1 DEF Chosen, Chooses
    <3>2. g[s \ {Chosen(s)}] \in Int
      BY <1>3
    <3> HIDE DEF ch
    <3> QED
      BY <3>1, <3>2
  <2>2. \A s \in SUBSET S : g[s] = IF s = {} THEN 0 ELSE f[Chosen(s)] + g[s \ {Chosen(s)}]
    <3> HIDE DEF step, ch
    <3> QED
      BY <1>3, <2>1 DEF Folding
  <2>3. g = [s \in SUBSET S |-> IF s = {} THEN 0 ELSE f[Chosen(s)] + g[s \ {Chosen(s)}]]
    BY <2>2
  <2> QED
    BY <2>3 DEF Chosen
<1>5. P(G)
  <2> HIDE DEF P
  <2> QED
    BY <1>4
<1>6. SumFunctionOnSet(f, S) = G[S]
  BY DEF SumFunctionOnSet, FoldFunctionOnSet, MapThenFoldSet
<1>7. Summing(f, S, G)
  BY <1>5 DEF Summing, Chosen
<1>8. G[S] = g[S]
  <2>1. Summing(f, S, g)
    BY <1>4 DEF Summing, Chosen
  <2>2. S \in (SUBSET S) \cap (SUBSET S)
    OBVIOUS
  <2> HIDE DEF G
  <2> QED
    BY <1>7, <2>1, <2>2, SummingCoheres
<1> QED
  BY <1>3, <1>4, <1>6, <1>8 DEF Summing, Chosen

\* A sum is an integer, 0 over nothing, and what its first element leaves.
LEMMA SumOf ==
    ASSUME NEW S, IsFiniteSet(S), NEW f, \A x \in S : f[x] \in Int
    PROVE  /\ SumFunctionOnSet(f, S) \in Int
           /\ S = {} => SumFunctionOnSet(f, S) = 0
           /\ S # {} => SumFunctionOnSet(f, S) =
                  f[Chosen(S)] + SumFunctionOnSet(f, S \ {Chosen(S)})
<1>1. PICK g \in [SUBSET S -> Int] : Summing(f, S, g) /\ SumFunctionOnSet(f, S) = g[S]
  BY SumIsSumming
<1>2. CASE S # {}
  <2> DEFINE U == S \ {Chosen(S)}
  <2>1. U \subseteq S /\ IsFiniteSet(U) /\ \A x \in U : f[x] \in Int
    BY FS_Subset
  <2> HIDE DEF U
  <2>2. PICK h \in [SUBSET U -> Int] : Summing(f, U, h) /\ SumFunctionOnSet(f, U) = h[U]
    BY <2>1, SumIsSumming
  <2>3. U \in (SUBSET S) \cap (SUBSET U)
    BY <2>1
  <2>4. g[U] = h[U]
    BY <1>1, <2>2, <2>3, SummingCoheres
  <2>5. g[S] = f[Chosen(S)] + g[U]
    BY <1>1, <1>2 DEF Summing, U
  <2> QED
    BY <1>1, <1>2, <2>2, <2>4, <2>5 DEF U
<1>3. CASE S = {}
  BY <1>1, <1>3 DEF Summing
<1> QED
  BY <1>1, <1>2, <1>3

\* A sum does not depend on the element taken first.
LEMMA SumTakesAny ==
    ASSUME NEW S, IsFiniteSet(S), NEW f, \A x \in S : f[x] \in Int, NEW x \in S
    PROVE  SumFunctionOnSet(f, S) = f[x] + SumFunctionOnSet(f, S \ {x})
<1> DEFINE Sum(s) == SumFunctionOnSet(f, s)
           Odd == {s \in SUBSET S : \E y \in s : Sum(s) # f[y] + Sum(s \ {y})}
           Sizes == {Cardinality(s) : s \in Odd}
<1>1. SUFFICES ASSUME Odd # {} PROVE FALSE
  BY FS_Subset
<1>2. \A s \in SUBSET S : IsFiniteSet(s) /\ Cardinality(s) \in Nat
  BY FS_Subset, FS_CardinalityType
<1>3. Sizes \subseteq Nat /\ Sizes # {}
  BY <1>1, <1>2
<1> HIDE DEF Sizes
<1>4. PICK m \in Sizes : \A k \in Sizes : m <= k
  BY <1>3, Least
<1>5. PICK s \in Odd : m = Cardinality(s)
  BY <1>4 DEF Sizes
<1>6. PICK y \in s : Sum(s) # f[y] + Sum(s \ {y})
  BY <1>5
<1> DEFINE c == Chosen(s)
<1>7. c \in s
  BY <1>6 DEF Chosen
<1>8. ASSUME NEW u \in SUBSET s
      PROVE  /\ u \in SUBSET S /\ IsFiniteSet(u) /\ \A z \in u : f[z] \in Int
             /\ Sum(u) \in Int
  <2>1. u \in SUBSET S /\ IsFiniteSet(u) /\ \A z \in u : f[z] \in Int
    BY <1>2, <1>5, <1>8
  <2> QED
    BY <2>1, SumOf
<1>9. ASSUME NEW z \in s, NEW w \in s \ {z}
      PROVE  Sum(s \ {z}) = f[w] + Sum((s \ {z}) \ {w})
  <2> DEFINE u == s \ {z}
  <2>1. u \in SUBSET S /\ w \in u
    BY <1>8
  <2>2. Cardinality(u) = Cardinality(s) - 1 /\ Cardinality(s) \in Nat
    BY <1>2, <1>5, FS_RemoveElement
  <2>3. Cardinality(u) \in Nat /\ ~(m <= Cardinality(u))
    BY <1>2, <1>5, <2>1, <2>2
  <2>4. u \notin Odd
    BY <1>4, <2>3 DEF Sizes
  <2> HIDE DEF Sum
  <2> QED
    BY <2>1, <2>4
<1>10. Sum(s) = f[c] + Sum(s \ {c})
  BY <1>7, <1>8, SumOf
<1>11. c # y
  BY <1>6, <1>10
<1>12. Sum(s \ {c}) = f[y] + Sum((s \ {c}) \ {y}) /\ Sum(s \ {y}) = f[c] + Sum((s \ {y}) \ {c})
  BY <1>6, <1>7, <1>9, <1>11
<1>13. (s \ {c}) \ {y} = (s \ {y}) \ {c}
  OBVIOUS
<1>14. f[c] \in Int /\ f[y] \in Int /\ Sum((s \ {y}) \ {c}) \in Int
  BY <1>6, <1>7, <1>8
<1>15. Sum(s) = f[y] + Sum(s \ {y})
  <2> DEFINE rest == Sum((s \ {y}) \ {c})
  <2>1. Sum(s) = f[c] + (f[y] + rest) /\ Sum(s \ {y}) = f[c] + rest
    BY <1>10, <1>12, <1>13
  <2>2. f[c] \in Int /\ f[y] \in Int /\ rest \in Int
    BY <1>14
  <2> HIDE DEF rest, Sum, c
  <2> QED
    BY <2>1, <2>2
<1> QED
  BY <1>6, <1>15

\* The values of finitely many arguments.
LEMMA ImageIsFinite ==
    ASSUME NEW S, IsFiniteSet(S), NEW f
    PROVE  IsFiniteSet({f[x] : x \in S})
<1> DEFINE T == {f[x] : x \in S}
           g == [x \in S |-> f[x]]
<1>1. g \in Surjection(S, T)
  BY DEF Surjection
<1> HIDE DEF T, g
<1>2. IsFiniteSet(T)
  BY <1>1, FS_Surjection
<1> QED
  BY <1>2 DEF T

\* A sum over a set is the sum over its part outside which the values are 0.
LEMMA SumOfPart ==
    ASSUME NEW S, IsFiniteSet(S), NEW T \in SUBSET S,
           NEW f, \A x \in T : f[x] \in Int,
           NEW g, \A x \in S : g[x] = IF x \in T THEN f[x] ELSE 0
    PROVE  SumFunctionOnSet(g, S) = SumFunctionOnSet(f, T)
<1> DEFINE Odd == {s \in SUBSET S : SumFunctionOnSet(g, s) # SumFunctionOnSet(f, s \cap T)}
           Sizes == {Cardinality(s) : s \in Odd}
<1>1. SUFFICES ASSUME Odd # {} PROVE FALSE
  <2>1. S \cap T = T
    OBVIOUS
  <2> QED
    BY <2>1
<1>2. \A s \in SUBSET S : IsFiniteSet(s) /\ Cardinality(s) \in Nat
  BY FS_Subset, FS_CardinalityType
<1>3. Sizes \subseteq Nat /\ Sizes # {}
  BY <1>1, <1>2
<1> HIDE DEF Sizes
<1>4. PICK m \in Sizes : \A k \in Sizes : m <= k
  BY <1>3, Least
<1>5. PICK s \in Odd : m = Cardinality(s)
  BY <1>4 DEF Sizes
<1>6. \A x \in S : g[x] \in Int
  OBVIOUS
<1>7. /\ IsFiniteSet(s) /\ IsFiniteSet(s \cap T)
      /\ \A x \in s : g[x] \in Int
      /\ \A x \in s \cap T : f[x] \in Int
  BY <1>2, <1>5, <1>6
<1>8. CASE s = {}
  <2>1. s \cap T = {}
    BY <1>8
  <2> QED
    BY <1>5, <1>7, <1>8, <2>1, SumOf
<1>9. CASE s # {}
  <2>1. PICK x \in s : TRUE
    BY <1>9
  <2> DEFINE u == s \ {x}
  <2>2. u \in SUBSET S /\ Cardinality(u) = Cardinality(s) - 1
    BY <1>2, <1>5, <2>1, FS_RemoveElement
  <2>3. Cardinality(u) \in Nat /\ ~(m <= Cardinality(u))
    BY <1>2, <1>5, <2>2
  <2>4. u \notin Odd
    BY <1>4, <2>3 DEF Sizes
  <2>5. SumFunctionOnSet(g, u) = SumFunctionOnSet(f, u \cap T)
    BY <2>2, <2>4
  <2>6. SumFunctionOnSet(g, s) = g[x] + SumFunctionOnSet(g, u)
    BY <1>7, <2>1, SumTakesAny
  <2>7. CASE x \in T
    <3>1. SumFunctionOnSet(f, s \cap T) = f[x] + SumFunctionOnSet(f, (s \cap T) \ {x})
      BY <1>7, <2>1, <2>7, SumTakesAny
    <3>2. (s \cap T) \ {x} = u \cap T
      OBVIOUS
    <3>3. g[x] = f[x]
      BY <1>5, <2>1, <2>7
    <3> HIDE DEF u
    <3> QED
      BY <1>5, <2>5, <2>6, <3>1, <3>2, <3>3
  <2>8. CASE x \notin T
    <3>1. s \cap T = u \cap T /\ g[x] = 0
      BY <1>5, <2>1, <2>8
    <3>2. SumFunctionOnSet(g, u) \in Int
      BY <1>2, <1>6, <2>2, SumOf
    <3>3. SumFunctionOnSet(g, s) = SumFunctionOnSet(g, u)
      BY <2>6, <3>1, <3>2
    <3> QED
      BY <1>5, <2>5, <3>1, <3>3
  <2> QED
    BY <2>7, <2>8
<1> QED
  BY <1>8, <1>9

\* A sum of values up to n.
LEMMA SumIsBounded ==
    ASSUME NEW S, IsFiniteSet(S), NEW n \in Nat, NEW f, \A x \in S : f[x] \in 0 .. n
    PROVE  SumFunctionOnSet(f, S) \in 0 .. (n * Cardinality(S))
<1> DEFINE Odd == {s \in SUBSET S : SumFunctionOnSet(f, s) \notin 0 .. (n * Cardinality(s))}
           Sizes == {Cardinality(s) : s \in Odd}
<1>1. SUFFICES ASSUME Odd # {} PROVE FALSE
  OBVIOUS
<1>2. \A s \in SUBSET S : IsFiniteSet(s) /\ Cardinality(s) \in Nat
  BY FS_Subset, FS_CardinalityType
<1>3. Sizes \subseteq Nat /\ Sizes # {}
  BY <1>1, <1>2
<1> HIDE DEF Sizes
<1>4. PICK m \in Sizes : \A k \in Sizes : m <= k
  BY <1>3, Least
<1>5. PICK s \in Odd : m = Cardinality(s)
  BY <1>4 DEF Sizes
<1>6. IsFiniteSet(s) /\ \A x \in s : f[x] \in Int
  BY <1>2, <1>5
<1>7. CASE s = {}
  <2>1. Cardinality(s) = 0 /\ SumFunctionOnSet(f, s) = 0
    BY <1>6, <1>7, FS_EmptySet, SumOf
  <2> QED
    BY <1>5, <2>1
<1>8. CASE s # {}
  <2>1. PICK x \in s : TRUE
    BY <1>8
  <2> DEFINE u == s \ {x}
  <2>2. u \in SUBSET S /\ Cardinality(u) = Cardinality(s) - 1
    BY <1>2, <1>5, <2>1, FS_RemoveElement
  <2>3. Cardinality(u) \in Nat /\ Cardinality(s) \in Nat /\ ~(m <= Cardinality(u))
    BY <1>2, <1>5, <2>2
  <2>4. u \notin Odd
    BY <1>4, <2>3 DEF Sizes
  <2>5. SumFunctionOnSet(f, u) \in 0 .. (n * Cardinality(u))
    BY <2>2, <2>4
  <2>6. SumFunctionOnSet(f, s) = f[x] + SumFunctionOnSet(f, u) /\ f[x] \in 0 .. n
    BY <1>5, <1>6, <2>1, SumTakesAny
  <2>7. n * Cardinality(s) = n * Cardinality(u) + n
    BY <2>2, <2>3
  <2>8. n * Cardinality(u) \in Int
    BY <2>3
  <2> HIDE DEF u
  <2>9. SumFunctionOnSet(f, s) \in 0 .. (n * Cardinality(s))
    BY <2>5, <2>6, <2>7, <2>8
  <2> QED
    BY <1>5, <2>9
<1> QED
  BY <1>7, <1>8

-----------------------------------------------------------------------------
(* BarSync                                                                 *)

Fields == {"at", "kind", "day", "todo", "cur", "read", "pend", "done", "result", "cross", "dels"}
Writable == [Secids -> BarDays]

\* Signals of day d, one of a theme, computed from rows that view has.
Crossed(crossings, d, view) ==
    /\ \A x \in crossings :
          /\ x.theme \in Themes /\ x.day = d /\ x.base \in Writable
          /\ \A s \in Secids : x.base[s] <= view[s]
    /\ \A x, y \in crossings : x.theme = y.theme => x = y

\* A job, when the rows stored are those of b and the day is t: the rows it
\* will commit are never behind those its crossings were computed from.
JobOk(r, b, t) ==
    /\ r = [f \in Fields |-> r[f]]
    /\ r.at \in {"idle", "fetch", "flush", "push", "blocked"}
    /\ r.day \in BarDays /\ r.day <= t
    /\ r.pend \in Writable
    /\ r.todo \subseteq (IF r.kind = "pressure" THEN ToSet(Order) ELSE Insts)
    /\ r.at = "flush" => r.kind = "pressure"
    /\ r.at = "blocked" =>
          /\ r.cur[1] \in Secids /\ r.cur[2] \in BarDays
          /\ r.cur[3] = IF r.kind = "pressure" THEN "flush" ELSE "fetch"
    /\ r.at = "push" => Crossed(r.cross, r.day, Later(b, r.pend))

JobsInv == job = [j \in Jobs |-> job[j]] /\ \A j \in Jobs : JobOk(job[j], bars, today)

OneWriter ==
    \A s \in Secids : \A j, k \in Jobs : job[j].pend[s] > 0 /\ job[k].pend[s] > 0 => j = k

SignalsInv ==
    /\ \A x \in posted : x.theme \in Themes /\ x.day \in 0 .. today /\ x.base \in Writable
    /\ SignalsComeWithBars
    /\ OneSignalPerThemeDay

BarInv ==
    /\ market \in DOMAIN Markets
    /\ today \in FirstDay .. LastDay
    /\ bars \in Writable
    /\ started \in 0 .. MaxRuns
    /\ JobsInv /\ OneWriter /\ SignalsInv

-----------------------------------------------------------------------------
(* What the helpers return                                                 *)

LEMMA IdleOk ==
    ASSUME NEW b, NEW t \in Nat
    PROVE  JobOk(Idle, b, t) /\ Idle.at = "idle" /\ \A s \in Secids : Idle.pend[s] = 0
<1>1. Idle = [f \in Fields |-> Idle[f]]
  BY DEF Idle, Fields
<1>2. NoWrites \in Writable /\ \A s \in Secids : NoWrites[s] = 0
  BY BarAssumption DEF NoWrites, Writable, BarDays
<1>3. Idle.day \in BarDays /\ Idle.day <= t
  BY DEF Idle, BarDays
<1> QED
  BY <1>1, <1>2, <1>3 DEF Idle, JobOk

\* Later keeps the type and takes nothing away.
LEMMA LaterFacts ==
    ASSUME NEW f \in Writable, NEW g \in Writable
    PROVE  /\ Later(f, g) \in Writable
           /\ \A s \in Secids : f[s] <= Later(f, g)[s]
           /\ \A h \in Writable : (\A s \in Secids : f[s] <= h[s]) =>
                 \A s \in Secids : Later(f, g)[s] <= Later(h, g)[s]
BY BarAssumption DEF Later, Writable, BarDays

\* More rows and later days leave a job as good as it was.
LEMMA JobStays ==
    ASSUME NEW r, NEW b \in Writable, NEW t \in Nat, JobOk(r, b, t),
           NEW c \in Writable, NEW u \in Nat, t <= u, \A s \in Secids : b[s] <= c[s]
    PROVE  JobOk(r, c, u)
<1>1. r.pend \in Writable /\ r.day \in BarDays /\ r.day <= u
  BY BarAssumption DEF JobOk, BarDays
<1>2. CASE r.at = "push"
  <2>1. Crossed(r.cross, r.day, Later(b, r.pend))
    BY <1>2 DEF JobOk
  <2>2. \A s \in Secids : Later(b, r.pend)[s] <= Later(c, r.pend)[s]
    BY <1>1, LaterFacts
  <2>3. Later(b, r.pend) \in Writable /\ Later(c, r.pend) \in Writable
    BY <1>1, LaterFacts
  <2>4. ASSUME NEW x \in r.cross, NEW s \in Secids PROVE x.base[s] <= Later(c, r.pend)[s]
    <3>1. x.base \in Writable /\ x.base[s] <= Later(b, r.pend)[s]
      BY <2>1 DEF Crossed
    <3>2. x.base[s] \in Int /\ Later(b, r.pend)[s] \in Int /\ Later(c, r.pend)[s] \in Int
      BY <2>3, <3>1 DEF Writable, BarDays
    <3> QED
      BY <2>2, <3>1, <3>2
  <2>5. Crossed(r.cross, r.day, Later(c, r.pend))
    BY <2>1, <2>4 DEF Crossed
  <2> QED
    BY <1>1, <1>2, <2>5 DEF JobOk
<1>3. CASE r.at # "push"
  BY <1>1, <1>3 DEF JobOk
<1> QED
  BY <1>2, <1>3

\* Today is a day that rows can be stored of.
LEMMA TodayFacts ==
    ASSUME BarInv
    PROVE  today \in Nat /\ today \in BarDays /\ today <= today
BY BarAssumption DEF BarInv, BarDays

-----------------------------------------------------------------------------
(* What the actions have in common                                         *)

\* One job goes on; nothing is committed.
LEMMA OneJobSteps ==
    ASSUME BarInv, NEW j \in Jobs, NEW r, JobOk(r, bars, today),
           \A s \in Secids : r.pend[s] > 0 => job[j].pend[s] > 0 \/ Free(j, s),
           job' = [job EXCEPT ![j] = r], started' \in 0 .. MaxRuns,
           UNCHANGED <<market, today, bars, posted>>
    PROVE  BarInv'
<1>1. job' = [k \in Jobs |-> job'[k]]
  BY DEF BarInv, JobsInv
<1>2. job'[j] = r /\ \A k \in Jobs \ {j} : job'[k] = job[k]
  BY DEF BarInv, JobsInv
<1>3. JobsInv'
  BY <1>1, <1>2 DEF BarInv, JobsInv
<1>4. OneWriter'
  <2> SUFFICES ASSUME NEW s \in Secids, NEW k \in Jobs, k # j, job[k].pend[s] > 0, r.pend[s] > 0
               PROVE  FALSE
    BY <1>2 DEF BarInv, OneWriter
  <2>1. CASE job[j].pend[s] > 0
    BY <2>1 DEF BarInv, OneWriter
  <2>2. CASE Free(j, s)
    BY <2>2 DEF Free, Holders
  <2> QED
    BY <2>1, <2>2
<1>5. SignalsInv'
  BY DEF BarInv, SignalsInv, SignalsComeWithBars, OneSignalPerThemeDay
<1> QED
  BY <1>3, <1>4, <1>5 DEF BarInv

\* A job ends and its rows, none of them older, are stored.
LEMMA JobCommits ==
    ASSUME BarInv, NEW j \in Jobs,
           job' = [job EXCEPT ![j] = Idle], bars' = Later(bars, job[j].pend),
           \A x \in posted' : /\ x.theme \in Themes /\ x.day \in 0 .. today /\ x.base \in Writable
                               /\ \A s \in Secids : x.base[s] <= bars'[s],
           OneSignalPerThemeDay', UNCHANGED <<market, today, started>>
    PROVE  BarInv'
<1>1. bars \in Writable /\ job[j].pend \in Writable /\ today \in Nat
  BY BarAssumption DEF BarInv, JobsInv, JobOk
<1>2. bars' \in Writable /\ \A s \in Secids : bars[s] <= bars'[s]
  BY <1>1, LaterFacts
<1>3. job' = [k \in Jobs |-> job'[k]] /\ job'[j] = Idle /\ \A k \in Jobs \ {j} : job'[k] = job[k]
  BY DEF BarInv, JobsInv
<1>4. ASSUME NEW k \in Jobs PROVE JobOk(job'[k], bars', today')
  <2>1. CASE k = j
    BY <1>1, <1>3, <2>1, IdleOk
  <2>2. CASE k # j
    <3>1. JobOk(job[k], bars, today)
      BY DEF BarInv, JobsInv
    <3>2. JobOk(job[k], bars', today)
      <4> DEFINE c == bars'  r == job[k]
      <4>1. c \in Writable /\ \A s \in Secids : bars[s] <= c[s]
        BY <1>2
      <4>2. JobOk(r, bars, today)
        BY <3>1
      <4> HIDE DEF c, r
      <4>3. JobOk(r, c, today)
        BY <1>1, <4>1, <4>2, JobStays
      <4> QED
        BY <4>3 DEF c, r
    <3> QED
      BY <1>3, <2>2, <3>2
  <2> QED
    BY <2>1, <2>2
<1>5. JobsInv'
  BY <1>3, <1>4 DEF JobsInv
<1>6. OneWriter'
  <2>1. \A s \in Secids : Idle.pend[s] = 0
    BY <1>1, IdleOk
  <2>2. OneWriter
    BY DEF BarInv
  <2>3. \A s \in Secids : job'[j].pend[s] = 0
    BY <1>3, <2>1
  <2> QED
    BY <1>3, <2>2, <2>3 DEF OneWriter
<1>7. SignalsInv'
  BY DEF SignalsInv, SignalsComeWithBars
<1> QED
  BY <1>2, <1>5, <1>6, <1>7 DEF BarInv

\* A job writes rows of s, or waits to.
LEMMA WriteSteps ==
    ASSUME BarInv, NEW j \in Jobs, NEW r, JobOk(r, bars, today), r.pend = job[j].pend,
           r.at = (IF r.kind = "pressure" THEN "flush" ELSE "fetch"),
           NEW s \in Secids, NEW d \in BarDays, UpsertBars(j, r, s, d),
           UNCHANGED <<market, today, bars, posted, started>>
    PROVE  BarInv'
<1>1. r = [f \in Fields |-> r[f]] /\ r.pend \in Writable
  BY DEF JobOk
<1>2. started' \in 0 .. MaxRuns
  BY DEF BarInv
<1>3. CASE Free(j, s)
  <2> DEFINE w == Written(r, s, d)
  <2>1. job' = [job EXCEPT ![j] = w]
    BY <1>3 DEF UpsertBars
  <2>2. w = [f \in Fields |-> w[f]] /\ w.pend = [r.pend EXCEPT ![s] = d]
        /\ \A f \in Fields \ {"pend"} : w[f] = r[f]
    BY <1>1 DEF Written, Fields
  <2>3. /\ w.at = r.at /\ w.kind = r.kind /\ w.day = r.day /\ w.todo = r.todo
        /\ w.at # "push" /\ w.at # "blocked" /\ w.pend \in Writable
    BY <1>1, <2>2 DEF Fields, Writable, BarDays
  <2> HIDE DEF w
  <2>4. JobOk(w, bars, today)
    BY <2>2, <2>3 DEF JobOk
  <2>5. \A q \in Secids : w.pend[q] > 0 => job[j].pend[q] > 0 \/ Free(j, q)
    BY <1>1, <1>3, <2>2 DEF Writable, BarDays
  <2> QED
    BY <1>2, <2>1, <2>4, <2>5, OneJobSteps
<1>4. CASE ~Free(j, s)
  <2> DEFINE w == [r EXCEPT !.at = "blocked", !.cur = <<s, d, r.at>>]
  <2>1. job' = [job EXCEPT ![j] = w]
    BY <1>4 DEF UpsertBars
  <2>2. /\ w = [f \in Fields |-> w[f]] /\ w.at = "blocked" /\ w.cur = <<s, d, r.at>>
        /\ w.kind = r.kind /\ w.day = r.day /\ w.todo = r.todo /\ w.pend = r.pend
    BY <1>1 DEF Fields
  <2> HIDE DEF w
  <2>3. JobOk(w, bars, today)
    BY <2>2 DEF JobOk
  <2> QED
    BY <1>2, <2>1, <2>2, <2>3, OneJobSteps
<1> QED
  BY <1>3, <1>4

\* A job that ends without a commit.
LEMMA GivesUp ==
    ASSUME BarInv, NEW j \in Jobs, job' = [job EXCEPT ![j] = Idle],
           UNCHANGED <<market, today, bars, posted, started>>
    PROVE  BarInv'
<1>1. today \in Nat
  BY BarAssumption DEF BarInv
<1>2. JobOk(Idle, bars, today) /\ \A s \in Secids : ~(Idle.pend[s] > 0)
  BY <1>1, IdleOk
<1> DEFINE r == Idle
<1>3. JobOk(r, bars, today) /\ \A s \in Secids : ~(r.pend[s] > 0)
  BY <1>2
<1>4. job' = [job EXCEPT ![j] = r] /\ started' \in 0 .. MaxRuns
  BY DEF BarInv
<1> HIDE DEF r
<1> QED
  BY <1>3, <1>4, OneJobSteps

LEMMA StepUnblock == ASSUME BarInv, NEW j \in Jobs, Unblock(j) PROVE BarInv'
<1> DEFINE r == job[j]  s == r.cur[1]  d == r.cur[2]
<1>1. JobOk(r, bars, today) /\ r.at = "blocked" /\ Free(j, s)
  BY DEF BarInv, JobsInv, Unblock
<1>2. UNCHANGED <<market, today, bars, posted, started>>
  BY DEF Unblock
<1>3. CASE job' = [job EXCEPT ![j] = Idle]
  BY <1>2, <1>3, GivesUp
<1>4. CASE job' = [job EXCEPT ![j] = Written([r EXCEPT !.at = r.cur[3], !.cur = <<>>], s, d)]
  <2> DEFINE w == [r EXCEPT !.at = r.cur[3], !.cur = <<>>]
  <2>1. r = [f \in Fields |-> r[f]] /\ s \in Secids /\ d \in BarDays
    BY <1>1 DEF JobOk
  <2>2. /\ w = [f \in Fields |-> w[f]] /\ w.at = r.cur[3]
        /\ w.kind = r.kind /\ w.day = r.day /\ w.todo = r.todo /\ w.pend = r.pend
    BY <2>1 DEF Fields
  <2>3. w.at = (IF w.kind = "pressure" THEN "flush" ELSE "fetch")
    BY <1>1, <2>2 DEF JobOk
  <2>4. UpsertBars(j, w, s, d)
    BY <1>1, <1>4 DEF UpsertBars
  <2> HIDE DEF w
  <2>5. JobOk(w, bars, today)
    BY <1>1, <2>2, <2>3 DEF JobOk
  <2> QED
    BY <1>2, <2>1, <2>2, <2>3, <2>4, <2>5, WriteSteps
<1> QED
  BY <1>3, <1>4 DEF Unblock

-----------------------------------------------------------------------------
(* The syncs                                                               *)

LEMMA StepStartSync ==
    ASSUME BarInv, NEW j \in Jobs, NEW kind, kind # "pressure",
           NEW todo \in SUBSET Insts, StartSync(j, kind, todo)
    PROVE  BarInv'
<1> DEFINE r == [Idle EXCEPT !.at = "fetch", !.kind = kind, !.day = today, !.todo = todo]
<1>1. today \in Nat /\ started' \in 0 .. MaxRuns
  BY BarAssumption DEF BarInv, StartSync
<1>2. JobOk(Idle, bars, today) /\ \A s \in Secids : Idle.pend[s] = 0
  BY <1>1, IdleOk
<1>3. Idle = [f \in Fields |-> Idle[f]] /\ Idle.pend \in Writable
  BY <1>2 DEF JobOk
<1>4. /\ r = [f \in Fields |-> r[f]] /\ r.at = "fetch" /\ r.kind = kind /\ r.day = today
      /\ r.todo = todo /\ r.pend = Idle.pend
  BY <1>3 DEF Fields
<1>5. job' = [job EXCEPT ![j] = r] /\ UNCHANGED <<market, today, bars, posted>>
  BY DEF StartSync
<1> HIDE DEF r
<1>6. JobOk(r, bars, today)
  BY <1>1, <1>3, <1>4, TodayFacts DEF JobOk
<1>7. \A s \in Secids : ~(r.pend[s] > 0)
  BY <1>2, <1>4
<1> QED
  BY <1>1, <1>5, <1>6, <1>7, OneJobSteps

LEMMA AnswerOk ==
    ASSUME NEW r, NEW b, NEW t, JobOk(r, b, t), r.at = "fetch", NEW i, NEW res, NEW done
    PROVE  /\ JobOk(Answer(r, i, res, done), b, t)
           /\ Answer(r, i, res, done).pend = r.pend
           /\ Answer(r, i, res, done).at = "fetch"
           /\ Answer(r, i, res, done).kind = r.kind
<1> DEFINE w == Answer(r, i, res, done)
<1>1. r = [f \in Fields |-> r[f]]
  BY DEF JobOk
<1>2. /\ w = [f \in Fields |-> w[f]] /\ w.todo = r.todo \ {i} /\ w.at = r.at
      /\ w.kind = r.kind /\ w.day = r.day /\ w.pend = r.pend
  BY <1>1 DEF Answer, Fields
<1> HIDE DEF w
<1>3. JobOk(w, b, t)
  BY <1>2 DEF JobOk
<1> QED
  BY <1>2, <1>3 DEF w

LEMMA StepServe == ASSUME BarInv, NEW j \in Jobs, Serve(j) PROVE BarInv'
<1> DEFINE r == job[j]
<1>1. JobOk(r, bars, today) /\ r.at = "fetch" /\ r.kind # "pressure" /\ started \in 0 .. MaxRuns
  BY DEF BarInv, JobsInv, Serve
<1>2. PICK i \in r.todo : \E s \in {Resolve(i).secid} :
         \/ s = None /\ Unsupported(j, i)
         \/ s # None /\ HasBars(j, s) /\ Reuse(j, i)
         \/ s # None /\ ~HasBars(j, s) /\ (FetchFails(j, i) \/ Fetch(j, i, s))
  BY DEF Serve
<1>3. ASSUME NEW res, job' = [job EXCEPT ![j] = Answer(job[j], i, res, {})],
             UNCHANGED <<market, today, bars, posted, started>>
      PROVE  BarInv'
  <2> DEFINE w == Answer(r, i, res, {})
  <2>1. JobOk(w, bars, today) /\ w.pend = r.pend
    BY <1>1, AnswerOk
  <2>2. job' = [job EXCEPT ![j] = w] /\ started' \in 0 .. MaxRuns
    BY <1>1, <1>3
  <2> HIDE DEF w
  <2> QED
    BY <1>3, <2>1, <2>2, OneJobSteps
<1>4. CASE Unsupported(j, i)
  BY <1>3, <1>4 DEF Unsupported
<1>5. CASE Reuse(j, i)
  BY <1>3, <1>5 DEF Reuse
<1>6. CASE FetchFails(j, i)
  BY <1>3, <1>6 DEF FetchFails
<1>7. ASSUME NEW s, s = Resolve(i).secid, s # None, Fetch(j, i, s) PROVE BarInv'
  <2>1. PICK from \in {s} \cup {Inst[i].of} :
           from # None /\ UpsertBars(j, Answer(job[j], i, "ok", {s, from}), from, today)
    BY <1>7 DEF Fetch
  <2> DEFINE w == Answer(r, i, "ok", {s, from})
  <2>2. i \in Insts
    BY <1>1 DEF JobOk
  <2>3. s \in Secids
    BY <1>7, <2>2, BarAssumption DEF Resolve
  <2>4. from \in Secids
    BY <2>1, <2>2, <2>3, BarAssumption
  <2>5. JobOk(w, bars, today) /\ w.pend = r.pend /\ w.at = "fetch" /\ w.kind # "pressure"
    BY <1>1, AnswerOk
  <2>6. today \in BarDays
    BY TodayFacts
  <2>7. UNCHANGED <<market, today, bars, posted, started>> /\ UpsertBars(j, w, from, today)
    BY <1>7, <2>1 DEF Fetch
  <2> HIDE DEF w
  <2> QED
    BY <2>4, <2>5, <2>6, <2>7, WriteSteps
<1> QED
  BY <1>2, <1>4, <1>5, <1>6, <1>7

LEMMA StepCommitSync == ASSUME BarInv, NEW j \in Jobs, CommitSync(j) PROVE BarInv'
<1>1. bars \in Writable /\ job[j].pend \in Writable
  BY DEF BarInv, JobsInv, JobOk
<1>2. /\ job' = [job EXCEPT ![j] = Idle] /\ bars' = Later(bars, job[j].pend)
      /\ UNCHANGED <<market, today, posted, started>>
  BY DEF CommitSync
<1>3. bars' \in Writable /\ \A s \in Secids : bars[s] <= bars'[s]
  BY <1>1, <1>2, LaterFacts
<1>4. ASSUME NEW x \in posted, NEW s \in Secids PROVE x.base[s] <= bars'[s]
  <2>1. x.base[s] <= bars[s] /\ x.base[s] \in Int /\ bars[s] \in Int /\ bars'[s] \in Int
    BY <1>1, <1>3 DEF BarInv, SignalsInv, SignalsComeWithBars, Writable, BarDays
  <2> QED
    BY <1>3, <2>1
<1>5. \A x \in posted' : /\ x.theme \in Themes /\ x.day \in 0 .. today /\ x.base \in Writable
                          /\ \A s \in Secids : x.base[s] <= bars'[s]
  BY <1>2, <1>4 DEF BarInv, SignalsInv
<1>6. OneSignalPerThemeDay'
  BY <1>2 DEF BarInv, SignalsInv, OneSignalPerThemeDay
<1> QED
  BY <1>2, <1>5, <1>6, JobCommits

-----------------------------------------------------------------------------
(* The pressure monitor                                                    *)

LEMMA StepStartPressure == ASSUME BarInv, NEW j \in Jobs, StartPressure(j) PROVE BarInv'
<1> DEFINE r == [Idle EXCEPT !.at = "fetch", !.kind = "pressure", !.day = today]
<1>1. today \in Nat /\ started' \in 0 .. MaxRuns
  BY BarAssumption DEF BarInv, StartPressure
<1>2. JobOk(Idle, bars, today) /\ \A s \in Secids : Idle.pend[s] = 0
  BY <1>1, IdleOk
<1>3. Idle = [f \in Fields |-> Idle[f]] /\ Idle.pend \in Writable
  BY <1>2 DEF JobOk
<1>4. /\ r = [f \in Fields |-> r[f]] /\ r.at = "fetch" /\ r.kind = "pressure" /\ r.day = today
      /\ r.todo = {} /\ r.pend = Idle.pend
  BY <1>3 DEF Fields, Idle
<1>5. job' = [job EXCEPT ![j] = r] /\ UNCHANGED <<market, today, bars, posted>>
  BY DEF StartPressure
<1> HIDE DEF r
<1>6. JobOk(r, bars, today)
  BY <1>1, <1>3, <1>4, TodayFacts DEF JobOk
<1>7. \A s \in Secids : ~(r.pend[s] > 0)
  BY <1>2, <1>4
<1> QED
  BY <1>1, <1>5, <1>6, <1>7, OneJobSteps

LEMMA StepFetchAll == ASSUME BarInv, NEW j \in Jobs, FetchAll(j) PROVE BarInv'
<1>1. PICK down \in SUBSET ToSet(Order) :
         job' = [job EXCEPT ![j].at = "flush", ![j].todo = ToSet(Order) \ down,
                            ![j].read = bars, ![j].day = today]
  BY DEF FetchAll
<1> DEFINE r == [job[j] EXCEPT !.at = "flush", !.todo = ToSet(Order) \ down, !.read = bars, !.day = today]
<1>2. JobOk(job[j], bars, today) /\ today \in Nat /\ job = [k \in Jobs |-> job[k]]
  BY BarAssumption DEF BarInv, JobsInv
<1>3. job[j] = [f \in Fields |-> job[j][f]] /\ job[j].kind = "pressure"
  BY <1>2 DEF JobOk, FetchAll
<1>4. job' = [job EXCEPT ![j] = r] /\ started' \in 0 .. MaxRuns /\ UNCHANGED <<market, today, bars, posted>>
  BY <1>1, <1>2 DEF FetchAll, BarInv
<1>5. /\ r = [f \in Fields |-> r[f]] /\ r.at = "flush" /\ r.kind = "pressure" /\ r.day = today
      /\ r.todo \subseteq ToSet(Order) /\ r.pend = job[j].pend
  BY <1>3 DEF Fields
<1> HIDE DEF r
<1>6. JobOk(r, bars, today)
  BY <1>2, <1>5, TodayFacts DEF JobOk
<1> QED
  BY <1>4, <1>5, <1>6, OneJobSteps

\* The first secid of the order that is still to be written.
LEMMA FirstOfOrder ==
    ASSUME NEW todo, todo \subseteq ToSet(Order), todo # {}
    PROVE  Order[Min({k \in DOMAIN Order : Order[k] \in todo})] \in Secids
<1> DEFINE K == {k \in DOMAIN Order : Order[k] \in todo}
<1>1. K # {} /\ K \subseteq Nat /\ K \subseteq DOMAIN Order
  BY BarAssumption DEF ToSet
<1> HIDE DEF K
<1>2. \E m \in K : \A k \in K : m <= k
  BY <1>1, Least
<1>3. Min(K) \in K
  BY <1>2 DEF Min
<1>4. Order \in Seq(Secids)
  BY BarAssumption
<1>5. \A k \in DOMAIN Order : Order[k] \in Secids
  BY <1>4
<1>6. Order[Min(K)] \in Secids
  BY <1>1, <1>3, <1>5
<1> QED
  BY <1>6 DEF K

LEMMA StepFlush == ASSUME BarInv, NEW j \in Jobs, Flush(j) PROVE BarInv'
<1> DEFINE s == Order[Min({k \in DOMAIN Order : Order[k] \in job[j].todo})]
           r == [job[j] EXCEPT !.todo = @ \ {s}]
<1>1. JobOk(job[j], bars, today) /\ job[j].at = "flush" /\ job[j].todo # {}
  BY DEF BarInv, JobsInv, Flush
<1>2. job[j] = [f \in Fields |-> job[j][f]] /\ job[j].kind = "pressure" /\ job[j].todo \subseteq ToSet(Order)
  BY <1>1 DEF JobOk
<1>3. s \in Secids
  BY <1>1, <1>2, FirstOfOrder
<1>4. job' = [job EXCEPT ![j] = Idle] \/ UpsertBars(j, r, s, r.day)
  BY DEF Flush
<1>5. UNCHANGED <<market, today, bars, posted, started>>
  BY DEF Flush
<1> HIDE DEF s
<1>6. /\ r = [f \in Fields |-> r[f]] /\ r.at = "flush" /\ r.kind = "pressure" /\ r.day = job[j].day
      /\ r.todo \subseteq ToSet(Order) /\ r.pend = job[j].pend
  BY <1>1, <1>2 DEF Fields
<1> HIDE DEF r
<1>7. JobOk(r, bars, today)
  BY <1>1, <1>6 DEF JobOk
<1>8. r.day \in BarDays
  BY <1>7 DEF JobOk
<1> QED
  BY <1>3, <1>4, <1>5, <1>6, <1>7, <1>8, GivesUp, WriteSteps

\* The crossings of a day: one of a theme, from the rows at hand.
LEMMA CrossingsFacts ==
    ASSUME NEW view \in Writable, today \in Nat
    PROVE  Crossed(Crossings(view), today, view)
<1>1. \A x \in Crossings(view) : \E t \in Themes :
         x = [theme |-> t, day |-> today, base |-> view, crossing |-> Snapshot(t, view).crossing]
  BY DEF Crossings
<1>2. \A x \in Crossings(view) : x.theme \in Themes /\ x.day = today /\ x.base = view
  BY <1>1
<1>3. \A x, y \in Crossings(view) : x.theme = y.theme => x = y
  BY <1>1
<1>4. \A s \in Secids : view[s] <= view[s]
  BY BarAssumption DEF Writable, BarDays
<1> QED
  BY <1>2, <1>3, <1>4 DEF Crossed

LEMMA StepCompute == ASSUME BarInv, NEW j \in Jobs, Compute(j) PROVE BarInv'
<1> DEFINE view == Later(bars, job[j].pend)
           new == Crossings(view)
           dels == IF new = {} THEN {} ELSE {x \in posted : x.day = today}
           r == [job[j] EXCEPT !.at = "push", !.day = today, !.read = NoWrites, !.cross = new, !.dels = dels]
<1>1. JobOk(job[j], bars, today) /\ today \in Nat /\ job = [k \in Jobs |-> job[k]] /\ bars \in Writable
  BY BarAssumption DEF BarInv, JobsInv
<1>2. job[j] = [f \in Fields |-> job[j][f]] /\ job[j].pend \in Writable
  BY <1>1 DEF JobOk
<1>3. view \in Writable
  BY <1>1, <1>2, LaterFacts
<1>4. Crossed(new, today, view)
  BY <1>1, <1>3, CrossingsFacts
<1>5. job' = [job EXCEPT ![j].at = "push", ![j].day = today, ![j].read = NoWrites,
                         ![j].cross = new, ![j].dels = dels]
  BY DEF Compute
<1> HIDE DEF new, dels
<1>6. job' = [job EXCEPT ![j] = r]
  BY <1>1, <1>5
<1>7. started' \in 0 .. MaxRuns /\ UNCHANGED <<market, today, bars, posted>>
  BY DEF Compute, BarInv
<1>8. /\ r = [f \in Fields |-> r[f]] /\ r.at = "push" /\ r.kind = job[j].kind /\ r.day = today
      /\ r.todo = job[j].todo /\ r.pend = job[j].pend /\ r.cross = new
  BY <1>2 DEF Fields
<1> HIDE DEF r
<1>9. JobOk(r, bars, today)
  BY <1>1, <1>4, <1>8, TodayFacts DEF JobOk
<1> QED
  BY <1>6, <1>7, <1>8, <1>9, OneJobSteps

\* All of it is stored, or nothing when another job's signal has the key.
LEMMA StepFinish == ASSUME BarInv, NEW j \in Jobs, FinishMonitor(j) PROVE BarInv'
<1> DEFINE r == job[j]
           kept == posted \ r.dels
           taken == \E x \in kept, y \in r.cross : x.theme = y.theme /\ x.day = y.day
<1>1. JobOk(r, bars, today) /\ r.at = "push" /\ today \in Nat /\ bars \in Writable
  BY BarAssumption DEF BarInv, JobsInv, FinishMonitor
<1>2. r.pend \in Writable /\ r.day \in 0 .. today /\ Crossed(r.cross, r.day, Later(bars, r.pend))
  BY <1>1, BarAssumption DEF JobOk, BarDays
<1>3. UNCHANGED <<market, today, started>> /\ job' = [job EXCEPT ![j] = Idle]
  BY DEF FinishMonitor
<1>4. CASE taken
  <2>1. posted' = posted /\ bars' = bars
    BY <1>4 DEF FinishMonitor
  <2> QED
    BY <1>3, <2>1, GivesUp
<1>5. CASE ~taken
  <2>1. posted' = kept \cup r.cross /\ bars' = Later(bars, r.pend)
    BY <1>5 DEF FinishMonitor
  <2>2. bars' \in Writable /\ \A s \in Secids : bars[s] <= bars'[s]
    BY <1>1, <1>2, <2>1, LaterFacts
  <2>3. ASSUME NEW x \in kept
        PROVE  /\ x.theme \in Themes /\ x.day \in 0 .. today /\ x.base \in Writable
               /\ \A s \in Secids : x.base[s] <= bars'[s]
    <3>1. x.theme \in Themes /\ x.day \in 0 .. today /\ x.base \in Writable
          /\ \A s \in Secids : x.base[s] <= bars[s]
      BY DEF BarInv, SignalsInv, SignalsComeWithBars
    <3>2. \A s \in Secids : x.base[s] \in Int /\ bars[s] \in Int /\ bars'[s] \in Int
      BY <1>1, <2>2, <3>1 DEF Writable, BarDays
    <3> QED
      BY <2>2, <3>1, <3>2
  <2>4. \A x \in r.cross : /\ x.theme \in Themes /\ x.day \in 0 .. today /\ x.base \in Writable
                           /\ \A s \in Secids : x.base[s] <= bars'[s]
    BY <1>2, <2>1 DEF Crossed
  <2>5. OneSignalPerThemeDay'
    <3>1. \A x, y \in kept : x.theme = y.theme /\ x.day = y.day => x = y
      BY DEF BarInv, SignalsInv, OneSignalPerThemeDay
    <3>2. \A x, y \in r.cross : x.theme = y.theme => x = y
      BY <1>2 DEF Crossed
    <3> QED
      BY <1>5, <2>1, <3>1, <3>2 DEF OneSignalPerThemeDay
  <2>6. \A x \in posted' : /\ x.theme \in Themes /\ x.day \in 0 .. today /\ x.base \in Writable
                            /\ \A s \in Secids : x.base[s] <= bars'[s]
    BY <2>1, <2>3, <2>4
  <2> QED
    BY <1>3, <2>1, <2>5, <2>6, JobCommits
<1> QED
  BY <1>4, <1>5

-----------------------------------------------------------------------------
(* Stops, days, and the whole                                              *)

LEMMA StepStop == ASSUME BarInv, NEW loop, Stop(loop) PROVE BarInv'
<1>1. today \in Nat /\ UNCHANGED <<market, today, bars, posted, started>>
  BY BarAssumption DEF BarInv, Stop
<1>2. job' = [k \in Jobs |-> IF LoopOf[k] = loop THEN Idle ELSE job[k]]
  BY DEF Stop
<1>3. JobOk(Idle, bars, today) /\ \A s \in Secids : Idle.pend[s] = 0
  BY <1>1, IdleOk
<1>4. \A k \in Jobs : job'[k] = Idle \/ job'[k] = job[k]
  BY <1>2
<1>5. JobsInv'
  <2>1. job' = [k \in Jobs |-> job'[k]]
    BY <1>2
  <2>2. \A k \in Jobs : JobOk(job'[k], bars, today)
    BY <1>3, <1>4 DEF BarInv, JobsInv
  <2> QED
    BY <1>1, <2>1, <2>2 DEF JobsInv
<1>6. OneWriter'
  <2>1. \A k \in Jobs, s \in Secids : job'[k].pend[s] > 0 => job[k].pend[s] > 0
    BY <1>3, <1>4
  <2> QED
    BY <2>1 DEF BarInv, OneWriter
<1>7. SignalsInv'
  BY <1>1 DEF BarInv, SignalsInv, SignalsComeWithBars, OneSignalPerThemeDay
<1> QED
  BY <1>1, <1>5, <1>6, <1>7 DEF BarInv

LEMMA StepTick == ASSUME BarInv, Tick PROVE BarInv'
<1>1. /\ today \in Nat /\ today' = today + 1 /\ today' \in FirstDay .. LastDay
      /\ UNCHANGED <<market, bars, posted, job, started>>
  BY BarAssumption DEF BarInv, Tick
<1>2. JobsInv'
  <2> DEFINE u == today'
  <2>1. u \in Nat /\ today <= u /\ bars \in Writable /\ \A s \in Secids : bars[s] <= bars[s]
    BY <1>1, BarAssumption DEF BarInv, Writable, BarDays
  <2> HIDE DEF u
  <2>2. ASSUME NEW k \in Jobs PROVE JobOk(job[k], bars, u)
    <3>1. JobOk(job[k], bars, today)
      BY DEF BarInv, JobsInv
    <3> DEFINE r == job[k]
    <3>2. JobOk(r, bars, today)
      BY <3>1
    <3> HIDE DEF r
    <3>3. JobOk(r, bars, u)
      BY <1>1, <2>1, <3>2, JobStays
    <3> QED
      BY <3>3 DEF r
  <2>3. \A k \in Jobs : JobOk(job[k], bars, today')
    BY <2>2 DEF u
  <2> QED
    BY <1>1, <2>3 DEF BarInv, JobsInv
<1>3. OneWriter'
  BY <1>1 DEF BarInv, OneWriter
<1>4. SignalsInv'
  <2>1. \A x \in posted : x.day \in 0 .. today'
    BY <1>1 DEF BarInv, SignalsInv
  <2> QED
    BY <1>1, <2>1 DEF BarInv, SignalsInv, SignalsComeWithBars, OneSignalPerThemeDay
<1> QED
  BY <1>1, <1>2, <1>3, <1>4 DEF BarInv

LEMMA InitBars == BarInit => BarInv
<1> SUFFICES ASSUME BarInit PROVE BarInv
  OBVIOUS
<1>1. market \in DOMAIN Markets /\ today \in FirstDay .. LastDay /\ today \in Nat /\ started \in 0 .. MaxRuns
  BY BarAssumption DEF BarInit
<1>2. bars \in Writable
  BY BarAssumption DEF BarInit, Writable, BarDays
<1>3. job = [j \in Jobs |-> Idle] /\ posted = {}
  BY DEF BarInit
<1>4. JobOk(Idle, bars, today) /\ \A s \in Secids : Idle.pend[s] = 0
  BY <1>1, IdleOk
<1>5. JobsInv /\ OneWriter
  BY <1>3, <1>4 DEF JobsInv, OneWriter
<1>6. SignalsInv
  BY <1>3 DEF SignalsInv, SignalsComeWithBars, OneSignalPerThemeDay
<1> QED
  BY <1>1, <1>2, <1>5, <1>6 DEF BarInv

LEMMA StepBars == BarInv /\ [BarNext]_barVars => BarInv'
<1> SUFFICES ASSUME BarInv, [BarNext]_barVars PROVE BarInv'
  OBVIOUS
<1>1. ASSUME NEW j \in Jobs, StartPortfolio(j) PROVE BarInv'
  <2>1. {h.inst : h \in Held} \in SUBSET Insts
    BY BarAssumption
  <2> QED
    BY <1>1, <2>1, StepStartSync DEF StartPortfolio
<1>2. ASSUME NEW j \in Jobs, NEW i \in Insts, StartEvidence(j, i) PROVE BarInv'
  <2>1. {i} \in SUBSET Insts
    OBVIOUS
  <2> QED
    BY <1>2, <2>1, StepStartSync DEF StartEvidence
<1>3. ASSUME NEW j \in Jobs, StartPressure(j) PROVE BarInv'
  BY <1>3, StepStartPressure
<1>4. ASSUME NEW j \in Jobs, Step(j) PROVE BarInv'
  <2>1. CASE Abort(j)
    BY <2>1, GivesUp DEF Abort
  <2> QED
    BY <1>4, <2>1, StepUnblock, StepServe, StepCommitSync, StepFetchAll, StepFlush, StepCompute, StepFinish
       DEF Step
<1>5. ASSUME NEW loop, Stop(loop) PROVE BarInv'
  BY <1>5, StepStop
<1>6. CASE Tick
  BY <1>6, StepTick
<1>7. CASE UNCHANGED barVars
  <2>1. UNCHANGED <<market, today, bars, posted, job, started>>
    BY <1>7 DEF barVars
  <2> QED
    BY <2>1 DEF BarInv, JobsInv, OneWriter, SignalsInv, SignalsComeWithBars, OneSignalPerThemeDay
<1> QED
  BY <1>1, <1>2, <1>3, <1>4, <1>5, <1>6, <1>7 DEF BarNext

\* The inductive invariant: the rows a job will commit are never behind those
\* its crossings were computed from, and no two jobs write the same rows.
THEOREM BarSafety == BarSpec => []BarInv
BY InitBars, StepBars, PTL DEF BarSpec

\* No roll-back, lost race, deadlock or stop leaves a signal whose bars are not
\* stored with it, nor two signals of a theme and day (BarSync, the monitor's
\* transaction against the syncs').
THEOREM BarsAndSignals == BarSpec => []BarsAndSignalsAgree
<1>1. ASSUME BarInv, NEW s \in Secids PROVE Cardinality(Holders(s)) <= 1
  <2>1. \A j, k \in Holders(s) : j = k
    BY <1>1 DEF Holders, BarInv, OneWriter
  <2>2. CASE Holders(s) = {}
    BY <2>2, FS_EmptySet
  <2>3. CASE Holders(s) # {}
    <3>1. PICK j : Holders(s) = {j}
      BY <2>1, <2>3
    <3> QED
      BY <3>1, FS_Singleton
  <2> QED
    BY <2>2, <2>3
<1>2. BarInv => BarsAndSignalsAgree
  <2> SUFFICES ASSUME BarInv PROVE BarsAndSignalsAgree
    OBVIOUS
  <2>0. BarDays \subseteq 0 .. LastDay
    BY BarAssumption DEF BarDays
  <2>1. \A j \in Jobs : /\ job[j].at \in {"idle", "fetch", "flush", "push", "blocked"}
                        /\ job[j].pend \in [Secids -> 0 .. LastDay]
    BY <2>0 DEF BarInv, JobsInv, JobOk, Writable
  <2>2. \A x \in posted : x.theme \in Themes /\ x.day <= today
    BY BarAssumption DEF BarInv, SignalsInv
  <2>3. BarTypeOK
    BY <1>1, <2>0, <2>1, <2>2 DEF BarInv, BarTypeOK, Writable
  <2> QED
    BY <2>3 DEF BarInv, SignalsInv, BarsAndSignalsAgree
<1> QED
  BY <1>2, BarSafety, PTL

-----------------------------------------------------------------------------
(* The pressure index                                                      *)

\* A composite: its points are sums on days up to the last one there is.
Points(c) == \A p \in c : p.date \in 0 .. LastDay /\ p.sum \in Int

\* A composite that has points has a last one.
LEMMA LatestIsThere ==
    ASSUME NEW c, c # {}, Points(c)
    PROVE  Latest(c) \in c /\ \A q \in c : q.date <= Latest(c).date
<1> DEFINE Back == {LastDay - p.date : p \in c}
<1>1. Back # {} /\ Back \subseteq Nat
  BY BarAssumption DEF Points
<1>2. PICK m \in Back : \A k \in Back : m <= k
  BY <1>1, Least
<1>3. PICK p \in c : m = LastDay - p.date
  BY <1>2
<1>4. \A q \in c : LastDay - p.date <= LastDay - q.date
  BY <1>2, <1>3
<1>5. \A q \in c : q.date <= p.date
  BY <1>4, BarAssumption DEF Points
<1> QED
  BY <1>3, <1>5 DEF Latest

\* A crossing and the status next to it are read off the same two points: a
\* theme that crossed upwards rises, one that crossed downwards does not
\* (detect_crossing and build_status, whatever the thresholds).
THEOREM CrossingIsAMove ==
    ASSUME NEW subs, NEW c, NEW rows, Points(c), Cardinality(DOMAIN subs) \in Nat,
           UpperThreshold \in Int, LowerThreshold \in Int
    PROVE  /\ Crossing(subs, c) = "up" =>
                Status(subs, c, rows) \in {"rising on volume", "rising on thin volume"}
           /\ Crossing(subs, c) = "down" =>
                Status(subs, c, rows) \in {"rebound to confirm", "falling on thin volume"}
<1> DEFINE last == Latest(c).sum
           before == Latest(c \ {Latest(c)}).sum
           line(t) == t * Scale * Cardinality(DOMAIN subs)
<1>1. SUFFICES ASSUME Crossing(subs, c) # "none"
      PROVE  /\ Crossing(subs, c) = "up" =>
                  Status(subs, c, rows) \in {"rising on volume", "rising on thin volume"}
             /\ Crossing(subs, c) = "down" =>
                  Status(subs, c, rows) \in {"rebound to confirm", "falling on thin volume"}
  OBVIOUS
<1>2. ~(Cardinality(c) < 2)
  BY <1>1 DEF Crossing
<1>3. c # {} /\ Latest(c) \in c
  <2>1. c # {}
    BY <1>2, FS_EmptySet
  <2> QED
    BY <2>1, LatestIsThere
<1>4. Latest(c \ {Latest(c)}) \in c
  <2>1. c # {Latest(c)}
    <3>1. Cardinality({Latest(c)}) = 1
      BY FS_Singleton
    <3> QED
      BY <1>2, <3>1
  <2>2. c \ {Latest(c)} # {} /\ Points(c \ {Latest(c)})
    BY <1>3, <2>1 DEF Points
  <2>3. Latest(c \ {Latest(c)}) \in c \ {Latest(c)}
    BY <2>2, LatestIsThere
  <2> QED
    BY <2>3
<1>5. last \in Int /\ before \in Int
  BY <1>3, <1>4 DEF Points
<1>6. line(UpperThreshold) \in Int /\ line(LowerThreshold) \in Int
  <2>1. Scale \in Int
    BY PressureAssumption
  <2> QED
    BY <2>1
<1>7. Crossing(subs, c) = "up" => before < line(UpperThreshold) /\ line(UpperThreshold) <= last
  BY <1>2 DEF Crossing
<1>8. Crossing(subs, c) = "down" => before > line(LowerThreshold) /\ line(LowerThreshold) >= last
  BY <1>2 DEF Crossing
<1>9. Status(subs, c, rows) \in (IF last > before THEN {"rising on volume", "rising on thin volume"}
                                 ELSE {"rebound to confirm", "falling on thin volume"})
  BY <1>2 DEF Status
<1> HIDE DEF last, before, line
<1>10. Crossing(subs, c) = "up" => last > before
  BY <1>5, <1>6, <1>7
<1>11. Crossing(subs, c) = "down" => ~(last > before)
  BY <1>5, <1>6, <1>8
<1> HIDE DEF Points
<1> QED
  BY <1>9, <1>10, <1>11

\* Finitely many points on days up to the last one.
Daily(c) == IsFiniteSet(c) /\ \A p \in c : p.date \in 0 .. LastDay

\* The days two series share are days of both.
LEMMA AlignedFacts ==
    ASSUME NEW a, NEW b, Daily(a), Daily(b)
    PROVE  Daily(AlignByDate(a, b))
<1> DEFINE both == {q \in a \X b : q[1].date = q[2].date}
           f == [p \in both |-> [date |-> p[1].date, a |-> p[1].close, b |-> p[2].close]]
<1>1. IsFiniteSet(a \X b)
  BY FS_Product DEF Daily
<1>2. IsFiniteSet(both)
  BY <1>1, FS_Subset
<1>3. IsFiniteSet({f[p] : p \in both})
  <2> HIDE DEF both, f
  <2> QED
    BY <1>2, ImageIsFinite
<1>4. AlignByDate(a, b) = {f[p] : p \in both}
  BY DEF AlignByDate
<1>5. \A p \in AlignByDate(a, b) : p.date \in 0 .. LastDay
  BY DEF AlignByDate, Daily
<1> QED
  BY <1>3, <1>4, <1>5 DEF Daily

\* The danger series of each kind: finitely many points, on days of their rows.
LEMMA VolumeFacts ==
    ASSUME NEW rows, Daily(rows)
    PROVE  Daily(VolumeRatioSeries(rows))
<1> DEFINE total(b) == SumFunction([q \in Window(rows, b, VolumePeriod) |-> q.volume])
           usable == {b \in rows : /\ Cardinality(Window(rows, b, VolumePeriod)) = VolumePeriod
                                   /\ \A q \in Window(rows, b, VolumePeriod) : q.volume # None}
           some == {c \in usable : total(c) # 0}
           f == [b \in some |-> [date |-> b.date, value |-> [n |-> b.volume * VolumePeriod, d |-> total(b)]]]
<1>1. some \in SUBSET rows
  OBVIOUS
<1>2. IsFiniteSet(some)
  BY <1>1, FS_Subset DEF Daily
<1>3. IsFiniteSet({f[b] : b \in some})
  <2> HIDE DEF some, f
  <2> QED
    BY <1>2, ImageIsFinite
<1>4. VolumeRatioSeries(rows) = {f[b] : b \in some}
  BY DEF VolumeRatioSeries
<1>5. \A p \in VolumeRatioSeries(rows) : \E b \in some : p.date = b.date
  <2> HIDE DEF some, total
  <2> QED
    BY <1>4
<1>6. \A p \in VolumeRatioSeries(rows) : p.date \in 0 .. LastDay
  BY <1>1, <1>5 DEF Daily
<1> QED
  BY <1>3, <1>4, <1>6 DEF Daily

LEMMA UnderperformanceFacts ==
    ASSUME NEW a, NEW b, Daily(a), Daily(b)
    PROVE  Daily(UnderperformanceSeries(a, b))
<1> DEFINE days == AlignByDate(a, b)
           rate(x, y) == x # None /\ y # None /\ y # 0
           pairs == {x \in days \X days :
                    /\ x[2] \in Before(days, x[1], ReturnPeriod)
                    /\ rate(x[1].a, x[2].a) /\ rate(x[1].b, x[2].b)}
           f == [x \in pairs |-> [date |-> x[1].date,
                   value |-> [n |-> x[1].b * x[2].a - x[1].a * x[2].b, d |-> x[2].a * x[2].b]]]
<1>1. Daily(days)
  BY AlignedFacts
<1>2. IsFiniteSet(days \X days)
  BY <1>1, FS_Product DEF Daily
<1>3. pairs \in SUBSET (days \X days)
  OBVIOUS
<1>4. IsFiniteSet(pairs)
  BY <1>2, <1>3, FS_Subset
<1>5. UnderperformanceSeries(a, b) = {f[x] : x \in pairs}
  BY DEF UnderperformanceSeries
<1> HIDE DEF pairs, days
<1>6. \A p \in UnderperformanceSeries(a, b) : \E x \in pairs : p.date = x[1].date
  BY <1>5
<1>7. \A p \in UnderperformanceSeries(a, b) : p.date \in 0 .. LastDay
  BY <1>1, <1>3, <1>6 DEF Daily
<1> HIDE DEF f
<1>8. IsFiniteSet({f[x] : x \in pairs})
  BY <1>4, ImageIsFinite
<1> QED
  BY <1>5, <1>7, <1>8 DEF Daily

LEMMA SpreadFacts ==
    ASSUME NEW a, NEW b, Daily(a), Daily(b)
    PROVE  Daily(SpreadSeries(a, b))
<1> DEFINE days == AlignByDate(a, b)
           f == [p \in days |-> [date |-> p.date, value |-> [n |-> p.a - p.b, d |-> 1]]]
<1>1. Daily(days)
  BY AlignedFacts
<1>2. SpreadSeries(a, b) = {f[p] : p \in days}
  BY DEF SpreadSeries
<1> HIDE DEF days
<1>3. \A p \in SpreadSeries(a, b) : \E q \in days : p.date = q.date
  BY <1>2
<1>4. \A p \in SpreadSeries(a, b) : p.date \in 0 .. LastDay
  BY <1>1, <1>3 DEF Daily
<1> HIDE DEF f
<1>5. IsFiniteSet({f[p] : p \in days})
  BY <1>1, ImageIsFinite DEF Daily
<1> QED
  BY <1>2, <1>4, <1>5 DEF Daily

\* A sub of a theme, over rows of the secids it names.
SubOver(sub, rows) ==
    /\ sub.kind \in {"volumeRatio", "underperformance", "spread"}
    /\ Daily(rows[sub.a]) /\ (sub.kind # "volumeRatio" => Daily(rows[sub.b]))

LEMMA SeriesFacts ==
    ASSUME NEW sub, NEW rows, SubOver(sub, rows)
    PROVE  Daily(DangerSeries(sub, rows))
BY VolumeFacts, UnderperformanceFacts, SpreadFacts DEF SubOver, DangerSeries

\* A share of the window, in units of 1 / Scale percent.
LEMMA RankFacts ==
    ASSUME NEW window, IsFiniteSet(window), window # {}, NEW p
    PROVE  PercentileRank(window, p) \in 0 .. 100 * Scale
<1> DEFINE below == {q \in window : Leq(q.value, p.value)}
           w == Cardinality(window)
           b == Cardinality(below)
<1>1. w \in Nat /\ b \in Nat /\ b <= w
  BY FS_Subset, FS_CardinalityType
<1>2. w # 0
  BY FS_EmptySet
<1>3. Scale \in Nat
  BY PressureAssumption
<1>4. PercentileRank(window, p) = (100 * Scale * b) \div w
  BY DEF PercentileRank
<1> HIDE DEF below, w, b
<1>5. ASSUME NEW k \in Nat PROVE (k * b) \div w \in 0 .. k
  <2>1. k * b \in Nat /\ k * b <= k * w
    BY <1>1
  <2> DEFINE x == k * b  y == k * w
  <2>2. x \in Nat /\ y \in Nat /\ x <= y
    BY <1>1, <2>1
  <2>3. w * (x \div w) <= x /\ x \div w \in Nat
    BY <1>1, <1>2, <2>2
  <2>4. w * (x \div w) <= w * k
    BY <1>1, <2>2, <2>3
  <2> DEFINE d == x \div w
  <2>5. d \in Nat /\ w * d <= w * k
    BY <2>3, <2>4
  <2> HIDE DEF d
  <2>6. d <= k
    BY <1>1, <1>2, <2>5
  <2> QED
    BY <2>5, <2>6 DEF d
<1>6. 100 * Scale \in Nat
  BY <1>3
<1> QED
  BY <1>4, <1>5, <1>6

\* A score a point, each a percentage.
LEMMA ScoreFacts ==
    ASSUME NEW series, Daily(series)
    PROVE  /\ IsFiniteSet(RollingScores(series))
           /\ \A p \in RollingScores(series) : p.date \in 0 .. LastDay /\ p.score \in 0 .. 100 * Scale
<1> DEFINE f == [p \in series |-> [date |-> p.date,
                   score |-> PercentileRank(Window(series, p, PercentileWindow), p)]]
<1>1. RollingScores(series) = {f[p] : p \in series}
  BY DEF RollingScores
<1>2. ASSUME NEW p \in series PROVE f[p].date \in 0 .. LastDay /\ f[p].score \in 0 .. 100 * Scale
  <2> DEFINE window == Window(series, p, PercentileWindow)
  <2>1. window \in SUBSET series
    BY DEF Window
  <2>2. IsFiniteSet(window)
    BY <2>1, FS_Subset DEF Daily
  <2>3. p \in window
    <3>1. {r \in series : p.date < r.date /\ r.date <= p.date} = {}
      BY BarAssumption DEF Daily
    <3>2. Cardinality({}) < PercentileWindow
      BY FS_EmptySet, PressureAssumption
    <3>3. Cardinality({r \in series : p.date < r.date /\ r.date <= p.date}) < PercentileWindow
      BY <3>1, <3>2
    <3>4. p.date <= p.date
      BY BarAssumption DEF Daily
    <3> QED
      BY <3>3, <3>4 DEF Window
  <2> HIDE DEF window
  <2>4. PercentileRank(window, p) \in 0 .. 100 * Scale
    BY <2>2, <2>3, RankFacts
  <2> QED
    BY <2>4 DEF window, Daily
<1> HIDE DEF f
<1>3. IsFiniteSet({f[p] : p \in series})
  BY ImageIsFinite DEF Daily
<1> QED
  BY <1>1, <1>2, <1>3

\* The composite of a theme: one sum a day, of as many scores as it has subs.
LEMMA CompositeFacts ==
    ASSUME NEW subs, NEW n \in Nat, DOMAIN subs = 1 .. n, NEW rows,
           \A k \in DOMAIN subs : SubOver(subs[k], rows)
    PROVE  \A p \in Composite(subs, rows) : p.date \in 0 .. LastDay /\ p.sum \in 0 .. 100 * Scale * n
<1> DEFINE scores(k) == RollingScores(DangerSeries(subs[k], rows))
           part == [k \in DOMAIN subs |-> {<<k, p>> : p \in scores(k)}]
           own == UNION {part[k] : k \in DOMAIN subs}
           at(d) == {x \in own : x[2].date = d}
           days == {d \in {x[2].date : x \in own} : Cardinality(at(d)) = Cardinality(DOMAIN subs)}
           worth(d) == [x \in at(d) |-> x[2].score]
<1>1. ASSUME NEW k \in DOMAIN subs
      PROVE  /\ IsFiniteSet(scores(k))
             /\ \A p \in scores(k) : p.date \in 0 .. LastDay /\ p.score \in 0 .. 100 * Scale
  BY SeriesFacts, ScoreFacts
<1>2. \A k \in DOMAIN subs : IsFiniteSet(part[k])
  <2> SUFFICES ASSUME NEW k \in DOMAIN subs PROVE IsFiniteSet(part[k])
    OBVIOUS
  <2> DEFINE f == [p \in scores(k) |-> <<k, p>>]
  <2>1. IsFiniteSet(scores(k)) /\ part[k] = {f[p] : p \in scores(k)}
    BY <1>1
  <2> HIDE DEF f, part
  <2> QED
    BY <2>1, ImageIsFinite
<1>3. IsFiniteSet(DOMAIN subs) /\ Cardinality(DOMAIN subs) = n
  BY FS_Interval
<1>4. IsFiniteSet(own)
  <2> DEFINE parts == {part[k] : k \in DOMAIN subs}
  <2> HIDE DEF part
  <2>1. IsFiniteSet(parts) /\ \A T \in parts : IsFiniteSet(T)
    BY <1>2, <1>3, ImageIsFinite
  <2> HIDE DEF parts
  <2>2. IsFiniteSet(UNION parts)
    BY <2>1, FS_UNION
  <2> QED
    BY <2>2 DEF parts
<1>5. \A x \in own : x[2].date \in 0 .. LastDay /\ x[2].score \in 0 .. 100 * Scale
  BY <1>1
<1>6. Composite(subs, rows) = {[date |-> d, sum |-> SumFunction(worth(d))] : d \in days}
  <2>1. own = UNION {{<<s, p>> : p \in RollingScores(DangerSeries(subs[s], rows))} : s \in DOMAIN subs}
    OBVIOUS
  <2> HIDE DEF own
  <2> QED
    BY <2>1 DEF Composite
<1> HIDE DEF own
<1>7. ASSUME NEW d \in days PROVE SumFunction(worth(d)) \in 0 .. 100 * Scale * n
  <2>1. IsFiniteSet(at(d)) /\ Cardinality(at(d)) = n
    BY <1>3, <1>4, FS_Subset
  <2>2. \A x \in at(d) : worth(d)[x] \in 0 .. 100 * Scale
    BY <1>5
  <2>3. SumFunction(worth(d)) = SumFunctionOnSet(worth(d), at(d))
    BY DEF SumFunction
  <2>4. 100 * Scale \in Nat
    BY PressureAssumption
  <2> HIDE DEF worth, at
  <2> DEFINE m == 100 * Scale
  <2>5. m \in Nat /\ \A x \in at(d) : worth(d)[x] \in 0 .. m
    BY <2>2, <2>4
  <2> HIDE DEF m
  <2>6. SumFunctionOnSet(worth(d), at(d)) \in 0 .. (m * n)
    BY <2>1, <2>5, SumIsBounded
  <2> QED
    BY <2>3, <2>6 DEF m
<1>8. \A d \in days : d \in 0 .. LastDay
  BY <1>5
<1> HIDE DEF days, worth
<1> QED
  BY <1>6, <1>7, <1>8

\* What the snapshot of a theme over some stored rows is computed from.
LEMMA SnapshotIsThere ==
    ASSUME BarInv, NEW t \in Themes, NEW view \in Writable
    PROVE  \E v \in [ToSet(Order) -> BarDays] :
              Snapshot(t, view) = ThemePressure(Subs[t], [s \in ToSet(Order) |->
                                       {b \in Markets[market][s] : b.date <= v[s]}])
<1> DEFINE rows(m, v) == [s \in DOMAIN v |-> {b \in Markets[m][s] : b.date <= v[s]}]
           Is(x) == /\ x.market = market /\ x.theme = t
                    /\ \A s \in ToSet(Order) : x.view[s] = view[s]
           mine == [s \in ToSet(Order) |-> view[s]]
           known == [market |-> market, theme |-> t, view |-> mine,
                     pressure |-> ThemePressure(Subs[t], rows(market, mine))]
<1>1. ToSet(Order) \subseteq Secids
  BY BarAssumption DEF ToSet
<1>2. mine \in [ToSet(Order) -> BarDays] /\ market \in DOMAIN Markets
  BY <1>1 DEF Writable, BarInv
<1>3. Pressure = {[market |-> m, theme |-> u, view |-> v, pressure |-> ThemePressure(Subs[u], rows(m, v))] :
                    m \in DOMAIN Markets, u \in Themes, v \in [ToSet(Order) -> BarDays]}
  BY DEF Pressure
<1>4. known.market = market /\ known.theme = t /\ known.view = mine
  OBVIOUS
<1> HIDE DEF rows
<1>5. known \in Pressure
  <2>1. known = [market |-> market, theme |-> t, view |-> mine,
                 pressure |-> ThemePressure(Subs[t], rows(market, mine))]
    OBVIOUS
  <2> HIDE DEF known, mine
  <2>2. \E m \in DOMAIN Markets, u \in Themes, v \in [ToSet(Order) -> BarDays] :
           known = [market |-> m, theme |-> u, view |-> v, pressure |-> ThemePressure(Subs[u], rows(m, v))]
    BY <1>2, <2>1
  <2> QED
    BY <1>3, <2>2
<1>6. Is(known)
  BY <1>4
<1> DEFINE X == CHOOSE x \in Pressure : Is(x)
<1>7. X \in Pressure /\ Is(X)
  <2> HIDE DEF Is
  <2> QED
    BY <1>5, <1>6
<1>8. Snapshot(t, view) = X.pressure
  BY DEF Snapshot
<1> HIDE DEF X
<1>9. PICK m \in DOMAIN Markets, u \in Themes, v \in [ToSet(Order) -> BarDays] :
         X = [market |-> m, theme |-> u, view |-> v, pressure |-> ThemePressure(Subs[u], rows(m, v))]
  BY <1>3, <1>7
<1>10. m = market /\ u = t
  BY <1>7, <1>9
<1>11. X.pressure = ThemePressure(Subs[t], rows(market, v))
  BY <1>9, <1>10
<1>12. rows(market, v) = [s \in ToSet(Order) |-> {b \in Markets[market][s] : b.date <= v[s]}]
  BY DEF rows
<1> QED
  BY <1>8, <1>11, <1>12

\* The rows of a theme's secids are such that its composite exists.
LEMMA ThemeFacts ==
    ASSUME BarInv, NEW t \in Themes, NEW v \in [ToSet(Order) -> BarDays], NEW rows,
           rows = [s \in ToSet(Order) |-> {b \in Markets[market][s] : b.date <= v[s]}]
    PROVE  /\ Len(Subs[t]) \in Nat /\ DOMAIN Subs[t] = 1 .. Len(Subs[t])
           /\ \A k \in DOMAIN Subs[t] : SubOver(Subs[t][k], rows)
<1>1. ToSet(Order) \subseteq Secids /\ market \in DOMAIN Markets
  BY BarAssumption DEF ToSet, BarInv
<1>2. ASSUME NEW s \in ToSet(Order) PROVE Daily(rows[s])
  <2>1. rows[s] \in SUBSET Markets[market][s] /\ \A b \in rows[s] : b.date <= v[s]
    OBVIOUS
  <2>2. IsFiniteSet(rows[s])
    BY <1>1, <2>1, MarketAssumption, FS_Subset
  <2>3. v[s] \in Int /\ v[s] <= LastDay /\ LastDay \in Nat
    BY BarAssumption DEF BarDays
  <2>4. \A b \in rows[s] : b.date \in Nat
    BY <1>1, <2>1, MarketAssumption
  <2>5. \A b \in rows[s] : b.date \in 0 .. LastDay
    BY <2>1, <2>3, <2>4
  <2> QED
    BY <2>2, <2>5 DEF Daily
<1> DEFINE Sub == [kind : {"volumeRatio"}, a : ToSet(Order)] \cup
                  [kind : {"underperformance", "spread"}, a : ToSet(Order), b : ToSet(Order)]
<1>3. Subs[t] \in Seq(Sub)
  BY MarketAssumption
<1>4. \A k \in DOMAIN Subs[t] : Subs[t][k] \in Sub
  <2> HIDE DEF Sub
  <2> QED
    BY <1>3
<1>5. \A k \in DOMAIN Subs[t] : SubOver(Subs[t][k], rows)
  BY <1>2, <1>4 DEF SubOver
<1>6. Len(Subs[t]) \in Nat /\ DOMAIN Subs[t] = 1 .. Len(Subs[t])
  <2> HIDE DEF Sub
  <2> QED
    BY <1>3
<1> QED
  BY <1>5, <1>6

\* A crossing and the status shown next to it agree in every state, and the
\* composite shown is a percentage (compute_theme_pressure over the rows the
\* monitor and the syncs have stored).
THEOREM CrossingAgrees == BarSpec => []CrossingAgreesWithStatus
<1>1. BarInv => CrossingAgreesWithStatus
  <2> SUFFICES ASSUME BarInv, NEW t \in Themes
      PROVE  LET p == Snapshot(t, bars) IN
             /\ p.crossing = "up" => p.status \in {"rising on volume", "rising on thin volume"}
             /\ p.crossing = "down" => p.status \in {"rebound to confirm", "falling on thin volume"}
             /\ p.composite # None => p.composite \in 0 .. 100 * Scale * Len(Subs[t])
    BY DEF CrossingAgreesWithStatus
  <2>1. bars \in Writable
    BY DEF BarInv
  <2>2. PICK v \in [ToSet(Order) -> BarDays] :
           Snapshot(t, bars) = ThemePressure(Subs[t], [s \in ToSet(Order) |->
                                    {b \in Markets[market][s] : b.date <= v[s]}])
    BY <2>1, SnapshotIsThere
  <2> DEFINE rows == [s \in ToSet(Order) |-> {b \in Markets[market][s] : b.date <= v[s]}]
             subs == Subs[t]
             c == Composite(subs, rows)
             n == Len(subs)
  <2>3. n \in Nat /\ DOMAIN subs = 1 .. n /\ \A k \in DOMAIN subs : SubOver(subs[k], rows)
    BY ThemeFacts
  <2> HIDE DEF rows, subs, n
  <2>4. \A p \in c : p.date \in 0 .. LastDay /\ p.sum \in 0 .. 100 * Scale * n
    BY <2>3, CompositeFacts
  <2>5. 100 * Scale * n \in Nat
    BY <2>3, PressureAssumption
  <2>6. Points(c)
    BY <2>4, <2>5 DEF Points
  <2>7. Cardinality(DOMAIN subs) \in Nat
    BY <2>3, FS_Interval, FS_CardinalityType
  <2>8. Snapshot(t, bars) = ThemePressure(subs, rows)
    BY <2>2 DEF subs, rows
  <2>9. /\ Snapshot(t, bars).crossing = Crossing(subs, c)
        /\ Snapshot(t, bars).status = Status(subs, c, rows)
        /\ Snapshot(t, bars).composite = IF c = {} THEN None ELSE Latest(c).sum
    BY <2>8 DEF ThemePressure
  <2> HIDE DEF c
  <2>10. /\ Crossing(subs, c) = "up" =>
              Status(subs, c, rows) \in {"rising on volume", "rising on thin volume"}
         /\ Crossing(subs, c) = "down" =>
              Status(subs, c, rows) \in {"rebound to confirm", "falling on thin volume"}
    BY <2>6, <2>7, PressureAssumption, CrossingIsAMove
  <2>11. c # {} => Latest(c).sum \in 0 .. 100 * Scale * n
    BY <2>4, <2>6, LatestIsThere
  <2> QED
    BY <2>9, <2>10, <2>11 DEF n, subs
<1> QED
  BY <1>1, BarSafety, PTL

-----------------------------------------------------------------------------
(* The curve of the portfolio                                              *)

\* The rows of a secid: one bar a day, each with its close.
Priced(rows) ==
    /\ Daily(rows)
    /\ \A b \in rows : b.date \in Nat \ {0} /\ b.close \in Nat \ {0}
    /\ \A b, c \in rows : b.date = c.date => b = c

\* The last bar is there and is the only one no other follows.
LEMMA LatestBar ==
    ASSUME NEW rows, Priced(rows), rows # {}
    PROVE  /\ Latest(rows) \in rows /\ \A b \in rows : b.date <= Latest(rows).date
           /\ \A b \in rows : (\A c \in rows : c.date <= b.date) => b = Latest(rows)
<1> DEFINE Back == {LastDay - b.date : b \in rows}
<1>1. Back # {} /\ Back \subseteq Nat
  BY BarAssumption DEF Priced, Daily
<1>2. PICK m \in Back : \A k \in Back : m <= k
  BY <1>1, Least
<1>3. PICK p \in rows : m = LastDay - p.date
  BY <1>2
<1>4. \A q \in rows : LastDay - p.date <= LastDay - q.date
  BY <1>2, <1>3
<1>5. \A q \in rows : q.date <= p.date
  BY <1>4, BarAssumption DEF Priced, Daily
<1>6. Latest(rows) \in rows /\ \A b \in rows : b.date <= Latest(rows).date
  BY <1>3, <1>5 DEF Latest
<1>7. ASSUME NEW b \in rows, \A c \in rows : c.date <= b.date PROVE b = Latest(rows)
  <2>1. b.date <= Latest(rows).date /\ Latest(rows).date <= b.date
    BY <1>6, <1>7
  <2>2. b.date \in Nat /\ Latest(rows).date \in Nat
    BY <1>6 DEF Priced
  <2>3. b.date = Latest(rows).date
    BY <2>1, <2>2
  <2> QED
    BY <1>6, <2>3 DEF Priced
<1> QED
  BY <1>6, <1>7

\* Every stored row has a usable close.
LEMMA ClosesFacts == ASSUME NEW rows, Priced(rows) PROVE Closes(rows) = rows
<1>1. \A b \in rows : b.close # NoPrice /\ b.close > 0
  BY MarketAssumption DEF Priced
<1> QED
  BY <1>1 DEF Closes

\* From the last day on, a row's last close is that of its last bar.
LEMMA LastCloseFacts ==
    ASSUME NEW rows, Priced(rows), rows # {}, NEW d, \A b \in rows : b.date <= d
    PROVE  LastClose(rows, d) = Latest(rows).close
<1> DEFINE Is(b) == b.date <= d /\ \A c \in rows : c.date <= d => c.date <= b.date
           B == CHOOSE b \in rows : Is(b)
<1>1. Latest(rows) \in rows /\ Is(Latest(rows))
  BY LatestBar
<1>2. B \in rows /\ Is(B)
  <2> HIDE DEF Is
  <2> QED
    BY <1>1
<1>3. LastClose(rows, d) = B.close
  BY DEF LastClose
<1> HIDE DEF B
<1>4. B = Latest(rows)
  BY <1>2, LatestBar
<1> QED
  BY <1>3, <1>4

Holding(h, rows) == h.shares \in Nat /\ h.cost \in Nat /\ Priced(rows[h.secid]) /\ rows[h.secid] # {}
WorthNow(h, rows) == h.shares * Latest(rows[h.secid]).close

\* The last point of a curve: every holding at its last close, and all costs.
LastPoint(p, holdings, rows) ==
    /\ p.marketValue = SumFunction([h \in holdings |-> WorthNow(h, rows)])
    /\ p.totalCost = SumFunction([h \in holdings |-> h.shares * h.cost])
    /\ p.coveredCount = Cardinality(holdings)

\* A curve ends on a day whose point has every holding.
LEMMA CurveEnds ==
    ASSUME NEW holdings, IsFiniteSet(holdings), holdings # {}, NEW rows,
           \A h \in holdings : Holding(h, rows)
    PROVE  \E d \in Nat \ {0} :
              /\ \A p \in BuildSeries(holdings, rows) : p.date \in 1 .. d
              /\ \E p \in BuildSeries(holdings, rows) : p.date = d
              /\ \A p \in BuildSeries(holdings, rows) : p.date = d => LastPoint(p, holdings, rows)
<1> DEFINE closes(h)  == Closes(rows[h.secid])
           dates      == {b.date : b \in UNION {closes(h) : h \in holdings}}
           begun(d) == {h \in holdings : \E b \in closes(h) : b.date <= d}
           costed(d)  == {h \in begun(d) : h.cost > 0}
           value(h, d) == h.shares * LastClose(closes(h), d)
           cost(h)    == h.shares * h.cost
           point(d) == [date |-> d,
              marketValue  |-> SumFunction([h \in begun(d) |-> value(h, d)]),
              pnl          |-> SumFunction([h \in costed(d) |-> value(h, d) - cost(h)]),
              totalCost    |-> SumFunction([h \in costed(d) |-> cost(h)]),
              coveredCount |-> Cardinality(begun(d))]
<1>1. BuildSeries(holdings, rows) = {point(d) : d \in dates}
  BY DEF BuildSeries
<1>2. \A d : point(d).date = d
  OBVIOUS
<1>3. \A h \in holdings : closes(h) = rows[h.secid] /\ Priced(rows[h.secid]) /\ rows[h.secid] # {}
  BY ClosesFacts DEF Holding
<1>4. \A d \in dates : d \in Nat \ {0} /\ d <= LastDay
  BY <1>3 DEF Priced, Daily
<1>5. dates # {}
  <2>1. PICK h \in holdings : TRUE
    OBVIOUS
  <2>2. PICK b \in closes(h) : TRUE
    BY <1>3, <2>1
  <2> QED
    BY <2>2
<1>6. \A h \in holdings : \A b \in closes(h) : b.date \in dates
  OBVIOUS
<1> HIDE DEF dates
<1> DEFINE Back == {LastDay - d : d \in dates}
<1>7. Back # {} /\ Back \subseteq Nat
  BY <1>4, <1>5, BarAssumption
<1>8. PICK m \in Back : \A k \in Back : m <= k
  BY <1>7, Least
<1>9. PICK last \in dates : m = LastDay - last
  BY <1>8
<1>10. \A d \in dates : d <= last
  <2> SUFFICES ASSUME NEW d \in dates PROVE d <= last
    OBVIOUS
  <2>1. LastDay - last <= LastDay - d
    BY <1>8, <1>9
  <2>2. d \in Int /\ last \in Int /\ LastDay \in Int
    BY <1>4, BarAssumption
  <2> QED
    BY <2>1, <2>2
<1>11. last \in Nat \ {0}
  BY <1>4
<1>12. begun(last) = holdings
  <2> SUFFICES ASSUME NEW h \in holdings PROVE \E b \in closes(h) : b.date <= last
    OBVIOUS
  <2>1. PICK b \in closes(h) : TRUE
    BY <1>3
  <2> QED
    BY <1>6, <1>10, <2>1
<1>13. \A h \in holdings : value(h, last) = WorthNow(h, rows)
  <2> SUFFICES ASSUME NEW h \in holdings PROVE LastClose(closes(h), last) = Latest(rows[h.secid]).close
    BY DEF WorthNow
  <2>1. \A b \in rows[h.secid] : b.date <= last
    BY <1>3, <1>6, <1>10
  <2>2. LastClose(rows[h.secid], last) = Latest(rows[h.secid]).close
    BY <1>3, <2>1, LastCloseFacts
  <2> QED
    BY <1>3, <2>2
<1>14. SumFunction([h \in costed(last) |-> cost(h)]) = SumFunction([h \in holdings |-> h.shares * h.cost])
  <2> DEFINE T == costed(last)
             f == [h \in T |-> cost(h)]
             g == [h \in holdings |-> h.shares * h.cost]
  <2>1. T \in SUBSET holdings
    OBVIOUS
  <2>2. \A h \in T : f[h] \in Int
    BY DEF Holding
  <2>3. \A h \in holdings : g[h] = IF h \in T THEN f[h] ELSE 0
    <3> SUFFICES ASSUME NEW h \in holdings PROVE g[h] = IF h \in T THEN f[h] ELSE 0
      OBVIOUS
    <3>1. h \notin T => h.cost = 0
      BY <1>12 DEF Holding
    <3>2. h.shares * 0 = 0
      BY DEF Holding
    <3> QED
      BY <3>1, <3>2
  <2>4. DOMAIN f = T /\ DOMAIN g = holdings
    OBVIOUS
  <2> HIDE DEF T, f, g
  <2>5. SumFunctionOnSet(g, holdings) = SumFunctionOnSet(f, T)
    BY <2>1, <2>2, <2>3, SumOfPart
  <2>6. SumFunction(g) = SumFunction(f)
    BY <2>4, <2>5 DEF SumFunction
  <2> QED
    BY <2>6 DEF T, f, g
<1>15. LastPoint(point(last), holdings, rows)
  <2>1. point(last).coveredCount = Cardinality(holdings)
    BY <1>12
  <2>2. [h \in begun(last) |-> value(h, last)] = [h \in holdings |-> WorthNow(h, rows)]
    BY <1>12, <1>13
  <2>3. /\ point(last).marketValue = SumFunction([h \in begun(last) |-> value(h, last)])
        /\ point(last).totalCost = SumFunction([h \in costed(last) |-> cost(h)])
    OBVIOUS
  <2> HIDE DEF point, begun, costed, value, cost
  <2> QED
    BY <1>14, <2>1, <2>2, <2>3 DEF LastPoint
<1> HIDE DEF point
<1>16. \A p \in BuildSeries(holdings, rows) : p.date \in dates /\ p = point(p.date)
  BY <1>1, <1>2
<1>17. point(last) \in BuildSeries(holdings, rows) /\ point(last).date = last
  <2>1. point(last).date = last
    BY <1>2
  <2>2. \E d \in dates : point(last) = point(d)
    BY <1>9
  <2> QED
    BY <1>1, <2>1, <2>2
<1>18. \A p \in BuildSeries(holdings, rows) : p.date \in 1 .. last
  <2>1. \A d \in dates : d \in 1 .. last
    BY <1>4, <1>10, <1>11
  <2> QED
    BY <1>16, <2>1
<1>19. \A p \in BuildSeries(holdings, rows) : p.date = last => LastPoint(p, holdings, rows)
  BY <1>15, <1>16
<1> QED
  BY <1>11, <1>17, <1>18, <1>19

\* What /portfolio/history starts from.
LEMMA HeldRowsFacts ==
    /\ IsFiniteSet(HeldRows)
    /\ \A h \in HeldRows : h.shares \in Nat /\ h.cost \in Nat /\ h.secid \in Secids \cup {None}
<1> DEFINE f == [h \in Held |-> [inst |-> h.inst, secid |-> Resolve(h.inst).secid,
                                 shares |-> h.shares, cost |-> h.cost]]
<1>1. HeldRows = {f[h] : h \in Held}
  BY DEF HeldRows
<1>2. \A i \in Insts : Resolve(i).secid \in Secids \cup {None}
  BY BarAssumption DEF Resolve
<1>3. ASSUME NEW h \in Held
      PROVE  f[h].shares \in Nat /\ f[h].cost \in Nat /\ f[h].secid \in Secids \cup {None}
  <2>1. h.inst \in Insts /\ h.shares \in Nat /\ h.cost \in Nat
    BY BarAssumption, HeldAssumption
  <2> QED
    BY <1>2, <2>1
<1> HIDE DEF f
<1> QED
  BY <1>1, <1>3, HeldAssumption, ImageIsFinite

\* The rows stored of a secid.
LEMMA StoredRows ==
    ASSUME BarInv, NEW s \in Secids
    PROVE  Priced(Upto(s, bars[s])) /\ {b \in Upto(s, bars[s]) : b.close # NoPrice} = Upto(s, bars[s])
<1> DEFINE rows == Upto(s, bars[s])
<1>1. market \in DOMAIN Markets /\ bars[s] \in BarDays
  BY DEF BarInv, Writable
<1>2. rows \in SUBSET Markets[market][s] /\ \A b \in rows : b.date <= bars[s]
  BY DEF Upto
<1>3. bars[s] \in Int /\ bars[s] <= LastDay /\ LastDay \in Nat
  BY <1>1, BarAssumption DEF BarDays
<1> HIDE DEF rows
<1>4. /\ \A b \in rows : b.date \in Nat \ {0} /\ b.close \in Nat \ {0}
      /\ \A b, c \in rows : b.date = c.date => b = c
  BY <1>1, <1>2, MarketAssumption
<1>5. IsFiniteSet(rows)
  BY <1>1, <1>2, MarketAssumption, FS_Subset
<1>6. \A b \in rows : b.date \in 0 .. LastDay
  BY <1>2, <1>3, <1>4
<1>7. Priced(rows)
  BY <1>4, <1>5, <1>6 DEF Priced, Daily
<1>8. \A b \in rows : b.close # NoPrice
  BY <1>4, MarketAssumption
<1> QED
  BY <1>7, <1>8 DEF rows

LEMMA LeastOf ==
    ASSUME NEW S, S \subseteq Nat, S # {}
    PROVE  Min(S) \in S /\ \A k \in S : Min(S) <= k
BY Least DEF Min

\* The answer of /portfolio/history, when it has a curve.
LEMMA HistoryEnds ==
    ASSUME NEW held, IsFiniteSet(held), NEW rows,
           \A h \in held : h.shares \in Nat /\ h.cost \in Nat,
           \A s \in DOMAIN rows : Priced(rows[s]),
           NEW cutoff \in Nat, NEW history, history = PortfolioHistory(held, rows, cutoff),
           history.series # {}
    PROVE  /\ history.covered = {h \in held : h.secid \in DOMAIN rows /\ rows[h.secid] # {}}
           /\ LastPoint(Latest(history.series), history.covered, rows)
           /\ Latest(history.series).date = history.asOf
           /\ history.coveredCost = SumFunction([h \in history.covered |-> h.shares * h.cost])
           /\ history.fullCoverageSince \in 1 .. history.asOf
<1> DEFINE covered == {h \in held : h.secid \in DOMAIN rows /\ rows[h.secid] # {}}
           series == BuildSeries(covered, rows)
           full == {p.date : p \in {q \in series : q.coveredCount >= Cardinality(covered)}}
           shown == {p \in series : p.date >= cutoff}
<1>1. /\ history.series = shown /\ history.covered = covered
      /\ history.asOf = IF series = {} THEN 0 ELSE Max({p.date : p \in series})
      /\ history.fullCoverageSince = IF full = {} THEN 0 ELSE Min(full)
      /\ history.coveredCost = SumFunction([h \in covered |-> h.shares * h.cost])
  BY DEF PortfolioHistory
<1>2. IsFiniteSet(covered)
  BY FS_Subset
<1>3. \A h \in covered : Holding(h, rows)
  BY DEF Holding
<1>4. covered # {}
  <2>1. PICK p \in series : TRUE
    BY <1>1
  <2>2. series = {} \/ covered # {}
    BY DEF BuildSeries
  <2> QED
    BY <2>1, <2>2
<1> HIDE DEF covered
<1>5. PICK last \in Nat \ {0} :
         /\ \A p \in series : p.date \in 1 .. last
         /\ \E p \in series : p.date = last
         /\ \A p \in series : p.date = last => LastPoint(p, covered, rows)
  BY <1>2, <1>3, <1>4, CurveEnds
<1>6. PICK final \in series : final.date = last
  BY <1>5
<1> HIDE DEF series
<1>7. history.asOf = last
  <2> DEFINE D == {p.date : p \in series}
  <2>1. last \in D /\ \A d \in D : last >= d /\ d \in Nat
    BY <1>5, <1>6
  <2>2. series # {}
    BY <1>6
  <2> HIDE DEF D
  <2>3. Max(D) \in D /\ \A d \in D : Max(D) >= d
    BY <2>1 DEF Max
  <2>4. Max(D) = last
    <3>1. Max(D) >= last /\ last >= Max(D) /\ Max(D) \in Nat
      BY <2>1, <2>3
    <3> QED
      BY <3>1
  <2> QED
    BY <1>1, <2>2, <2>4 DEF D
<1>8. last >= cutoff
  <2>1. PICK p \in series : p.date >= cutoff
    BY <1>1
  <2> QED
    BY <1>5, <2>1
<1>9. final \in shown /\ \A q \in shown : q \in series /\ q.date <= final.date
  BY <1>5, <1>6, <1>8
<1>10. Latest(shown) \in shown /\ \A q \in shown : q.date <= Latest(shown).date
  <2> HIDE DEF shown
  <2> QED
    BY <1>9 DEF Latest
<1>11. Latest(shown).date = last /\ Latest(shown) \in series
  <2>1. Latest(shown) \in series /\ last <= Latest(shown).date
    BY <1>6, <1>9, <1>10
  <2>2. Latest(shown).date \in 1 .. last
    BY <1>5, <2>1
  <2> QED
    BY <2>1, <2>2
<1>12. LastPoint(Latest(shown), covered, rows)
  BY <1>5, <1>11
<1>13. history.fullCoverageSince \in 1 .. last
  <2>1. final.coveredCount = Cardinality(covered) /\ Cardinality(covered) \in Nat
    BY <1>2, <1>5, <1>6, FS_CardinalityType DEF LastPoint
  <2>2. last \in full /\ \A d \in full : d \in 1 .. last
    BY <1>5, <1>6, <2>1
  <2> HIDE DEF full
  <2>3. full \subseteq Nat /\ full # {}
    BY <2>2
  <2>4. Min(full) \in full
    BY <2>3, LeastOf
  <2> QED
    BY <1>1, <2>2, <2>4
<1>14. history.covered = {h \in held : h.secid \in DOMAIN rows /\ rows[h.secid] # {}}
  BY <1>1 DEF covered
<1> HIDE DEF shown
<1> QED
  BY <1>1, <1>7, <1>11, <1>12, <1>13, <1>14

\* The curve ends at what the portfolio is worth now and compares it with the
\* cost that the coverage reports, whatever was stored in which order
\* (build_portfolio_series and get_portfolio_history over the syncs' rows).
THEOREM CurveEnd == BarSpec => []CurveEndsAtHoldings
<1>1. BarInv => CurveEndsAtHoldings
  <2> DEFINE usable(s) == {b \in Upto(s, bars[s]) : b.close # NoPrice}
             worth(h) == IF h.secid = None \/ usable(h.secid) = {} THEN 0
                         ELSE h.shares * Latest(usable(h.secid)).close
             rows == Rows([s \in HeldSecids |-> bars[s]])
             p == Latest(History.series)
  <2> SUFFICES ASSUME BarInv, History.series # {}
      PROVE  /\ p.date = History.asOf
             /\ p.marketValue = SumFunction([h \in HeldRows |-> worth(h)])
             /\ p.totalCost = History.coveredCost
             /\ History.fullCoverageSince \in 1 .. History.asOf
    BY DEF CurveEndsAtHoldings
  <2>1. DOMAIN rows = HeldSecids /\ \A s \in HeldSecids : rows[s] = Upto(s, bars[s])
    BY DEF Rows
  <2>2. \A s \in DOMAIN rows : Priced(rows[s])
    BY <2>1, StoredRows DEF HeldSecids
  <2>3. History = PortfolioHistory(HeldRows, rows, Cutoff)
    BY DEF History
  <2> DEFINE covered == {h \in HeldRows : h.secid \in DOMAIN rows /\ rows[h.secid] # {}}
  <2> HIDE DEF rows
  <2>4. /\ History.covered = covered
        /\ LastPoint(p, covered, rows)
        /\ p.date = History.asOf
        /\ History.coveredCost = SumFunction([h \in covered |-> h.shares * h.cost])
        /\ History.fullCoverageSince \in 1 .. History.asOf
    <3> DEFINE history == History
    <3>1. history = PortfolioHistory(HeldRows, rows, Cutoff) /\ history.series # {} /\ Cutoff \in Nat
      BY <2>3, BarAssumption
    <3> HIDE DEF history
    <3>2. /\ history.covered = covered
          /\ LastPoint(Latest(history.series), history.covered, rows)
          /\ Latest(history.series).date = history.asOf
          /\ history.coveredCost = SumFunction([h \in history.covered |-> h.shares * h.cost])
          /\ history.fullCoverageSince \in 1 .. history.asOf
      BY <2>2, <3>1, HeldRowsFacts, HistoryEnds
    <3> QED
      BY <3>2 DEF history
  <2>5. SumFunction([h \in HeldRows |-> worth(h)]) = SumFunction([h \in covered |-> WorthNow(h, rows)])
    <3> DEFINE g == [h \in HeldRows |-> worth(h)]
               f == [h \in covered |-> WorthNow(h, rows)]
    <3>1. \A h \in covered : f[h] \in Int
      <4> SUFFICES ASSUME NEW h \in covered PROVE WorthNow(h, rows) \in Int
        OBVIOUS
      <4>1. h.shares \in Nat /\ Priced(rows[h.secid]) /\ rows[h.secid] # {}
        BY <2>2, HeldRowsFacts
      <4>2. Latest(rows[h.secid]).close \in Nat
        BY <4>1, LatestBar DEF Priced
      <4> QED
        BY <4>1, <4>2 DEF WorthNow
    <3>2. \A h \in HeldRows : g[h] = IF h \in covered THEN f[h] ELSE 0
      <4> SUFFICES ASSUME NEW h \in HeldRows
                   PROVE  worth(h) = IF h \in covered THEN WorthNow(h, rows) ELSE 0
        OBVIOUS
      <4>1. CASE h.secid = None
        BY <2>1, <4>1, MarketAssumption DEF HeldSecids
      <4>2. CASE h.secid # None
        <5>1. h.secid \in Secids /\ h.secid \in HeldSecids
          BY <4>2, HeldRowsFacts DEF HeldSecids
        <5>2. usable(h.secid) = rows[h.secid]
          BY <2>1, <5>1, StoredRows
        <5> HIDE DEF usable
        <5> QED
          BY <2>1, <4>2, <5>1, <5>2 DEF WorthNow
      <4> QED
        BY <4>1, <4>2
    <3>3. DOMAIN g = HeldRows /\ DOMAIN f = covered /\ covered \in SUBSET HeldRows
      OBVIOUS
    <3> HIDE DEF f, g, covered
    <3>4. SumFunctionOnSet(g, HeldRows) = SumFunctionOnSet(f, covered)
      BY <3>1, <3>2, <3>3, HeldRowsFacts, SumOfPart
    <3>5. SumFunction(g) = SumFunction(f)
      BY <3>3, <3>4 DEF SumFunction
    <3> QED
      BY <3>5 DEF f, g
  <2> HIDE DEF covered, p, worth
  <2> QED
    BY <2>4, <2>5 DEF LastPoint
<1> QED
  BY <1>1, BarSafety, PTL

-----------------------------------------------------------------------------
(* The cache of the indices: the poller                                    *)

LEMMA InitCache == ASSUME CacheInit PROVE CacheInv
<1>1. level = 1 /\ Nothing \notin Nat /\ Nothing \notin Overrides /\ Nothing \notin Accepted /\ edits = 0 /\ tried = 0
  BY CacheAssumption DEF CacheInit
<1>2. PollerInv /\ AcceptedEditStands
  <2>1. cache = [data |-> Nothing, updated |-> FALSE, attempted |-> FALSE, error |-> FALSE] /\ poller = "refresh"
        /\ failing = FALSE /\ manual \in Overrides \cup {Nothing}
        /\ standing = IF manual = Nothing THEN Nothing ELSE [body |-> manual, crossed |-> {}]
    BY DEF CacheInit
  <2>2. cache \in [data : 1 .. level \cup {Nothing}, updated : BOOLEAN, attempted : BOOLEAN, error : BOOLEAN]
    BY <2>1
  <2>3. level \in Nat \ {0}
    BY <1>1
  <2>4. ~failing /\ failing \in BOOLEAN /\ (poller # "refresh" \/ cache.data # Nothing => cache.attempted)
    BY <2>1
  <2>5. PollerInv
    BY <1>1, <2>1, <2>2, <2>3, <2>4 DEF PollerInv
  <2>6. manual # Nothing => standing \in Accepted /\ standing.body = manual
    BY <2>1 DEF Accepted
  <2> QED
    BY <1>1, <2>1, <2>5, <2>6 DEF AcceptedEditStands
<1>3. Outside \in Request /\ Outside.at = "idle" /\ Outside.due = 0 /\ ~Outside.had /\ ~Outside.failed
  BY <1>1 DEF Outside, Request
<1>4. CacheTypeOK
  BY <1>1, <1>3 DEF CacheInit, CacheTypeOK
<1>5. ReaderInv
  BY <1>1, <1>3 DEF CacheInit, ReaderInv, Promising
<1>6. EditInv
  BY <1>1 DEF CacheInit, EditInv, NoEdit, Accepted
<1> QED
  BY <1>2, <1>5, <1>6, <1>4 DEF CacheInv

\* The cache as a record, and the parts of the invariant.
LEMMA CacheFacts ==
    ASSUME CacheInv
    PROVE  /\ Nothing \notin Nat /\ Nothing \notin Overrides /\ Nothing \notin Accepted /\ level \in Nat \ {0} /\ level \in 1 .. level
           /\ cache = [data |-> cache.data, updated |-> cache.updated,
                       attempted |-> cache.attempted, error |-> cache.error]
           /\ cache.data \in 1 .. level \cup {Nothing} /\ tried \in 0 .. level
           /\ CacheTypeOK /\ PollerInv /\ ReaderInv /\ EditInv /\ AcceptedEditStands
BY CacheAssumption DEF CacheInv, PollerInv, CacheTypeOK

LEMMA StepPoller ==
    ASSUME CacheInv, Poller
    PROVE  CacheInv'
<1>0. /\ Nothing \notin Nat /\ Nothing \notin Overrides /\ Nothing \notin Accepted /\ level \in Nat \ {0} /\ level \in 1 .. level
      /\ cache.data \in 1 .. level \cup {Nothing} /\ tried \in 0 .. level
      /\ CacheTypeOK /\ PollerInv /\ ReaderInv /\ EditInv /\ AcceptedEditStands
  BY CacheFacts
<1>1. UNCHANGED <<level, open, up, turns, manual, editor, edits, standing>>
  BY DEF Poller, Refresh, Fetched, Stamp, Clear, RefreshFails, Wake,
         Poll, marketVars, overrides
<1>2. /\ PollerInv' /\ cache'.data \in 1 .. level \cup {Nothing}
      /\ {cache'.updated, cache'.attempted, cache'.error} \subseteq BOOLEAN
      /\ cache'.updated => cache'.data # Nothing /\ cache'.attempted
      /\ poller' \in {"refresh", "fetch", "stamp", "clear", "sleep"}
      /\ cache.data # Nothing => cache'.data # Nothing /\ cache'.data >= cache.data
      /\ tried' \in tried .. level
  <2>1. CASE Refresh
    <3>1. /\ cache'.data = cache.data /\ cache'.error = cache.error /\ tried' = tried /\ failing' = failing /\ level' = level
          /\ cache' \in [data : 1 .. level \cup {Nothing}, updated : BOOLEAN, attempted : BOOLEAN, error : BOOLEAN]
      BY <1>0, <2>1 DEF Refresh, Poll, marketVars, PollerInv
    <3>2. /\ poller' # "refresh" \/ cache'.data # Nothing => cache'.attempted
          /\ cache'.updated => cache'.data # Nothing /\ cache'.attempted
      BY <1>0, <2>1 DEF Refresh, Poll, PollerInv, CacheTypeOK
    <3> QED
      BY <1>0, <2>1, <3>1, <3>2 DEF Refresh, Poll, PollerInv
  <2>2. CASE Fetched
    BY <1>0, <2>2 DEF Fetched, Poll, marketVars, PollerInv, CacheTypeOK
  <2>3. CASE Stamp
    <3>1. /\ cache'.data = cache.data /\ cache'.error = cache.error /\ tried' = tried /\ failing' = failing /\ level' = level
          /\ cache' \in [data : 1 .. level \cup {Nothing}, updated : BOOLEAN, attempted : BOOLEAN, error : BOOLEAN]
      BY <1>0, <2>3 DEF Stamp, Poll, marketVars, PollerInv
    <3>2. /\ poller' # "refresh" \/ cache'.data # Nothing => cache'.attempted
          /\ cache'.updated => cache'.data # Nothing /\ cache'.attempted
      BY <1>0, <2>3 DEF Stamp, Poll, PollerInv, CacheTypeOK
    <3> QED
      BY <1>0, <2>3, <3>1, <3>2 DEF Stamp, Poll, PollerInv
  <2>4. CASE Clear
    <3>1. /\ cache'.data = cache.data /\ cache'.error = FALSE /\ tried' = tried /\ failing' = FALSE /\ level' = level
          /\ cache' \in [data : 1 .. level \cup {Nothing}, updated : BOOLEAN, attempted : BOOLEAN, error : BOOLEAN]
      BY <1>0, <2>4 DEF Clear, Poll, marketVars, PollerInv
    <3>2. /\ poller' # "refresh" \/ cache'.data # Nothing => cache'.attempted
          /\ cache'.updated => cache'.data # Nothing /\ cache'.attempted
      BY <1>0, <2>4 DEF Clear, Poll, PollerInv, CacheTypeOK
    <3> QED
      <4>1. poller = "clear" /\ poller' = "sleep" /\ cache.data = tried /\ cache.data # Nothing
        BY <1>0, <2>4 DEF Clear, Poll, PollerInv
      <4>2. PollerInv'
        <5>1. cache'.data = tried' /\ tried' \in 1 .. level /\ cache'.data >= tried' /\ cache'.data # Nothing
          BY <1>0, <3>1, <4>1
        <5> QED
          BY <1>0, <3>1, <3>2, <4>1, <5>1 DEF PollerInv
      <4> QED
        BY <1>0, <3>1, <3>2, <4>1, <4>2
  <2>5. CASE RefreshFails
    <3>1. /\ cache'.data = cache.data /\ cache'.error = TRUE /\ tried' = level /\ failing' = TRUE /\ level' = level
          /\ cache' \in [data : 1 .. level \cup {Nothing}, updated : BOOLEAN, attempted : BOOLEAN, error : BOOLEAN]
      BY <1>0, <2>5 DEF RefreshFails, Poll, marketVars, PollerInv
    <3>2. /\ poller' # "refresh" \/ cache'.data # Nothing => cache'.attempted
          /\ cache'.updated => cache'.data # Nothing /\ cache'.attempted
      BY <1>0, <2>5 DEF RefreshFails, Poll, PollerInv, CacheTypeOK
    <3> QED
      BY <1>0, <2>5, <3>1, <3>2 DEF RefreshFails, Poll, PollerInv
  <2>6. CASE Wake
    <3>1. /\ cache'.data = cache.data /\ cache'.error = cache.error /\ tried' = tried /\ failing' = failing /\ level' = level
          /\ cache' \in [data : 1 .. level \cup {Nothing}, updated : BOOLEAN, attempted : BOOLEAN, error : BOOLEAN]
      BY <1>0, <2>6 DEF Wake, Poll, marketVars, PollerInv
    <3>2. /\ poller' # "refresh" \/ cache'.data # Nothing => cache'.attempted
          /\ cache'.updated => cache'.data # Nothing /\ cache'.attempted
      BY <1>0, <2>6 DEF Wake, Poll, PollerInv, CacheTypeOK
    <3> QED
      BY <1>0, <2>6, <3>1, <3>2 DEF Wake, Poll, PollerInv
  <2> QED
    BY <2>1, <2>2, <2>3, <2>4, <2>5, <2>6 DEF Poller
<1>3. ReaderInv'
  <2>1. CASE Clear
    <3>1. reader' = [r \in Readers |-> [reader[r] EXCEPT !.failed = FALSE]]
      BY <2>1 DEF Clear
    <3>2. ASSUME NEW r \in Readers
          PROVE  /\ reader[r] \in Request /\ reader'[r] \in Request
                 /\ reader'[r].failed = FALSE /\ reader'[r].had = reader[r].had /\ reader'[r].at = reader[r].at
                 /\ reader'[r].status = reader[r].status /\ reader'[r].indices = reader[r].indices
                 /\ reader'[r].due = reader[r].due /\ reader'[r].error = reader[r].error
      BY <1>0, <3>1 DEF ReaderInv, Request
    <3>3. Request' = Request
      BY <1>1 DEF Request
    <3>4. reader' \in [Readers -> Request]
      BY <3>1, <3>2
    <3> QED
      <4>1. ASSUME NEW r \in Readers
            PROVE  (Promising(reader[r]))' <=> Promising(reader[r])
        BY <3>2 DEF Promising
      <4>2. ~failing' /\ ~cache'.error
        BY <1>0, <2>1 DEF Clear, Poll, PollerInv
      <4>3. level' = level /\ cache'.data = cache.data /\ tried' = tried
        BY <1>0, <1>1, <2>1 DEF Clear, Poll, PollerInv
      <4> QED
        BY <1>0, <1>2, <3>2, <3>3, <3>4, <4>1, <4>2, <4>3 DEF ReaderInv
  <2>2. CASE ~Clear
    <3>1. reader' = reader
      BY <2>2 DEF Poller, Refresh, Fetched, Stamp, RefreshFails, Wake
    <3>2. cache.error => cache'.error
      BY <1>0, <2>2 DEF Poller, Refresh, Fetched, Stamp, RefreshFails, Wake,
                       Poll, PollerInv
    <3> QED
      BY <1>0, <1>1, <1>2, <3>1, <3>2 DEF ReaderInv, Request, Promising
  <2> QED
    BY <2>1, <2>2
<1>4. CacheTypeOK'
  <2>1. \A r \in Readers : reader'[r].at \in {"idle", "error", "status", "indices", "answered"}
    BY <1>3 DEF ReaderInv, Request
  <2> QED
    BY <1>0, <1>1, <1>2, <2>1 DEF CacheTypeOK
<1> QED
  BY <1>0, <1>1, <1>2, <1>3, <1>4 DEF CacheInv, EditInv, AcceptedEditStands

LEMMA StepMarket ==
    ASSUME CacheInv, Move \/ Turn
    PROVE  CacheInv'
<1>0. /\ level \in Nat \ {0} /\ cache.data \in 1 .. level \cup {Nothing}
      /\ CacheTypeOK /\ PollerInv /\ ReaderInv /\ EditInv /\ AcceptedEditStands
  BY CacheFacts
<1>1. /\ level' \in Nat \ {0} /\ level <= level' /\ 1 .. level \subseteq 1 .. level'
      /\ UNCHANGED <<cache, poller, failing, tried, reader, manual, editor, edits, standing>>
  BY <1>0 DEF Move, Turn, overrides
<1>2. CacheTypeOK' /\ PollerInv'
  BY <1>0, <1>1 DEF CacheTypeOK, PollerInv
<1>3. ReaderInv'
  <2>1. Request \subseteq Request'
    BY <1>1 DEF Request
  <2>2. reader' \in [Readers -> Request']
    BY <1>0, <1>1, <2>1 DEF ReaderInv
  <2> QED
    BY <1>0, <1>1, <2>2 DEF ReaderInv, Promising
<1> QED
  BY <1>0, <1>1, <1>2, <1>3 DEF CacheInv, EditInv, AcceptedEditStands

-----------------------------------------------------------------------------
(* The requests of a snapshot                                              *)

\* A request goes on to a state that fits what the cache holds now.
LEMMA ReaderSteps ==
    ASSUME CacheInv, NEW r \in Readers, NEW q \in Request,
           reader' = [reader EXCEPT ![r] = q],
           UNCHANGED <<level, open, up, turns, cache, poller, failing, tried, manual, editor, edits, standing>>,
           q.had => cache.data # Nothing,
           q.failed => cache.error,
           q.failed /\ q.at = "status" => q.error,
           q.failed /\ q.at \in {"indices", "answered"} => q.status \in {"stale", "unavailable"},
           q.had /\ q.at \in {"indices", "answered"} => q.status \in {"ok", "stale"},
           q.had /\ q.at = "answered" => q.indices # Nothing,
           q.due <= tried,
           Promising(q) /\ q.due > 0 => cache.data # Nothing /\ cache.data >= q.due,
           q.at = "indices" /\ q.status = "ok" => cache.data # Nothing,
           q.at = "answered" /\ q.status = "ok" => q.indices # Nothing /\ q.indices >= q.due
    PROVE  CacheInv'
<1>0. CacheTypeOK /\ PollerInv /\ ReaderInv /\ EditInv /\ AcceptedEditStands
  BY CacheFacts
<1>1. reader \in [Readers -> Request] /\ Request' = Request
  BY <1>0 DEF ReaderInv, Request
<1>2. /\ reader' \in [Readers -> Request] /\ reader'[r] = q
      /\ \A o \in Readers \ {r} : reader'[o] = reader[o]
  BY <1>1
<1>3. ReaderInv'
  BY <1>0, <1>1, <1>2 DEF ReaderInv, Promising
<1>4. CacheTypeOK'
  <2>1. \A o \in Readers : reader'[o].at \in {"idle", "error", "status", "indices", "answered"}
    BY <1>2 DEF Request
  <2> QED
    BY <1>0, <2>1 DEF CacheTypeOK
<1> QED
  BY <1>0, <1>3, <1>4 DEF CacheInv, PollerInv, EditInv, AcceptedEditStands

LEMMA StepReader ==
    ASSUME CacheInv, NEW r \in Readers,
           \/ Begin(r) \/ ReadError(r) \/ ReadStatus(r) \/ ReadIndices(r) \/ End(r)
    PROVE  CacheInv'
<1>0. /\ CacheTypeOK /\ PollerInv /\ ReaderInv
      /\ cache.data \in 1 .. level \cup {Nothing} /\ cache.error \in BOOLEAN /\ failing \in BOOLEAN
      /\ tried \in 0 .. level /\ level \in Nat /\ Nothing \notin Nat
  BY CacheFacts DEF PollerInv, CacheTypeOK
<1>1. reader[r] \in Request
  BY <1>0 DEF ReaderInv
<1>2. ASSUME NEW from, NEW q, Read(r, from, q)
      PROVE  /\ reader[r].at = from /\ reader' = [reader EXCEPT ![r] = q]
             /\ UNCHANGED <<level, open, up, turns, cache, poller, failing, tried, manual, editor, edits, standing>>
  BY <1>2 DEF Read, marketVars, overrides
<1>3. CASE Begin(r)
  <2> DEFINE q == [at |-> "error", had |-> cache.data # Nothing, failed |-> failing, due |-> tried,
                   error |-> FALSE, status |-> "none", indices |-> Nothing]
  <2>1. Read(r, "idle", q)
    BY <1>3 DEF Begin
  <2>2. q \in Request /\ q.at = "error" /\ q.had = (cache.data # Nothing) /\ q.failed = failing
        /\ q.due = tried
    BY <1>0 DEF Request
  <2>3. failing => cache.error
    BY <1>0 DEF PollerInv
  <2> HIDE DEF q
  <2> QED
    <3>1. ~Promising(q) /\ q.due <= tried
      BY <1>0, <2>2 DEF Promising
    <3> QED
      BY <1>2, <2>1, <2>2, <2>3, <3>1, ReaderSteps
<1>4. CASE ReadError(r)
  <2> DEFINE q == [reader[r] EXCEPT !.at = "status", !.error = cache.error]
  <2>1. Read(r, "error", q)
    BY <1>4 DEF ReadError
  <2>2. /\ q \in Request /\ q.at = "status" /\ q.error = cache.error
        /\ q.had = reader[r].had /\ q.failed = reader[r].failed /\ q.due = reader[r].due /\ q.due \in 0 .. level
    BY <1>0, <1>1 DEF Request
  <2> HIDE DEF q
  <2>3. (q.had => cache.data # Nothing) /\ (q.failed => cache.error) /\ q.due <= tried
    BY <1>0, <2>2 DEF ReaderInv
  <2>4. Promising(q) /\ q.due > 0 => cache.data # Nothing /\ cache.data >= q.due
    BY <1>0, <2>2, <2>3 DEF Promising, PollerInv
  <2> QED
    BY <1>2, <2>1, <2>2, <2>3, <2>4, ReaderSteps
<1>5. CASE ReadStatus(r)
  <2> DEFINE st == IF reader[r].error THEN IF cache.data # Nothing THEN "stale" ELSE "unavailable"
                   ELSE IF ~cache.attempted THEN "loading"
                   ELSE IF cache.data # Nothing THEN "ok" ELSE "empty"
             q == [reader[r] EXCEPT !.at = "indices", !.status = st]
  <2>1. Read(r, "status", q)
    BY <1>5 DEF ReadStatus
  <2>2. reader[r].at = "status"
    BY <1>2, <2>1
  <2>3. /\ st \in {"loading", "empty", "unavailable", "ok", "stale"}
        /\ reader[r].error => st \in {"stale", "unavailable"}
        /\ cache.data # Nothing => st \in {"ok", "stale"}
        /\ st = "ok" => ~reader[r].error /\ cache.data # Nothing
    BY <1>0 DEF PollerInv
  <2> HIDE DEF st
  <2>4. /\ q \in Request /\ q.at = "indices" /\ q.status = st
        /\ q.had = reader[r].had /\ q.failed = reader[r].failed /\ q.due = reader[r].due
    BY <1>0, <1>1, <2>3 DEF Request
  <2> HIDE DEF q
  <2>5. (q.had => cache.data # Nothing) /\ (q.failed => cache.error /\ reader[r].error) /\ q.due <= tried
    BY <1>0, <2>2, <2>4 DEF ReaderInv
  <2>6. q.status = "ok" /\ q.due > 0 => cache.data # Nothing /\ cache.data >= q.due
    BY <1>0, <1>1, <2>2, <2>3, <2>4 DEF ReaderInv, Promising, Request
  <2>7. Promising(q) => q.status = "ok"
    BY <2>4 DEF Promising
  <2> QED
    BY <1>2, <2>1, <2>3, <2>4, <2>5, <2>6, <2>7, ReaderSteps
<1>6. CASE ReadIndices(r)
  <2> DEFINE q == [reader[r] EXCEPT !.at = "answered", !.indices = cache.data]
  <2>1. Read(r, "indices", q)
    BY <1>6 DEF ReadIndices
  <2>2. reader[r].at = "indices"
    BY <1>2, <2>1
  <2>3. /\ q \in Request /\ q.at = "answered" /\ q.indices = cache.data
        /\ q.had = reader[r].had /\ q.failed = reader[r].failed /\ q.status = reader[r].status
        /\ q.due = reader[r].due /\ q.due \in 0 .. level
    BY <1>0, <1>1 DEF Request
  <2> HIDE DEF q
  <2>4. /\ (q.had => cache.data # Nothing /\ q.status \in {"ok", "stale"})
        /\ (q.failed => cache.error /\ q.status \in {"stale", "unavailable"}) /\ q.due <= tried
    BY <1>0, <2>2, <2>3 DEF ReaderInv
  <2>5. q.status = "ok" => cache.data # Nothing /\ cache.data >= q.due
    <3>1. ASSUME q.status = "ok"
          PROVE  Promising(reader[r]) /\ reader[r].status = "ok" /\ cache.data # Nothing
      BY <1>0, <2>2, <2>3, <3>1 DEF ReaderInv, Promising
    <3>2. Promising(reader[r]) /\ reader[r].due > 0 => cache.data >= reader[r].due
      BY <1>0 DEF ReaderInv
    <3> QED
      BY <1>0, <2>3, <3>1, <3>2
  <2>6. ~Promising(q)
    BY <2>3 DEF Promising
  <2> QED
    BY <1>2, <2>1, <2>3, <2>4, <2>5, <2>6, ReaderSteps
<1>7. CASE End(r)
  <2> DEFINE q == Outside
  <2>1. Read(r, "answered", q)
    BY <1>7 DEF End
  <2>2. q \in Request /\ q.at = "idle" /\ q.had = FALSE /\ q.failed = FALSE
        /\ q.due = 0 /\ q.due <= tried
    BY <1>0 DEF Request, Outside
  <2> HIDE DEF q
  <2> QED
    BY <1>2, <2>1, <2>2, ReaderSteps DEF Promising
<1> QED
  BY <1>3, <1>4, <1>5, <1>6, <1>7

-----------------------------------------------------------------------------
(* The edits of an override                                                *)

\* What a flush writes: a row, with the body in each column the save changed
\* and the old value in the others.
LEMMA FlushedColumns ==
    ASSUME NEW r, r.body \in Overrides, r.row \in Overrides \cup {Nothing},
           NEW row \in Overrides \cup {Nothing}
    PROVE  /\ Flushed(r, row) \in Overrides
           /\ \A c \in Columns : Flushed(r, row)[c] = IF row = Nothing \/ r.body[c] # r.row[c]
                                                     THEN r.body[c] ELSE row[c]
BY DEF Flushed, Overrides

LEMMA EditorFrame ==
    ASSUME CacheInv, UNCHANGED <<level, open, up, turns, cache, poller, failing, tried, reader>>,
           manual' \in Overrides \cup {Nothing}, EditInv', AcceptedEditStands'
    PROVE  CacheInv'
<1>1. CacheTypeOK /\ PollerInv /\ ReaderInv
  BY CacheFacts
<1>2. CacheTypeOK' /\ PollerInv' /\ ReaderInv'
  BY <1>1 DEF CacheTypeOK, PollerInv, ReaderInv, Request, Promising
<1> QED
  BY <1>2 DEF CacheInv

\* An edit begins: it has read the row that stands.
LEMMA StepBegin ==
    ASSUME CacheInv, NEW e \in Editors, NEW kind \in {"save", "delete"},
           NEW body \in Overrides \cup {Nothing}, kind = "save" => body # Nothing,
           BeginEdit(e, kind, body)
    PROVE  CacheInv'
<1> DEFINE f == [at |-> kind, row |-> manual, body |-> body, crossed |-> {}]
           Edit == [at : {"idle", "save", "delete"}, row : Overrides \cup {Nothing},
                    body : Overrides \cup {Nothing}, crossed : SUBSET Overrides]
<1>1. /\ manual \in Overrides \cup {Nothing} /\ EditInv /\ AcceptedEditStands
      /\ edits \in Nat /\ editor \in [Editors -> Edit]
  BY CacheFacts DEF CacheTypeOK, EditInv
<1>2. /\ edits' = edits + 1 /\ editor' = [editor EXCEPT ![e] = f] /\ UNCHANGED <<manual, standing>>
      /\ UNCHANGED <<level, open, up, turns, cache, poller, failing, tried, reader>>
  BY DEF BeginEdit, marketVars
<1>3. f \in Edit /\ f.at = kind /\ f.row = manual /\ f.body = body
  BY <1>1
<1>4. /\ editor' \in [Editors -> Edit] /\ editor'[e] = f
      /\ \A o \in Editors \ {e} : editor'[o] = editor[o]
  BY <1>1, <1>2, <1>3
<1>5. EditInv'
  BY <1>1, <1>2, <1>3, <1>4 DEF EditInv
<1>6. AcceptedEditStands'
  BY <1>1, <1>2 DEF AcceptedEditStands
<1> QED
  BY <1>1, <1>2, <1>5, <1>6, EditorFrame

\* An edit ends: it is enough that the row it leaves accounts for itself and
\* differs from the one it found only in columns of the bodies it leaves.
LEMMA EndKeeps ==
    ASSUME CacheInv, NEW e \in Editors, NEW kind, NEW row \in Overrides \cup {Nothing},
           NEW end \in Accepted \cup {Nothing},
           NEW left \in SUBSET Overrides,
           EndEdit(e, kind, row, end, left),
           row = Nothing <=> end = Nothing,
           row # Nothing => \A c \in Columns : \/ row[c] = end.body[c]
                                               \/ \E b \in end.crossed : row[c] = b[c],
           row # Nothing => \A c \in Columns : \/ manual # Nothing /\ row[c] = manual[c]
                                               \/ \E b \in left : row[c] = b[c]
    PROVE  CacheInv'
<1> DEFINE Edit == [at : {"idle", "save", "delete"}, row : Overrides \cup {Nothing},
                    body : Overrides \cup {Nothing}, crossed : SUBSET Overrides]
<1>1. /\ manual \in Overrides \cup {Nothing} /\ EditInv
      /\ edits \in Nat /\ editor \in [Editors -> Edit]
  BY CacheFacts DEF CacheTypeOK, EditInv
<1>2. /\ manual' = row /\ standing' = end /\ edits' = edits
      /\ editor' = [x \in Editors |-> IF x = e \/ editor[x] = NoEdit THEN NoEdit
                                      ELSE [editor[x] EXCEPT !.crossed = @ \cup left]]
      /\ UNCHANGED <<level, open, up, turns, cache, poller, failing, tried, reader>>
  BY DEF EndEdit, marketVars
<1>3. NoEdit \in Edit /\ NoEdit.at = "idle"
  BY DEF NoEdit
<1>4. ASSUME NEW o \in Editors, o # e, editor[o] # NoEdit
      PROVE  /\ editor'[o] \in Edit /\ editor'[o].at = editor[o].at /\ editor'[o].row = editor[o].row
             /\ editor'[o].body = editor[o].body /\ editor'[o].crossed = editor[o].crossed \cup left
  BY <1>1, <1>2, <1>4
<1>5. \A o \in Editors : o = e \/ editor[o] = NoEdit => editor'[o] = NoEdit
  BY <1>2
<1>6. editor' \in [Editors -> Edit]
  BY <1>2, <1>3, <1>4, <1>5
<1>7. ASSUME NEW o \in Editors, editor'[o].at = "save"
      PROVE  /\ editor'[o].body # Nothing
             /\ editor'[o].row # Nothing /\ manual' # Nothing =>
                   \A c \in Columns : \/ manual'[c] = editor'[o].row[c]
                                      \/ \E b \in editor'[o].crossed : manual'[c] = b[c]
  <2>1. o # e /\ editor[o] # NoEdit
    BY <1>3, <1>5, <1>7
  <2>2. /\ editor'[o].at = editor[o].at /\ editor'[o].row = editor[o].row
        /\ editor'[o].body = editor[o].body /\ editor'[o].crossed = editor[o].crossed \cup left
    BY <1>4, <2>1
  <2>3. editor[o].at = "save"
    BY <1>7, <2>2
  <2>4. /\ editor[o].body # Nothing
        /\ editor[o].row # Nothing /\ manual # Nothing =>
              \A c \in Columns : \/ manual[c] = editor[o].row[c]
                                 \/ \E b \in editor[o].crossed : manual[c] = b[c]
    BY <1>1, <2>3 DEF EditInv
  <2>5. ASSUME NEW c \in Columns, editor[o].row # Nothing, row # Nothing
        PROVE  \/ row[c] = editor[o].row[c]
               \/ \E b \in editor[o].crossed \cup left : row[c] = b[c]
    <3>1. CASE \E b \in left : row[c] = b[c]
      BY <3>1
    <3>2. CASE manual # Nothing /\ row[c] = manual[c]
      BY <2>4, <2>5, <3>2
    <3> QED
      BY <2>5, <3>1, <3>2
  <2> QED
    BY <1>2, <2>2, <2>4, <2>5
<1>8. EditInv'
  BY <1>1, <1>2, <1>6, <1>7 DEF EditInv
<1>9. AcceptedEditStands'
  BY <1>2 DEF AcceptedEditStands
<1> HIDE DEF Edit
<1> QED
  BY <1>2, <1>8, <1>9, EditorFrame

\* A request that is refused leaves what it found.
LEMMA StepRefused ==
    ASSUME CacheInv, NEW e \in Editors, NEW kind, Refused(e, kind)
    PROVE  CacheInv'
<1>1. /\ manual \in Overrides \cup {Nothing} /\ AcceptedEditStands
      /\ standing \in Accepted \cup {Nothing}
  BY CacheFacts DEF CacheTypeOK, EditInv
<1>2. EndEdit(e, kind, manual, standing, {})
  BY DEF Refused
<1> QED
  BY <1>1, <1>2, EndKeeps DEF AcceptedEditStands

LEMMA StepSave ==
    ASSUME CacheInv, NEW e \in Editors, Save(e)
    PROVE  CacheInv'
<1> DEFINE r   == editor[e]
           row == Flushed(r, manual)
           end == [body |-> r.body, crossed |-> r.crossed]
<1>1. CASE (r.row = Nothing) # (manual = Nothing)
  BY <1>1, StepRefused DEF Save
<1>2. CASE (r.row = Nothing) = (manual = Nothing)
  <2>1. EndEdit(e, "save", row, end, {r.body}) /\ r.at = "save"
    BY <1>2 DEF Save, EndEdit
  <2>2. /\ manual \in Overrides \cup {Nothing} /\ Nothing \notin Overrides /\ Nothing \notin Accepted
        /\ r.row \in Overrides \cup {Nothing} /\ r.body \in Overrides \cup {Nothing} /\ r.crossed \in SUBSET Overrides
        /\ r.body # Nothing
        /\ r.row # Nothing /\ manual # Nothing =>
              \A c \in Columns : \/ manual[c] = r.row[c]
                                 \/ \E b \in r.crossed : manual[c] = b[c]
    BY <2>1, CacheFacts DEF CacheTypeOK, EditInv
  <2>3. /\ row \in Overrides /\ row # Nothing /\ r.body \in Overrides
        /\ \A c \in Columns : row[c] = IF manual = Nothing \/ r.body[c] # r.row[c] THEN r.body[c] ELSE manual[c]
    BY <2>2, FlushedColumns
  <2>4. /\ end \in Accepted
        /\ end.body = r.body /\ end.crossed = r.crossed
    BY <2>2, <2>3 DEF Accepted
  <2>5. ASSUME NEW c \in Columns
        PROVE  /\ row[c] = end.body[c] \/ \E b \in end.crossed : row[c] = b[c]
               /\ (manual # Nothing /\ row[c] = manual[c]) \/ \E b \in {r.body} : row[c] = b[c]
    <3>1. CASE row[c] = r.body[c]
      BY <2>4, <3>1
    <3>2. CASE row[c] # r.body[c]
      <4>1. manual # Nothing /\ r.body[c] = r.row[c] /\ row[c] = manual[c] /\ r.row # Nothing
        BY <1>2, <2>3, <3>2
      <4> QED
        BY <2>2, <2>4, <3>2, <4>1
    <3> QED
      BY <3>1, <3>2
  <2>6. {r.body} \in SUBSET Overrides
    BY <2>3
  <2>7. end # Nothing
    BY <2>2, <2>4
  <2>8. /\ \A c \in Columns : row[c] = end.body[c] \/ \E b \in end.crossed : row[c] = b[c]
        /\ \A c \in Columns : (manual # Nothing /\ row[c] = manual[c]) \/ \E b \in {r.body} : row[c] = b[c]
    BY <2>5
  <2> HIDE DEF row, end, r
  <2> QED
    BY <2>1, <2>3, <2>4, <2>6, <2>7, <2>8, EndKeeps
<1> QED
  BY <1>1, <1>2

LEMMA StepDelete ==
    ASSUME CacheInv, NEW e \in Editors, Delete(e)
    PROVE  CacheInv'
<1>1. CASE editor[e].row = Nothing
  BY <1>1, StepRefused DEF Delete
<1>2. CASE editor[e].row # Nothing
  BY <1>2, EndKeeps DEF Delete
<1> QED
  BY <1>1, <1>2

LEMMA StepEditor ==
    ASSUME CacheInv, NEW e \in Editors, BeginSave(e) \/ BeginDelete(e) \/ Save(e) \/ Delete(e)
    PROVE  CacheInv'
<1>1. CASE BeginSave(e)
  <2>1. PICK body \in Overrides : BeginEdit(e, "save", body)
    BY <1>1 DEF BeginSave
  <2> QED
    BY <2>1, CacheFacts, StepBegin
<1>2. CASE BeginDelete(e)
  BY <1>2, StepBegin DEF BeginDelete
<1> QED
  BY <1>1, <1>2, StepSave, StepDelete

LEMMA StepCache == CacheInv /\ [CacheNext]_cacheVars => CacheInv'
<1> SUFFICES ASSUME CacheInv, [CacheNext]_cacheVars PROVE CacheInv'
  OBVIOUS
<1>1. CASE UNCHANGED cacheVars
  <2>1. UNCHANGED <<level, open, up, turns, cache, poller, failing, tried, reader, manual, editor, edits, standing>>
    BY <1>1 DEF cacheVars
  <2> QED
    BY <2>1 DEF CacheInv, CacheTypeOK, PollerInv, ReaderInv, Request, EditInv,
               AcceptedEditStands, Promising
<1>2. CASE CacheNext
  BY <1>2, StepMarket, StepPoller, StepReader, StepEditor DEF CacheNext
<1> QED
  BY <1>1, <1>2

\* The inductive invariant of the cache, its readers and the overrides.
THEOREM CacheSafety == CacheSpec => []CacheInv
<1>1. CacheInit => CacheInv
  BY InitCache
<1> QED
  BY <1>1, StepCache, PTL DEF CacheSpec

\* A request answers a market when there was one to show, and says "ok" only of
\* one as late as the last fetch that ended before it began (MarketCache, its
\* poller against its requests).
THEOREM SnapshotsAreHonest == CacheSpec => []AnswersAreHonest
<1>1. CacheInv => AnswersAreHonest
  BY DEF CacheInv, ReaderInv, AnswersAreHonest, AnswersKeepTheMarket, OldMarketIsStale,
         OkIsNotOlderThanTheLastFetch
<1> QED
  BY <1>1, CacheSafety, PTL

\* Of an override stands the last accepted edit, column by column, but for the
\* columns that an overlapping save changed and this one did not
\* (MarketCache.AcceptedEditStands).
THEOREM EditsStand == CacheSpec => []AcceptedEditStands
<1>1. CacheInv => AcceptedEditStands
  BY DEF CacheInv
<1> QED
  BY <1>1, CacheSafety, PTL
=============================================================================
