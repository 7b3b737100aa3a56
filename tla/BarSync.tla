------------------------------ MODULE BarSync ------------------------------
(***************************************************************************)
(* The daily bars of the market and the three jobs that write them: the    *)
(* pressure monitor (services/pressure_monitor.py), the history sync of a  *)
(* portfolio and the bars an analysis fetches when it finds none           *)
(* (services/portfolio_history.py).  Each job is one transaction whose     *)
(* writes lock rows until its commit, and awaits the providers inside it.  *)
(*                                                                         *)
(* A row is a day's bar of a secid; providers answer with every bar up to  *)
(* today, so that bars[s] = d says the rows of s up to day d are stored,   *)
(* and a job that writes s locks all of them.  A job runs on an event loop *)
(* that only an await gives back: psycopg2 waits for a lock in the loop.   *)
(***************************************************************************)
EXTENDS Sequences, SequencesExt, PressureIndex, PortfolioSeries

CONSTANTS
    Jobs, LoopOf, KindsOf,      \* the jobs, their event loops, what each may run
    Themes, Subs,               \* THEME_CONFIGS
    Order,                      \* _all_secids, a sequence
    Insts, Inst, Held,          \* instruments and the positions of the superadmin
    Secids, Markets, FirstDay, LastDay, Cutoff,
    MaxRuns, MaxFailures        \* bounds: jobs started, providers down at once

\* What a resolver names and what the themes list are rows that can be stored.
ASSUME BarAssumption ==
    /\ FirstDay \in Nat /\ LastDay \in Nat /\ FirstDay <= LastDay /\ Cutoff \in Nat /\ MaxRuns \in Nat
    /\ Order \in Seq(Secids)
    /\ \A h \in Held : h.inst \in Insts
    /\ \A i \in Insts : {Inst[i].of, Inst[i].ref, Inst[i].byCode} \subseteq Secids \cup {None}

\* The subs of a theme are over secids the monitor fetches; a provider answers
\* with one bar a day, and its parser drops a bar that has no close above 0.
ASSUME MarketAssumption ==
    /\ \A t \in Themes :
          Subs[t] \in Seq([kind : {"volumeRatio"}, a : ToSet(Order)] \cup
                          [kind : {"underperformance", "spread"}, a : ToSet(Order), b : ToSet(Order)])
    /\ \A m \in DOMAIN Markets : \A s \in Secids :
          /\ IsFiniteSet(Markets[m][s])
          /\ \A b \in Markets[m][s] : b.date \in Nat \ {0} /\ b.close \in Nat \ {0}
          /\ \A b, c \in Markets[m][s] : b.date = c.date => b = c
    /\ NoPrice \notin Nat /\ None \notin Secids

\* Positions have shares; a cost of 0 is unknown.
ASSUME HeldAssumption ==
    IsFiniteSet(Held) /\ \A h \in Held : h.shares \in Nat /\ h.cost \in Nat

VARIABLES
    market,     \* what the providers have: a name in DOMAIN Markets
    today,
    bars,       \* committed rows of daily_bars, by secid
    posted,     \* committed community_signals of the monitor
    job,        \* the jobs
    started     \* jobs started
barVars == <<market, today, bars, posted, job, started>>

NoWrites == [s \in Secids |-> 0]
Idle == [at |-> "idle", kind |-> "none", day |-> 0, todo |-> {}, cur |-> <<>>, read |-> NoWrites,
         pend |-> NoWrites, done |-> {}, result |-> <<>>, cross |-> {}, dels |-> {}]

BarInit ==
    /\ market \in DOMAIN Markets
    /\ today = FirstDay
    /\ \E d \in {0, FirstDay} : bars = [s \in Secids |-> IF Markets[market][s] = {} THEN 0 ELSE d]
    /\ posted = {}
    /\ job = [j \in Jobs |-> Idle]
    /\ started = 0

-----------------------------------------------------------------------------
Upto(s, d) == {b \in Markets[market][s] : b.date <= d}
\* _load_bars, _load_all_bars: the rows a transaction sees, its own included.
Rows(view) == [s \in DOMAIN view |-> Upto(s, view[s])]
Later(f, g) == [s \in Secids |-> IF f[s] > g[s] THEN f[s] ELSE g[s]]

\* get_pressure_snapshot, tabulated once over the markets and the rows there
\* can be.
BarDays == {0} \cup FirstDay .. LastDay
Pressure ==
    {[market |-> m, theme |-> t, view |-> v,
      pressure |-> ThemePressure(Subs[t], [s \in DOMAIN v |-> {b \in Markets[m][s] : b.date <= v[s]}])] :
        m \in DOMAIN Markets, t \in Themes, v \in [ToSet(Order) -> BarDays]}
Snapshot(t, view) ==
    (CHOOSE x \in Pressure : /\ x.market = market /\ x.theme = t
                             /\ \A s \in ToSet(Order) : x.view[s] = view[s]).pressure

\* resolve_bar_secid
Resolve(i) ==
    IF Inst[i].isFund /\ Inst[i].sixDigits THEN [secid |-> Inst[i].of, kind |-> "fund"]
    ELSE IF Inst[i].foreign THEN [secid |-> None, kind |-> "none"]
    ELSE IF Inst[i].ref # None THEN [secid |-> Inst[i].ref, kind |-> "exchange"]
    ELSE IF Inst[i].sixDigits /\ Inst[i].byCode # None THEN [secid |-> Inst[i].byCode, kind |-> "exchange"]
    ELSE [secid |-> None, kind |-> "none"]

Holders(s) == {k \in Jobs : job[k].pend[s] > 0}
Free(j, s) == Holders(s) \subseteq {j}
\* The jobs that keep their loop to themselves: between two awaits, or
\* waiting in psycopg2 for a lock.
Busy(k) == job[k].at \in {"flush", "blocked"}
LoopFree(j) == \A k \in Jobs \ {j} : LoopOf[k] = LoopOf[j] => ~Busy(k)

\* The rows of s are written up to day d: locks taken, or waited for.
Written(r, s, d) == [r EXCEPT !.pend[s] = d]
UpsertBars(j, r, s, d) ==
    job' = [job EXCEPT ![j] = IF Free(j, s) THEN Written(r, s, d)
                              ELSE [r EXCEPT !.at = "blocked", !.cur = <<s, d, r.at>>]]

Unblock(j) ==
    /\ job[j].at = "blocked"
    /\ LET r == job[j]  s == r.cur[1]  d == r.cur[2] IN
       /\ Free(j, s)
       /\ \* INSERT of a row another job committed meanwhile: IntegrityError
          IF r.kind = "pressure" /\ r.read[s] < d /\ bars[s] > r.read[s]
          THEN job' = [job EXCEPT ![j] = Idle]
          ELSE job' = [job EXCEPT ![j] = Written([r EXCEPT !.at = r.cur[3], !.cur = <<>>], s, d)]
    /\ UNCHANGED <<market, today, bars, posted, started>>

-----------------------------------------------------------------------------
(* sync_portfolio_bars, ensure_instrument_bars *)

StartSync(j, kind, todo) ==
    /\ job[j] = Idle /\ LoopFree(j) /\ started < MaxRuns
    /\ kind \in KindsOf[j]
    /\ job' = [job EXCEPT ![j] = [Idle EXCEPT !.at = "fetch", !.kind = kind, !.day = today, !.todo = todo]]
    /\ started' = started + 1
    /\ UNCHANGED <<market, today, bars, posted>>

\* POST /portfolio/history/sync, and the daily job's last step
StartPortfolio(j) == StartSync(j, "portfolio", {h.inst : h \in Held})
\* collect_instrument_evidence for one instrument
StartEvidence(j, i) == StartSync(j, "evidence", {i})

Answer(r, i, res, done) == [r EXCEPT !.todo = @ \ {i}, !.result = (i :> res) @@ @, !.done = @ \cup done]

Unsupported(j, i) ==
    /\ job' = [job EXCEPT ![j] = Answer(job[j], i, "failed", {})]
    /\ UNCHANGED <<market, today, bars, posted, started>>

\* A secid this sync has stored, or one the evidence finds rows of.
HasBars(j, s) == IF job[j].kind = "portfolio" THEN s \in job[j].done ELSE bars[s] > 0

Reuse(j, i) ==
    /\ job' = [job EXCEPT ![j] = Answer(job[j], i, "reused", {})]
    /\ UNCHANGED <<market, today, bars, posted, started>>

\* The provider raises ("provider-error"), or neither interface has bars.
FetchFails(j, i) ==
    /\ job' = [job EXCEPT ![j] = Answer(job[j], i, "failed", {})]
    /\ UNCHANGED <<market, today, bars, posted, started>>

\* The bars come, from s or, when the exchange has none or is out of reach (its
\* errors are taken for no bars), from the fund's interface under the fund's
\* secid; _upsert_bars writes them at once.
Fetch(j, i, s) ==
    /\ \E from \in {s} \cup (IF Resolve(i).kind = "exchange" /\ Inst[i].sixDigits THEN {Inst[i].of} ELSE {}) :
         /\ from # None
         /\ Upto(from, today) # {}
         /\ UpsertBars(j, Answer(job[j], i, "ok", {s, from}), from, today)
    /\ UNCHANGED <<market, today, bars, posted, started>>

\* The next instrument of the loop.
Serve(j) ==
    /\ job[j].at = "fetch" /\ job[j].kind # "pressure" /\ LoopFree(j)
    /\ \E i \in job[j].todo : \E s \in {Resolve(i).secid} :
         \/ s = None /\ Unsupported(j, i)
         \/ s # None /\ HasBars(j, s) /\ Reuse(j, i)
         \/ s # None /\ ~HasBars(j, s) /\ (FetchFails(j, i) \/ Fetch(j, i, s))

CommitSync(j) ==
    /\ job[j].at = "fetch" /\ job[j].kind # "pressure" /\ job[j].todo = {} /\ LoopFree(j)
    /\ bars' = Later(bars, job[j].pend)
    /\ job' = [job EXCEPT ![j] = Idle]
    /\ UNCHANGED <<market, today, posted, started>>

-----------------------------------------------------------------------------
(* run_pressure_monitor *)

StartPressure(j) ==
    /\ job[j] = Idle /\ LoopFree(j) /\ started < MaxRuns
    /\ "pressure" \in KindsOf[j]
    /\ job' = [job EXCEPT ![j] = [Idle EXCEPT !.at = "fetch", !.kind = "pressure", !.day = today]]
    /\ started' = started + 1
    /\ UNCHANGED <<market, today, bars, posted>>

\* sync_pressure_bars: the gather ends; each provider answers or is down.
FetchAll(j) ==
    /\ job[j].at = "fetch" /\ job[j].kind = "pressure" /\ LoopFree(j)
    /\ \E down \in SUBSET ToSet(Order) :
          /\ Cardinality(down) <= MaxFailures
          /\ job' = [job EXCEPT ![j].at = "flush", ![j].todo = ToSet(Order) \ down,
                                ![j].read = bars, ![j].day = today]
    /\ UNCHANGED <<market, today, bars, posted, started>>

\* session.flush: the rows of one secid after the other.
Flush(j) ==
    /\ job[j].at = "flush" /\ job[j].todo # {}
    /\ LET s == Order[Min({k \in DOMAIN Order : Order[k] \in job[j].todo})]
           r == [job[j] EXCEPT !.todo = @ \ {s}] IN
       IF r.read[s] < r.day /\ bars[s] > r.read[s]
       THEN job' = [job EXCEPT ![j] = Idle]
       ELSE UpsertBars(j, r, s, r.day)
    /\ UNCHANGED <<market, today, bars, posted, started>>

\* get_pressure_snapshot over the rows just written.
Crossings(view) ==
    {x \in {[theme |-> t, day |-> today, base |-> view, crossing |-> Snapshot(t, view).crossing] :
               t \in Themes} : x.crossing # "none"}

\* The signals of the day's crossings replace those of an earlier run of the
\* day; the push is awaited with every lock held.
ComputeMutant(j) ==
    /\ job[j].at = "flush" /\ job[j].todo = {}
    /\ \E view \in {Later(bars, job[j].pend)} : \E new \in {Crossings(view)} :
         /\ job' = [job EXCEPT ![j].at = "push", ![j].day = today, ![j].read = NoWrites,
                               ![j].cross = new, ![j].dels = {}]
         /\ posted' = {x \in posted : x.day # today} \cup new
    /\ UNCHANGED <<market, today, bars, started>>

Compute(j) ==
    /\ job[j].at = "flush" /\ job[j].todo = {}
    /\ \E view \in {Later(bars, job[j].pend)} : \E new \in {Crossings(view)} :
         job' = [job EXCEPT ![j].at = "push", ![j].day = today, ![j].read = NoWrites, ![j].cross = new,
                   ![j].dels = IF new = {} THEN {} ELSE {x \in posted : x.day = today}]
    /\ UNCHANGED <<market, today, bars, posted, started>>

\* session.commit: all of it, or nothing when a signal's key is taken.
FinishMonitor(j) ==
    /\ job[j].at = "push" /\ LoopFree(j)
    /\ LET kept == posted \ job[j].dels
           taken == \E x \in kept, y \in job[j].cross : x.theme = y.theme /\ x.day = y.day IN
       /\ posted' = IF taken THEN posted ELSE kept \cup job[j].cross
       /\ bars' = IF taken THEN bars ELSE Later(bars, job[j].pend)
    /\ job' = [job EXCEPT ![j] = Idle]
    /\ UNCHANGED <<market, today, started>>

-----------------------------------------------------------------------------
WaitsFor(j) == IF job[j].at = "blocked" THEN Holders(job[j].cur[1]) ELSE {}

NeverAborts(j) == FALSE /\ UNCHANGED barVars

\* PostgreSQL ends one transaction of a cycle of waits, and the job with it.
Abort(j) ==
    /\ \E k \in WaitsFor(j) : j \in WaitsFor(k)
    /\ job' = [job EXCEPT ![j] = Idle]
    /\ UNCHANGED <<market, today, bars, posted, started>>

\* The process of the loop stops: its transactions are rolled back.
Stop(loop) ==
    /\ \E j \in Jobs : LoopOf[j] = loop /\ job[j] # Idle
    /\ job' = [j \in Jobs |-> IF LoopOf[j] = loop THEN Idle ELSE job[j]]
    /\ UNCHANGED <<market, today, bars, posted, started>>

Tick ==
    /\ today < LastDay
    /\ today' = today + 1
    /\ UNCHANGED <<market, bars, posted, job, started>>

Step(j) ==
    \/ Unblock(j) \/ Abort(j)
    \/ Serve(j) \/ CommitSync(j)
    \/ FetchAll(j) \/ Flush(j) \/ Compute(j) \/ FinishMonitor(j)

BarNext ==
    \/ \E j \in Jobs : \/ StartPortfolio(j) \/ StartPressure(j) \/ Step(j)
                       \/ \E i \in Insts : StartEvidence(j, i)
    \/ \E loop \in {LoopOf[j] : j \in Jobs} : Stop(loop)
    \/ Tick

BarSpec == BarInit /\ [][BarNext]_barVars
\* Providers answer or time out (httpx timeouts), loops keep running their
\* coroutines and PostgreSQL hands a lock to the one who waits.
FairBarSpec == BarSpec /\ \A j \in Jobs : WF_barVars(Step(j))

-----------------------------------------------------------------------------
(* Properties *)

\* Types: a blocked job waits for rows of another job and no two jobs hold the same rows.
BarTypeOK ==
    /\ market \in DOMAIN Markets
    /\ today \in FirstDay .. LastDay
    /\ bars \in [Secids -> 0 .. LastDay]
    /\ started \in 0 .. MaxRuns
    /\ \A x \in posted : x.theme \in Themes /\ x.day <= today
    /\ \A j \in Jobs : /\ job[j].at \in {"idle", "fetch", "flush", "push", "blocked"}
                       /\ job[j].pend \in [Secids -> 0 .. LastDay]
    /\ \A s \in Secids : Cardinality(Holders(s)) <= 1

\* A signal on the page was computed from rows that are stored with it: no
\* roll-back, lost race or stop leaves a crossing without its bars.
SignalsComeWithBars == \A x \in posted : \A s \in Secids : x.base[s] <= bars[s]

\* A day has one signal of a theme, the one its rows yield.
OneSignalPerThemeDay ==
    \A x, y \in posted : x.theme = y.theme /\ x.day = y.day => x = y

\* Rows, signals and the locks of the jobs that write them agree.
BarsAndSignalsAgree == BarTypeOK /\ SignalsComeWithBars /\ OneSignalPerThemeDay

\* A crossing and the status shown next to it agree: a theme that crossed
\* upwards rises, one that crossed downwards does not.
CrossingAgreesWithStatus ==
    \A t \in Themes : LET p == Snapshot(t, bars) IN
        /\ p.crossing = "up" => p.status \in {"rising on volume", "rising on thin volume"}
        /\ p.crossing = "down" => p.status \in {"rebound to confirm", "falling on thin volume"}
        /\ p.composite # None => p.composite \in 0 .. 100 * Scale * Len(Subs[t])

HeldRows == {[inst |-> h.inst, secid |-> Resolve(h.inst).secid, shares |-> h.shares, cost |-> h.cost] : h \in Held}
HeldSecids == {h.secid : h \in HeldRows} \cap Secids
\* The answer of /portfolio/history.
History == PortfolioHistory(HeldRows, Rows([s \in HeldSecids |-> bars[s]]), Cutoff)

\* The curve ends at the portfolio: on its last day it values every covered
\* holding at the last close stored of it, however old, and compares it with
\* the whole cost that coverage reports.
CurveEndsAtHoldings ==
    LET usable(s) == {b \in Upto(s, bars[s]) : b.close # NoPrice}
        worth(h) == IF h.secid = None \/ usable(h.secid) = {} THEN 0 ELSE h.shares * Latest(usable(h.secid)).close
        history == History
        p == Latest(history.series)
    IN history.series # {} =>
         /\ p.date = history.asOf
         /\ p.marketValue = SumFunction([h \in HeldRows |-> worth(h)])
         /\ p.totalCost = history.coveredCost
         /\ history.fullCoverageSince \in 1 .. history.asOf

\* Every job ends: it answers, fails, or is ended by PostgreSQL.
SyncsEnd == \A j \in Jobs : job[j] # Idle ~> job[j] = Idle

\* The design of the API (the loop does not do the syncs' work): whoever
\* waits for a lock in a loop gets it, and gives the loop back.
LoopGivenBack == \A j \in Jobs : job[j].at = "blocked" ~> job[j].at # "blocked"
=============================================================================
