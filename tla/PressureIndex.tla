--------------------------- MODULE PressureIndex ---------------------------
(***************************************************************************)
(* The pressure index of a theme (services/pressure.py): pure functions of *)
(* daily bars.  The rows of a secid are a set of [date, close, volume]     *)
(* with one bar a date, None for a missing value; an indicator is a set of *)
(* points [date, value] whose value is a fraction [n, d] with d > 0, kept  *)
(* exact; scores are in units of 1 / Scale percent.                        *)
(***************************************************************************)
EXTENDS Integers, FiniteSets, Functions

CONSTANTS
    PercentileWindow, ReturnPeriod, VolumePeriod,
    UpperThreshold, LowerThreshold,
    Scale, None

ASSUME PressureAssumption ==
    /\ PercentileWindow \in Nat \ {0} /\ ReturnPeriod \in Nat \ {0} /\ VolumePeriod \in Nat \ {0}
    /\ Scale \in Nat \ {0} /\ \A k \in 1 .. PercentileWindow : Scale % k = 0
    /\ LowerThreshold \in Int /\ UpperThreshold \in Int /\ LowerThreshold < UpperThreshold

\* The last n elements of S up to and including p, by date; all of them when
\* there are fewer.
Window(S, p, n) ==
    {q \in S : q.date <= p.date /\ Cardinality({r \in S : q.date < r.date /\ r.date <= p.date}) < n}
\* The element k places before p, as a set: empty when there is none.
Before(S, p, k) ==
    {q \in S : q.date <= p.date /\ Cardinality({r \in S : q.date < r.date /\ r.date <= p.date}) = k}
Latest(S) == CHOOSE p \in S : \A q \in S : q.date <= p.date

-----------------------------------------------------------------------------
\* _volume_ratio_series: the volume over its average of the last days.
VolumeRatioSeries(rows) ==
    LET days(b) == Window(rows, b, VolumePeriod)
        total(b) == SumFunction([q \in days(b) |-> q.volume])
        usable == {b \in rows : /\ Cardinality(days(b)) = VolumePeriod
                                /\ \A q \in days(b) : q.volume # None}
    IN {[date |-> b.date, value |-> [n |-> b.volume * VolumePeriod, d |-> total(b)]] :
          b \in {c \in usable : total(c) # 0}}

\* _align_by_date: the days both have.
AlignByDate(a, b) ==
    {[date |-> p[1].date, a |-> p[1].close, b |-> p[2].close] :
        p \in {q \in a \X b : q[1].date = q[2].date}}

\* _underperformance_series: how much the baseline returned more, over the
\* last days both have.
UnderperformanceSeries(sector, baseline) ==
    LET days == AlignByDate(sector, baseline)
        rate(x, y) == x # None /\ y # None /\ y # 0
        pairs == {x \in days \X days :
                    /\ x[2] \in Before(days, x[1], ReturnPeriod)
                    /\ rate(x[1].a, x[2].a) /\ rate(x[1].b, x[2].b)}
    IN {[date |-> x[1].date,
         value |-> [n |-> x[1].b * x[2].a - x[1].a * x[2].b, d |-> x[2].a * x[2].b]] : x \in pairs}

SpreadSeries(high, low) ==
    {[date |-> p.date, value |-> [n |-> p.a - p.b, d |-> 1]] : p \in AlignByDate(high, low)}

\* _build_danger_series, for a sub of a theme over the rows of each secid.
DangerSeries(sub, rows) ==
    CASE sub.kind = "volumeRatio"      -> VolumeRatioSeries(rows[sub.a])
      [] sub.kind = "underperformance" -> UnderperformanceSeries(rows[sub.a], rows[sub.b])
      [] sub.kind = "spread"           -> SpreadSeries(rows[sub.a], rows[sub.b])

-----------------------------------------------------------------------------
Leq(x, y) == x.n * y.d <= y.n * x.d

\* percentile_rank of a window's last value, itself included.
PercentileRank(window, p) ==
    (100 * Scale * Cardinality({q \in window : Leq(q.value, p.value)})) \div Cardinality(window)

\* rolling_percentile_scores
RollingScores(series) ==
    {[date |-> p.date, score |-> PercentileRank(Window(series, p, PercentileWindow), p)] : p \in series}

\* _build_composite_series: the days every sub has a score of.  The sum of
\* the scores stands for their mean: thresholds are multiplied instead.
Composite(subs, rows) ==
    LET own == UNION {{<<s, p>> : p \in RollingScores(DangerSeries(subs[s], rows))} : s \in DOMAIN subs}
        at(d) == {x \in own : x[2].date = d}
        days == {d \in {x[2].date : x \in own} : Cardinality(at(d)) = Cardinality(DOMAIN subs)}
    IN {[date |-> d, sum |-> SumFunction([x \in at(d) |-> x[2].score])] : d \in days}

\* detect_crossing: the last two days on the two sides of a threshold.
CrossingMutant(subs, c) ==
    LET last == Latest(c).sum
        prev == Latest(c \ {Latest(c)}).sum
        level(t) == t * Scale * Cardinality(DOMAIN subs)
    IN IF Cardinality(c) < 2 THEN "none"
       ELSE IF prev <= level(UpperThreshold) /\ level(UpperThreshold) <= last THEN "up"
       ELSE IF prev >= level(LowerThreshold) /\ level(LowerThreshold) >= last THEN "down"
       ELSE "none"

Crossing(subs, c) ==
    LET last == Latest(c).sum
        prev == Latest(c \ {Latest(c)}).sum
        level(t) == t * Scale * Cardinality(DOMAIN subs)
    IN IF Cardinality(c) < 2 THEN "none"
       ELSE IF prev < level(UpperThreshold) /\ level(UpperThreshold) <= last THEN "up"
       ELSE IF prev > level(LowerThreshold) /\ level(LowerThreshold) >= last THEN "down"
       ELSE "none"

\* build_status: the direction of the composite and the volume's score; the
\* first sub of a theme is its volume's (volumeKey).
Status(subs, c, rows) ==
    LET volume == {p.score : p \in {q \in RollingScores(DangerSeries(subs[1], rows)) : q.date = Latest(c).date}}
        high   == \A s \in volume : s >= 50 * Scale
    IN IF Cardinality(c) < 2 THEN "insufficient"
       ELSE IF Latest(c).sum > Latest(c \ {Latest(c)}).sum
            THEN IF high THEN "rising on volume" ELSE "rising on thin volume"
            ELSE IF high THEN "rebound to confirm" ELSE "falling on thin volume"

\* compute_theme_pressure
ThemePressure(subs, rows) ==
    LET c == Composite(subs, rows)
    IN [date      |-> IF c = {} THEN None ELSE Latest(c).date,
        composite |-> IF c = {} THEN None ELSE Latest(c).sum,
        status    |-> Status(subs, c, rows),
        crossing  |-> Crossing(subs, c)]
=============================================================================
