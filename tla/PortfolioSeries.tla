-------------------------- MODULE PortfolioSeries --------------------------
(***************************************************************************)
(* The curve of a portfolio (services/portfolio_history.py): a pure        *)
(* function of today's holdings and their daily rows, sets of [date,       *)
(* close].  A holding is [inst, secid, shares, cost]; cost 0 is unknown.   *)
(***************************************************************************)
EXTENDS Integers, FiniteSets, FiniteSetsExt, Functions

CONSTANT NoPrice

\* The rows of a secid that have a usable close.
Closes(rows) == {b \in rows : b.close # NoPrice /\ b.close > 0}

\* "last": the close of the day or of the last one before it.
LastCloseMutant(closes, d) == LET on == {b \in closes : b.date = d}
                              IN IF on = {} THEN 0 ELSE (CHOOSE b \in on : TRUE).close
LastClose(closes, d) == (CHOOSE b \in closes : /\ b.date <= d
                            /\ \A c \in closes : c.date <= d => c.date <= b.date).close

\* build_portfolio_series: a holding counts from the first day it has a
\* close of, and the cost it is compared with counts from there too.
BuildSeries(holdings, rows) ==
    LET closes(h)  == Closes(rows[h.secid])
        dates      == {b.date : b \in UNION {closes(h) : h \in holdings}}
        started(d) == {h \in holdings : \E b \in closes(h) : b.date <= d}
        costed(d)  == {h \in started(d) : h.cost > 0}
        value(h, d) == h.shares * LastClose(closes(h), d)
        cost(h)    == h.shares * h.cost
    IN {[date |-> d,
         marketValue  |-> SumFunction([h \in started(d) |-> value(h, d)]),
         pnl          |-> SumFunction([h \in costed(d) |-> value(h, d) - cost(h)]),
         totalCost    |-> SumFunction([h \in costed(d) |-> cost(h)]),
         coveredCount |-> Cardinality(started(d))] : d \in dates}

\* get_portfolio_history: the holdings that have rows, their curve from the
\* cutoff on, and how much of the portfolio it covers.
PortfolioHistory(held, rows, cutoff) ==
    LET covered == {h \in held : h.secid \in DOMAIN rows /\ rows[h.secid] # {}}
        series  == BuildSeries(covered, rows)
        full    == {p.date : p \in {q \in series : q.coveredCount >= Cardinality(covered)}}
    IN [series  |-> {p \in series : p.date >= cutoff},
        asOf    |-> IF series = {} THEN 0 ELSE Max({p.date : p \in series}),
        fullCoverageSince |-> IF full = {} THEN 0 ELSE Min(full),
        covered |-> covered,
        coveredCost |-> SumFunction([h \in covered |-> h.shares * h.cost])]
=============================================================================
