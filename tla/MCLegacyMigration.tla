---------------------------- MODULE MCLegacyMigration ----------------------------
(* Instances of LegacyMigration for TLC.  An ETF and a fund have the same    *)
(* symbol; the second snapshot corrects the identity of the first and has a  *)
(* second position with the same numbers.                                    *)
EXTENDS LegacyMigration, TLC

CONSTANTS etf, fund, stock, p1, p2, n1, t1, t2, u1, r1

MCSymbol == (etf :> "159995") @@ (fund :> "159995") @@ (stock :> "600519")

Row(i)           == [inst |-> i]
Lot(id, i, a)    == [id |-> id, inst |-> i, amount |-> a]
Job(id, name, d) == [id |-> id, name |-> name, def |-> d]

MCSource ==
    [early |-> [stocks |-> <<Row(etf)>>,
                positions |-> <<Lot(p1, etf, 1)>>,
                reports |-> {r1},
                tasks |-> <<Job(t1, "daily", "old")>>],
     late  |-> [stocks |-> <<Row(fund), Row(stock), Row(Unresolved)>>,
                positions |-> <<Lot(p1, fund, 1), Lot(p2, fund, 1)>>,
                reports |-> {r1},
                tasks |-> <<Job(t1, "daily", "old"), Job(t2, "daily", "old")>>],
     grown |-> [stocks |-> <<Row(etf)>>,
                positions |-> <<Lot(p1, etf, 2)>>,
                reports |-> {r1},
                tasks |-> <<Job(t1, "daily", "old")>>],
     twins |-> [stocks |-> <<Row(etf), Row(fund)>>,
                positions |-> <<Lot(p1, etf, 1), Lot(p2, fund, 1)>>,
                reports |-> {r1},
                tasks |-> <<Job(t1, "daily", "old")>>]]
=============================================================================
