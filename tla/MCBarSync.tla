----------------------------- MODULE MCBarSync -----------------------------
(***************************************************************************)
(* Instances of BarSync: the API's event loop and a task of the worker,    *)
(* two themes over three secids, a portfolio of three holdings (two of the *)
(* themes' secids, one a fund listed as a stock) and a foreign stock.      *)
(***************************************************************************)
EXTENDS BarSync

CONSTANTS api, worker

MCJobs == {api, worker}
MCLoopOf == [j \in MCJobs |-> j]
MCKindsOf == (api :> {"pressure", "portfolio"}) @@ (worker :> {"pressure", "portfolio", "evidence"})

\* Two requests of the superadmin in the API's one loop.
OneLoop == [j \in MCJobs |-> api]
Requests == [j \in MCJobs |-> {"pressure", "portfolio"}]

MCSecids == {"S1", "S2", "S3", "X3", "OF3", "OF1"}
MCOrder == <<"S1", "S2", "S3">>
MCThemes == {"a", "us"}
MCSubs == [t \in MCThemes |->
    IF t = "a" THEN <<[kind |-> "volumeRatio", a |-> "S1"], [kind |-> "underperformance", a |-> "S1", b |-> "S2"]>>
    ELSE <<[kind |-> "volumeRatio", a |-> "S3"], [kind |-> "spread", a |-> "S3", b |-> "S2"]>>]

MCInsts == {"i1", "i2", "i3", "i4"}
MCInst == [i \in MCInsts |->
    CASE i = "i1" -> [isFund |-> FALSE, foreign |-> FALSE, sixDigits |-> TRUE, ref |-> None, byCode |-> "S1", of |-> "OF1"]
      [] i = "i2" -> [isFund |-> FALSE, foreign |-> FALSE, sixDigits |-> TRUE, ref |-> "S2", byCode |-> None, of |-> "OF1"]
      [] i = "i3" -> [isFund |-> FALSE, foreign |-> FALSE, sixDigits |-> TRUE, ref |-> None, byCode |-> "X3", of |-> "OF3"]
      [] i = "i4" -> [isFund |-> FALSE, foreign |-> TRUE, sixDigits |-> FALSE, ref |-> None, byCode |-> None, of |-> None]]
MCHeld == {[inst |-> "i1", shares |-> 2, cost |-> 3], [inst |-> "i2", shares |-> 1, cost |-> 0],
            [inst |-> "i3", shares |-> 3, cost |-> 1]}

Bar(d, c, v) == [date |-> d, close |-> c, volume |-> v]
Fund == {Bar(1, 4, None), Bar(3, 5, None)}
Rising == [s \in MCSecids |->
    CASE s = "S1" -> {Bar(1, 4, 4), Bar(2, 4, 8), Bar(3, 4, 4), Bar(4, 3, 9)}
      [] s = "S2" -> {Bar(1, 2, 1), Bar(2, 3, 1), Bar(3, 3, 1), Bar(4, 4, 1)}
      [] s = "S3" -> {Bar(1, 5, 2), Bar(2, 6, 3), Bar(3, 7, 2), Bar(4, 5, 4)}
      [] s = "OF3" -> Fund [] OTHER -> {}]
Level == [s \in MCSecids |->
    CASE s = "S1" -> {Bar(1, 4, 4), Bar(2, 4, 8), Bar(3, 2, 4), Bar(4, 2, 9)}
      [] s = "S2" -> {Bar(1, 2, 1), Bar(2, 3, 1), Bar(3, 3, 1)}
      [] s = "S3" -> {Bar(1, 5, 2), Bar(2, 6, None), Bar(4, 8, 4)}
      [] s \in {"X3", "OF3"} -> Fund [] OTHER -> {}]
MCMarkets == [m \in {"rising", "level"} |-> IF m = "rising" THEN Rising ELSE Level]
=============================================================================
