---------------------------- MODULE MCReportStore ----------------------------
(* An instance of ReportStore for TLC: one instrument, named by one of the  *)
(* two texts, so that overwriting a report makes and removes its link.      *)
EXTENDS ReportStore, TLC

CONSTANTS t1, t2, i1

MCTexts    == {t1, t2}
MCMentions == (t1 :> {i1}) @@ (t2 :> {})
MCClaims   == {{}, {"origin", "title"}}
Symmetry  == Permutations(Requests) \cup Permutations(Ids)
=============================================================================
