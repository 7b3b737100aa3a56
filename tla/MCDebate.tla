------------------------------ MODULE MCDebate ------------------------------
(***************************************************************************)
(* DebateLifecycle for TLC: two debates of one owner on one instrument.    *)
(***************************************************************************)
EXTENDS DebateInvariant

CONSTANTS d1, d2

MCDebates == {d1, d2}
MCSubject == [d \in MCDebates |-> "owner/instrument"]
MCMarks   == <<20, 99>>      \* evidence collected, ..., result being saved
=============================================================================
