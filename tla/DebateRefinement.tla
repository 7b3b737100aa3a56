-------------------------- MODULE DebateRefinement --------------------------
(***************************************************************************)
(* DebateLifecycle implements DebateOutcome.  An execution "knows" what    *)
(* its ORM copy says while it may still act on it.                         *)
(***************************************************************************)
EXTENDS DebateLifecycle

\* Program points at which the next write depends on the copy.
ActsOnCopy == {"claim", "check", "mark", "save", "errorStale"}

Knowledge(w) ==
    IF pc[w] \in {"drop", "stopping"} THEN "stop"
    ELSE IF pc[w] \in ActsOnCopy THEN "live"
    ELSE IF pc[w] = "errorFresh" THEN "careful"
    ELSE "blank"

Outcome == INSTANCE DebateOutcome WITH
    outcome   <- [d \in Debates |-> rows[d].status],
    requested <- [d \in Debates |-> rows[d].cancelReq],
    on        <- [w \in Workers |-> IF pc[w] = "idle" THEN NoDebate
                                    ELSE Target(w)],
    know      <- [w \in Workers |-> Knowledge(w)]

\* Every step of the tables, the queue and the workers is, for the user, a
\* step DebateOutcome allows or no step: a status is changed only by the
\* user or by an execution on the strength of what it last read.
ImplementsOutcome == Outcome!Spec
=============================================================================
