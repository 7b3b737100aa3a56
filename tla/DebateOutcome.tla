---------------------------- MODULE DebateOutcome ----------------------------
(***************************************************************************)
(* What a user of the decisions API sees of a debate, and the only ways it *)
(* may change: by the user, or by an execution acting on what it last read *)
(* of the row.  Queue jobs, retries, stages, progress and the ORM are not  *)
(* visible here; DebateRefinement maps DebateLifecycle to this module.     *)
(***************************************************************************)
CONSTANTS Debates, Workers, NoDebate

VARIABLES
    outcome,     \* the status shown for each debate
    requested,   \* a cancel request stands
    on,          \* the debate each worker's execution is about
    know         \* what that execution will act on: nothing ("blank"), a row
                 \* read without a cancellation ("live") or with one ("stop"),
                 \* or, having failed, the row as it will find it ("careful")

vars == <<outcome, requested, on, know>>

Init ==
    /\ outcome = [d \in Debates |-> "absent"]
    /\ requested = [d \in Debates |-> FALSE]
    /\ on = [w \in Workers |-> NoDebate]
    /\ know = [w \in Workers |-> "blank"]

Withdrawn(d) == outcome[d] = "canceled" \/ requested[d]

Submit(d) ==
    /\ outcome[d] = "absent"
    /\ outcome' = [outcome EXCEPT ![d] = "queued"]
    /\ UNCHANGED <<requested, on, know>>

Resubmit(d) ==
    /\ outcome[d] = "failed"
    /\ outcome' = [outcome EXCEPT ![d] = "queued"]
    /\ requested' = [requested EXCEPT ![d] = FALSE]
    /\ UNCHANGED <<on, know>>

Cancel(d) ==
    /\ outcome[d] \in {"queued", "running", "canceled"}
    /\ outcome' = [outcome EXCEPT ![d] = "canceled"]
    /\ requested' = [requested EXCEPT ![d] = TRUE]
    /\ UNCHANGED <<on, know>>

Engage(w, d) ==
    /\ on[w] = NoDebate
    /\ on' = [on EXCEPT ![w] = d]
    /\ UNCHANGED <<outcome, requested, know>>

\* Reading the row is the only way to learn that it is still wanted.
Look(w) ==
    /\ on[w] # NoDebate
    /\ know[w] \in {"blank", "live"}
    /\ know' = [know EXCEPT ![w] = IF Withdrawn(on[w]) THEN "stop" ELSE "live"]
    /\ UNCHANGED <<outcome, requested, on>>

\* A live execution fails: it will look again, or leave the row alone.
Recoil(w) ==
    /\ know[w] = "live"
    /\ know' \in {[know EXCEPT ![w] = "careful"], [know EXCEPT ![w] = "blank"]}
    /\ UNCHANGED <<outcome, requested, on>>

Begin(w) ==
    /\ know[w] = "live"
    /\ outcome' = [outcome EXCEPT ![on[w]] = "running"]
    /\ UNCHANGED <<requested, on, know>>

\* The execution decides on what it last read, and is through with the row.
Decide(w, verdict) ==
    /\ outcome' = [outcome EXCEPT ![on[w]] = verdict]
    /\ know' = [know EXCEPT ![w] = "blank"]
    /\ UNCHANGED <<requested, on>>

FinishOrFail(w) ==
    /\ know[w] = "live"
    /\ \/ Decide(w, "done")
       \/ Decide(w, "failed")

Settle(w) ==
    /\ know[w] = "stop"
    /\ Decide(w, "canceled")

\* A failed execution that looks again under the lock before it decides.
GiveUp(w) ==
    /\ know[w] = "careful"
    /\ Decide(w, IF Withdrawn(on[w]) THEN "canceled" ELSE "failed")

Leave(w) ==
    /\ on' = [on EXCEPT ![w] = NoDebate]
    /\ know' = [know EXCEPT ![w] = "blank"]
    /\ UNCHANGED <<outcome, requested>>

Next ==
    \/ \E d \in Debates : Submit(d) \/ Resubmit(d) \/ Cancel(d)
    \/ \E w \in Workers, d \in Debates : Engage(w, d)
    \/ \E w \in Workers : \/ Look(w) \/ Recoil(w) \/ Begin(w)
                          \/ FinishOrFail(w) \/ Settle(w) \/ GiveUp(w)
                          \/ Leave(w)

Spec == Init /\ [][Next]_vars
=============================================================================
