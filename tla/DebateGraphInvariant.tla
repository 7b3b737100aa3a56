------------------------- MODULE DebateGraphInvariant -------------------------
(***************************************************************************)
(* The inductive invariant behind the theorems of DebateProofs.            *)
(***************************************************************************)
EXTENDS DebateGraph

\* A turn number is used once, by an attempt of the debate.
TurnInv ==
    /\ thread.turn <= debate.attempt
    /\ attempt.at \in {"claimed", "routed", "collected"} =>
          thread.turn < debate.attempt
    /\ thread.turn # 0 => thread.input.assign # None

\* What succeeded in the turn was done in it, after what it waits for, and
\* on its evidence.
NodesInv ==
    \A n \in thread.done :
        /\ Before(n) \subseteq thread.done
        /\ thread.input.views[n].turn = thread.turn
        /\ thread.input.views[n].evidence = thread.input.evidence

\* While no attempt was lost the turn is played by the models of its input.
ModelsInv ==
    \/ lost
    \/ \A n \in thread.done : thread.input.views[n].by = thread.input.assign

\* How the row's assignments and the locals of the attempt relate to the turn.
AssignInv ==
    /\ attempt.at \in {"idle", "claimed"} /\ debate.status # "canceled" =>
          lost \/ thread.turn = 0 \/ debate.assign = thread.input.assign
    /\ attempt.at = "claimed" =>
          thread.turn = 0 \/ attempt.before = debate.assign
    /\ attempt.at \in {"routed", "collected"} =>
          /\ attempt.router = debate.assign
          /\ attempt.router # None
          /\ lost \/ thread.turn = 0
                  \/ (attempt.resume <=> attempt.router = thread.input.assign)
    /\ attempt.at = "graph" =>
          /\ thread.turn # 0
          /\ lost \/ (/\ attempt.router = thread.input.assign
                      /\ debate.assign = thread.input.assign)

\* A report is the content of a finished turn, which nothing touches again.
ReportInv ==
    /\ debate.status = "done" =>
          /\ debate.report = thread.input
          /\ "persist" \in thread.done
    /\ attempt.at # "idle" => debate.status = "running"

GraphInv ==
    GraphTyped /\ TurnInv /\ NodesInv /\ ModelsInv /\ AssignInv /\ ReportInv
=============================================================================
