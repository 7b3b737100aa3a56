----------------------------- MODULE DebateGraph -----------------------------
(***************************************************************************)
(* The content of a debate: how the attempts of one debate                 *)
(* (services/debate_runner.py) run the LangGraph workflow of               *)
(* agents/decision/graph.py over one checkpoint thread, while the user     *)
(* changes which models play the roles.                                    *)
(*                                                                         *)
(* When an attempt is delivered, cancelled or retried is the business of   *)
(* DebateLifecycle; here an attempt may fail or stop at every place where  *)
(* the code raises, and a failed debate may be attempted again.  LangGraph *)
(* is not in the repository: a turn starts from an input and keeps the     *)
(* channels of earlier turns; a turn that is continued runs only the nodes *)
(* that have not succeeded.                                                *)
(***************************************************************************)
EXTENDS Integers, FiniteSets

CONSTANTS
    Assignments,  \* what RoleChatRouter.snapshot() may return, for all roles
    None,         \* no assignments; as a routing: some role has no model
    MaxAttempts   \* bound: attempts of the debate

ASSUME GraphAssumption ==
    /\ None \notin Assignments
    /\ MaxAttempts \in Nat

VARIABLES
    routing,   \* what the user's routes and profiles resolve to now
    debate,    \* the row: status, attempt, model_assignments, report
    thread,    \* the checkpoint of graph_thread_id
    attempt,   \* the locals of execute_debate and run_debate_graph
    lost       \* history: after the thread's turn began, an attempt committed
               \* other assignments and failed before it entered the graph

graphVars == <<routing, debate, thread, attempt, lost>>

-----------------------------------------------------------------------------
Analysts == {"technical", "fundamental", "macro", "sentiment"}
Nodes == Analysts \cup {"validate", "opening", "rebuttal", "judge", "risk",
                        "persist"}
Roles == Nodes \ {"validate", "persist"}      \* the nodes that ask a model

EdgesMutant ==                 \* mutant: the judge does not wait for rebuttal
    ({"validate"} \X Analysts) \cup (Analysts \X {"opening"})
        \cup {<<"opening", "rebuttal">>, <<"opening", "judge">>,
              <<"judge", "risk">>, <<"risk", "persist">>}

Edges ==
    ({"validate"} \X Analysts) \cup (Analysts \X {"opening"})
        \cup {<<"opening", "rebuttal">>, <<"rebuttal", "judge">>,
              <<"judge", "risk">>, <<"risk", "persist">>}

\* A node runs when every node with an edge to it has succeeded.
Before(n) == {m \in Nodes : <<m, n>> \in Edges}

Maybe    == Assignments \cup {None}
Attempts == 0 .. MaxAttempts    \* also names the evidence an attempt collects

\* What a node left in the channels: the turn it ran in, the models that
\* played its roles, the evidence it saw.
View     == [turn: Attempts, by: Maybe, evidence: Attempts]
NoView   == [turn |-> 0, by |-> None, evidence |-> 0]
Content  == [assign: Maybe, evidence: Attempts, views: [Nodes -> View]]
NoReport == [assign |-> None, evidence |-> 0, views |-> [n \in Nodes |-> NoView]]

Debate == [status: {"queued", "running", "failed", "canceled", "done"},
           attempt: Attempts, assign: Maybe, report: Content]
Thread == [turn: Attempts, input: Content, done: SUBSET Nodes]
AttemptFrame ==
          [at: {"idle", "claimed", "routed", "collected", "graph"},
           before: Maybe, router: Maybe, resume: BOOLEAN, evidence: Attempts]
Idle   == [at |-> "idle", before |-> None, router |-> None, resume |-> FALSE,
           evidence |-> 0]

GraphTyped ==
    /\ routing \in Maybe
    /\ debate \in Debate
    /\ thread \in Thread
    /\ attempt \in AttemptFrame
    /\ lost \in BOOLEAN

GraphInit ==
    /\ routing \in Assignments
    /\ debate = [status |-> "queued", attempt |-> 0, assign |-> None,
                 report |-> NoReport]
    /\ thread = [turn |-> 0, input |-> NoReport, done |-> {}]
    /\ attempt = Idle
    /\ lost = FALSE

-----------------------------------------------------------------------------
\* The user edits routes or profiles, at any time.
ChangeRouting ==
    /\ routing' \in Maybe \ {routing}
    /\ UNCHANGED <<debate, thread, attempt, lost>>

ClaimAttempt ==
    /\ attempt.at = "idle"
    /\ debate.status \in {"queued", "failed"}
    /\ debate.attempt < MaxAttempts
    /\ attempt' = [Idle EXCEPT !.at = "claimed",
                      !.before = IF debate.attempt > 0 THEN debate.assign
                                 ELSE None]
    /\ debate' = [debate EXCEPT !.status = "running", !.attempt = @ + 1]
    /\ UNCHANGED <<routing, thread, lost>>

ResumableMutant(before, now) == before # None      \* mutant: not compared
ResumableTwiceMutant(before, now) ==     \* mutant: off by one, third attempt
    before # None /\ before = now /\ debate.attempt > 2

Resumable(before, now) == before # None /\ before = now

\* The router is frozen and its snapshot committed to the row.
Route ==
    /\ attempt.at = "claimed"
    /\ routing # None
    /\ debate' = [debate EXCEPT !.assign = routing]
    /\ attempt' = [attempt EXCEPT !.at = "routed", !.router = routing,
                      !.resume = Resumable(attempt.before, routing)]
    /\ UNCHANGED <<routing, thread, lost>>

Collect ==
    /\ attempt.at = "routed"
    /\ attempt' = [attempt EXCEPT !.at = "collected",
                                  !.evidence = debate.attempt]
    /\ UNCHANGED <<routing, debate, thread, lost>>

InGraph == attempt' = [attempt EXCEPT !.at = "graph"]

\* A turn with input of its own; the views of earlier turns stay in place.
FreshTurn ==
    /\ attempt.at = "collected"
    /\ ~(attempt.resume /\ thread.turn # 0)
    /\ thread' = [turn |-> thread.turn + 1, done |-> {},
                  input |-> [assign |-> debate.assign,
                             evidence |-> attempt.evidence,
                             views |-> thread.input.views]]
    /\ lost' = FALSE
    /\ InGraph
    /\ UNCHANGED <<routing, debate>>

Continue ==
    /\ attempt.at = "collected"
    /\ attempt.resume /\ thread.turn # 0
    /\ InGraph
    /\ UNCHANGED <<routing, debate, thread, lost>>

\* A node succeeds, which the checkpointer records.
RunNode(n) ==
    /\ attempt.at = "graph"
    /\ n \notin thread.done
    /\ Before(n) \subseteq thread.done
    /\ thread' = [thread EXCEPT
          !.done = @ \cup {n},
          !.input.views[n] = [turn |-> thread.turn, by |-> attempt.router,
                              evidence |-> thread.input.evidence]]
    /\ UNCHANGED <<routing, debate, attempt, lost>>

SaveReport ==
    /\ attempt.at = "graph"
    /\ "persist" \in thread.done
    /\ debate' = [debate EXCEPT !.status = "done", !.report = thread.input]
    /\ attempt' = Idle
    /\ UNCHANGED <<routing, thread, lost>>

\* A role without a model, evidence, checkpointer, a node, or the last commit.
Fail ==
    /\ attempt.at # "idle"
    /\ debate' = [debate EXCEPT !.status = "failed"]
    /\ attempt' = Idle
    /\ lost' = (lost \/ (attempt.at \in {"routed", "collected"}
                         /\ attempt.router # thread.input.assign))
    /\ UNCHANGED <<routing, thread>>

\* update_stage, or the last transaction, finds a cancel request.
StopAttempt ==
    /\ attempt.at \in {"routed", "graph"}
    /\ debate' = [debate EXCEPT !.status = "canceled"]
    /\ attempt' = Idle
    /\ UNCHANGED <<routing, thread, lost>>

GraphNext ==
    \/ ChangeRouting
    \/ ClaimAttempt \/ Route \/ Collect \/ FreshTurn \/ Continue
    \/ \E n \in Nodes : RunNode(n)
    \/ SaveReport \/ Fail \/ StopAttempt

GraphSpec == GraphInit /\ [][GraphNext]_graphVars

-----------------------------------------------------------------------------
(* What the report promises.                                               *)

\* Nothing of an earlier turn survives in a report, although its channels are
\* never cleared and every attempt may stop between any two nodes: each part
\* was made in the turn the report closes.
ReportOfOneTurn ==
    debate.status = "done" =>
        \A n \in Nodes : debate.report.views[n].turn = thread.turn

\* The evidence snapshot a report shows is the one its analysts read, not the
\* newer one a continued attempt collected.
EvidenceMatchesReport ==
    debate.status = "done" =>
        \A a \in Analysts :
            debate.report.views[a].evidence = debate.report.evidence

\* A report is of one turn and of the evidence beside it.
ReportIsWhole == ReportOfOneTurn /\ EvidenceMatchesReport

\* However often routes change between and during attempts, a report mixes
\* models only if an attempt was lost between its commit of model_assignments
\* and the graph.
OldTurnOnlyAfterLostTurn ==
    debate.status = "done" /\ ~lost =>
        \A n \in Roles : debate.report.views[n].by = debate.report.assign

\* Roles that have answered are asked again only for other models (or after
\* a lost attempt): the same models continue the turn, whatever failed.
WorkIsKept ==
    [][thread'.turn # thread.turn /\ thread.turn # 0 =>
          lost \/ attempt.router # thread.input.assign]_graphVars

\* The comment at debate_runner.py:109: changed models get a turn of their
\* own, so that old analyses and new models are not one debate.
ReportOfOneAssignment ==
    debate.status = "done" =>
        \A n \in Roles : debate.report.views[n].by = debate.report.assign
=============================================================================
