--------------------------- MODULE DebateInvariant ---------------------------
(***************************************************************************)
(* The inductive invariant behind the theorems of DebateProofs.            *)
(***************************************************************************)
EXTENDS DebateRefinement

\* update_stage is called only while a mark is left.
StageInv ==
    \A w \in Workers : pc[w] \in {"check", "mark"} => stage[w] <= Len(Marks)

\* A worker that may still act on its copy has not read a cancellation; one
\* about to drop the job read a request that nobody had carried out.
CopyInv ==
    \A w \in Workers :
        /\ pc[w] \in ActsOnCopy => ~Canceling(seen[w])
        /\ pc[w] = "drop" => seen[w].status # "canceled"

\* A worker that is not idle holds a job in progress, and nobody else does.
HoldInv ==
    /\ \A w \in Workers : pc[w] # "idle" =>
          held[w] \in JobIds /\ jobs[held[w]].state = "doing"
    /\ \A v, w \in Workers :
          pc[v] # "idle" /\ pc[w] # "idle" /\ held[v] = held[w] => v = w

\* What the tables refer to was deferred, for that very debate.
RefInv ==
    /\ \A d \in Debates : rows[d].status # "absent" =>
          /\ rows[d].job \in JobIds
          /\ jobs[rows[d].job].debate = d
          /\ jobs[rows[d].job].state # "absent"
    /\ \A j \in JobIds : jobs[j].state # "absent" =>
          /\ jobs[j].debate \in Debates
          /\ rows[jobs[j].debate].status # "absent"
    /\ \A j \in cancels : jobs[j].state # "absent"
    /\ \A d \in Debates : rows[d].status = "absent" => ~rows[d].cancelReq

\* The job of a queued debate is on its way to its first commit: nobody is
\* about to cancel it, and whoever holds it read the row as queued.
QueuedInv ==
    \A d \in Debates : rows[d].status = "queued" =>
        /\ ~rows[d].cancelReq
        /\ rows[d].job \notin cancels
        /\ jobs[rows[d].job].state \in {"todo", "doing"}
        /\ \A w \in Workers :
              pc[w] # "idle" /\ held[w] = rows[d].job
                  => \/ pc[w] = "load"
                     \/ pc[w] = "claim" /\ seen[w].status = "queued"

\* With one worker: from the moment an execution has read its row as not
\* done until it has written its outcome, the row is not done.
DoneInv ==
    \A w \in Workers :
        pc[w] \in ActsOnCopy \cup {"drop", "stopping", "errorFresh"}
            => rows[Target(w)].status # "done"

DebateInv ==
    /\ TypeOK /\ StageInv /\ CopyInv /\ HoldInv /\ RefInv
    /\ OneActive /\ QueuedInv
=============================================================================
