----------------------------- MODULE TaskLedger ------------------------------
(***************************************************************************)
(* What the worker pool promises about each task, without workers or       *)
(* channels: a task is rejected, or accepted and then brought to a result  *)
(* once.  Only cancelling the pool loses accepted tasks, and when the pool *)
(* says it is finished no accepted task is left open.                      *)
(***************************************************************************)
CONSTANT Tasks

VARIABLES
  fate,       \* what became of each task
  cancelled,  \* the pool's context is cancelled
  finished    \* the result channel is closed

vars == <<fate, cancelled, finished>>

With(f) == {t \in Tasks : fate[t] = f}

Init == /\ fate = [t \in Tasks |-> "new"]
        /\ cancelled = FALSE
        /\ finished = FALSE

Answer(t, f) == /\ fate[t] = "new"
                /\ fate' = [fate EXCEPT ![t] = f]
                /\ UNCHANGED <<cancelled, finished>>

Reject(t) == Answer(t, "rejected")

Accept(t) == ~finished /\ Answer(t, "accepted")

(* A task accepted by a pool whose workers have left after a cancellation. *)
AcceptInVain(t) == cancelled /\ Answer(t, "lost")

Process(t) == /\ fate[t] = "accepted"
              /\ ~finished
              /\ fate' = [fate EXCEPT ![t] = "done"]
              /\ UNCHANGED <<cancelled, finished>>

Lose == /\ cancelled
        /\ \E S \in SUBSET With("accepted") :
             fate' = [t \in Tasks |-> IF t \in S THEN "lost" ELSE fate[t]]
        /\ UNCHANGED <<cancelled, finished>>

Cancel == cancelled' = TRUE /\ UNCHANGED <<fate, finished>>

Finish == /\ With("accepted") = {}
          /\ finished' = TRUE
          /\ UNCHANGED <<fate, cancelled>>

Next == \/ \E t \in Tasks : \/ Reject(t) \/ Accept(t) \/ AcceptInVain(t)
                            \/ Process(t)
        \/ Lose \/ Cancel \/ Finish

Spec == Init /\ [][Next]_vars
=============================================================================
