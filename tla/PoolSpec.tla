------------------------------ MODULE PoolSpec -------------------------------
(***************************************************************************)
(* The worker pool under arbitrary callers: every task may be submitted by *)
(* a goroutine of its own, Stop and both cancellations may come at any     *)
(* time.  The one thing asked of callers is what Run's comment asks: they  *)
(* drain the result channel to completion.                                 *)
(***************************************************************************)
EXTENDS WorkerPool

vars == poolVars

Init == NewAndRun

(* Nothing is left to do; a pool that halts anywhere else is deadlocked.   *)
Terminated ==
  /\ once = "done" /\ resultClosed /\ resultCh = {}
  /\ \A t \in Tasks : submit[t] \notin {"idle", "select"}
  /\ UNCHANGED vars

Next ==
  \/ \E t \in Tasks : SubmitCheck(t) \/ Submit(t) \/ Receive(t)
  \/ Stop
  \/ \E w \in Workers : Worker(w)
  \/ Watcher
  \/ CancelRun \/ CancelSubmit
  \/ Terminated

(* Goroutines that can run do run, Process returns (the fetcher's HTTP     *)
(* calls carry the context and a client timeout), the consumer drains.     *)
(* Nobody is obliged to submit, to stop or to cancel.                      *)
Fairness ==
  /\ \A t \in Tasks : WF_vars(Submit(t))
  /\ \A w \in Workers : WF_vars(Worker(w))
  /\ WF_vars(StopClose) /\ WF_vars(Watcher) /\ WF_vars(\E t \in Tasks : Receive(t))

Safety == Init /\ [][Next]_vars
Spec == Safety /\ Fairness

-----------------------------------------------------------------------------
(* A pool that is stopped or cancelled closes its result channel, so the   *)
(* consumer's range loop ends: no worker is stuck on a full result channel *)
(* and none waits on a task channel nobody closes.                         *)
ResultsGetClosed == (once # "new" \/ runDone) ~> resultClosed

(* A Submit that waits for room returns once the pool is stopped, even if  *)
(* every worker has left and its own context never ends.                   *)
SubmitReturns ==
  \A t \in Tasks :
    (submit[t] = "select" /\ once # "new") ~> (submit[t] # "select")

-----------------------------------------------------------------------------
(* What became of a task, as the ledger sees it.  Tasks left in the task   *)
(* channel are lost with the last worker.                                  *)
Fate(t) ==
  CASE submit[t] \in {"idle", "select"} -> "new"
    [] submit[t] \in Rejections -> "rejected"
    [] submit[t] = "nil" /\ (t \in resultCh \/ received[t] > 0) -> "done"
    [] submit[t] = "nil" /\ \/ t \in taskCh /\ ~WorkersGone
                            \/ HeldBy(t) # {} -> "accepted"
    [] OTHER -> "lost"

Ledger == INSTANCE TaskLedger WITH
  fate <- [t \in Tasks |-> Fate(t)],
  cancelled <- runDone,
  finished <- resultClosed

(* The pool implements the ledger: a task is answered once, processed      *)
(* once, lost only by cancellation, and closing the result channel settles *)
(* every task.                                                             *)
ImplementsTaskLedger == Ledger!Spec
=============================================================================
