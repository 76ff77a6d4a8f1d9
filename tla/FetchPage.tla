------------------------------ MODULE FetchPage ------------------------------
(***************************************************************************)
(* fetchPageIssues of internal/service/sync/sync.go: one pool per page, a  *)
(* producer that submits the page and stops the pool when it returns, and  *)
(* a collector that ranges over the results, joined by an errgroup.        *)
(*                                                                         *)
(* The pool's context is the job's context (runDone); Submit gets the      *)
(* errgroup's context (submitDone), which ends with the job's context or   *)
(* when a member of the group returns an error.                            *)
(***************************************************************************)
EXTENDS WorkerPool, PageFetch

VARIABLES
  producer,   \* loop over pageIssues, deferred Stop, returned
  submitErr,  \* what the producer returns
  collector,  \* range over resultCh, returned
  collected,  \* the issues the collector has appended
  result      \* what fetchPageIssues returns: pending, nil or err

vars == <<poolVars, producer, submitErr, collector, collected, result>>
local == <<producer, submitErr, collector, collected, result>>

Init == /\ NewAndRun
        /\ producer = "loop" /\ submitErr = "nil"
        /\ collector = "range" /\ collected = {}
        /\ result = "pending"

(* The producer submits one issue at a time and leaves at the first error. *)
AllAccepted == \A t \in Tasks : submit[t] \in {"idle", "nil"}

ProducerSubmit(t) ==
  /\ producer = "loop"
  /\ AllAccepted
  /\ SubmitCheck(t)
  /\ UNCHANGED local

ProducerSubmitReturns(t) == Submit(t) /\ UNCHANGED local

ProducerLeaves ==
  /\ producer = "loop"
  /\ \/ (\A t \in Tasks : submit[t] = "nil") /\ submitErr' = "nil"
     \/ (\E t \in Tasks : submit[t] \in Rejections) /\ submitErr' = "err"
  /\ producer' = "stop"
  /\ UNCHANGED <<poolVars, collector, collected, result>>

(* Variant: Stop may run while the producer still submits.                 *)
ProducerStopsAnyTime ==
  /\ StopStore \/ StopClose
  /\ UNCHANGED local

(* defer pool.Stop()                                                       *)
ProducerStops ==
  /\ producer = "stop"
  /\ StopStore \/ StopClose
  /\ UNCHANGED local

ProducerReturns ==
  /\ producer = "stop"
  /\ once = "done"
  /\ producer' = "returned"
  /\ submitDone' = (submitDone \/ submitErr = "err")
  /\ UNCHANGED <<CtxVars, runDone, submitErr, collector, collected, result>>

(* The collector: a result with an error is skipped, the others appended.  *)
(* Process returns nothing but processedIssue values, so the branch for a  *)
(* result of another type is dead.                                         *)
CollectorReceives(t) ==
  /\ collector = "range"
  /\ Receive(t)
  /\ collected' = IF outcome[t] = "ok" THEN collected \cup {t} ELSE collected
  /\ UNCHANGED <<producer, submitErr, collector, result>>

(* Variant: the collector leaves when the pool is stopped and no result is *)
(* waiting.                                                                *)
CollectorLeavesEarly ==
  /\ collector = "range"
  /\ stopped /\ resultCh = {}
  /\ collector' = "returned"
  /\ UNCHANGED <<poolVars, producer, submitErr, collected, result>>

CollectorReturns ==
  /\ collector = "range"
  /\ resultClosed /\ resultCh = {}
  /\ collector' = "returned"
  /\ UNCHANGED <<poolVars, producer, submitErr, collected, result>>

(* Variant: only the producer is waited for.                               *)
WaitProducer ==
  /\ producer = "returned"
  /\ result = "pending"
  /\ result' = submitErr
  /\ UNCHANGED <<poolVars, producer, submitErr, collector, collected>>

(* group.Wait                                                              *)
Wait ==
  /\ producer = "returned" /\ collector = "returned"
  /\ result = "pending"
  /\ result' = submitErr
  /\ UNCHANGED <<poolVars, producer, submitErr, collector, collected>>

Pool == /\ \/ \E w \in Workers : Worker(w)
           \/ Watcher
        /\ UNCHANGED local

(* The job's context ends (syncTimeout); the errgroup's follows.           *)
JobCtxDone   == CancelRun /\ UNCHANGED local
GroupCtxDone == runDone /\ CancelSubmit /\ UNCHANGED local

Terminated == result # "pending" /\ UNCHANGED vars

Group == \/ \E t \in Tasks : \/ ProducerSubmit(t) \/ ProducerSubmitReturns(t)
                             \/ CollectorReceives(t)
         \/ ProducerLeaves \/ ProducerStops \/ ProducerReturns
         \/ CollectorReturns \/ Wait

Next == Group \/ Pool \/ JobCtxDone \/ GroupCtxDone \/ Terminated

(* As for the pool; the timeout itself is not obliged to fire.             *)
Fairness ==
  /\ WF_vars(Group)
  /\ \A w \in Workers : WF_vars(Worker(w) /\ UNCHANGED local)
  /\ WF_vars(Watcher /\ UNCHANGED local)
  /\ WF_vars(GroupCtxDone)

Spec == Init /\ [][Next]_vars /\ Fairness

-----------------------------------------------------------------------------
(* What processPage commits is the whole page but for the issues whose own *)
(* fetch failed; issues are missing for another reason, and an error is    *)
(* returned, only when the job's context is done.                          *)
FetchContract ==
  result # "pending" =>
    [err |-> result, issues |-> IF result = "nil" THEN collected ELSE {}]
      \in PageResults(Tasks, {t \in Tasks : outcome[t] = "err"}, runDone)

(* When fetchPageIssues returns, no worker and no watcher of its pool is   *)
(* left behind: a job of many pages does not pile up goroutines.           *)
NoGoroutineLeft ==
  result # "pending" => WorkersGone /\ watcher = "exited" /\ once = "done"

(* The producer is the only one to stop the pool, and does so after its    *)
(* last Submit: the recovered panic of Submit cannot happen here.          *)
NoSubmitPanic ==
  \A t \in Tasks : /\ submit[t] # "errSubmitPanic"
                   /\ submit[t] = "select" => ~taskClosed

(* fetchPageIssues always returns, with or without a timeout, also when    *)
(* the page is longer than both queues together.                           *)
FetchReturns == <>(result # "pending")
=============================================================================
