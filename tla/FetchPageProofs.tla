--------------------------- MODULE FetchPageProofs ---------------------------
(***************************************************************************)
(* fetchPageIssues keeps its promise for pages of any length, any number   *)
(* of workers and any queue size.                                          *)
(*                                                                         *)
(* The contract speaks of the moment of the return only.  It follows from  *)
(* what the two goroutines know on the way: the producer has at most one   *)
(* Submit under way and alone stops the pool, so the pool can turn a       *)
(* Submit down only when the job's context is done; and the collector has  *)
(* kept exactly the results it received without an error.                  *)
(***************************************************************************)
EXTENDS FetchPage, PoolLemmas

(* The producer: one Submit at a time, Stop after the last, and no error   *)
(* but for the end of the job's context.                                   *)
ProducerInv ==
  /\ producer \in {"loop", "stop", "returned"} /\ submitErr \in {"nil", "err"}
  /\ \A s, t \in Tasks :
       submit[s] \notin {"idle", "nil"} /\ submit[t] \notin {"idle", "nil"} => s = t
  /\ producer = "loop" => once = "new" /\ submitErr = "nil"
  /\ producer # "loop" => \A t \in Tasks : submit[t] # "select"
  /\ producer # "loop" /\ submitErr = "nil" => \A t \in Tasks : submit[t] = "nil"
  /\ producer = "returned" => once = "done"

(* Whatever went wrong on the way to the pool, the job's context is done.  *)
CauseInv ==
  /\ \A t \in Tasks : submit[t] # "errSubmitPanic"
  /\ \A t \in Tasks : submit[t] \in Rejections => runDone
  /\ submitErr = "err" \/ submitDone => runDone

(* The collector: nothing but what it received, and all of it.             *)
CollectorInv ==
  /\ collector \in {"range", "returned"}
  /\ collector = "returned" => resultClosed /\ resultCh = {}
  /\ collected = {t \in Tasks : received[t] # 0 /\ outcome[t] = "ok"}

(* group.Wait returns what the producer returned, after both.              *)
WaitInv ==
  result # "pending" => /\ producer = "returned" /\ collector = "returned"
                        /\ result = submitErr

FetchInv == PoolInv /\ ProducerInv /\ CauseInv /\ CollectorInv /\ WaitInv

-----------------------------------------------------------------------------
USE PoolAssumption

(* A page fetch starts with a fresh pool and nothing collected.            *)
LEMMA InitFetchInv == Init => FetchInv
<1> SUFFICES ASSUME Init PROVE FetchInv
  OBVIOUS
<1>1. PoolInv
  BY NewAndRunPoolInv DEF Init
<1>2. ProducerInv /\ CauseInv /\ CollectorInv /\ WaitInv
  BY DEF Init, NewAndRun, ProducerInv, CauseInv, CollectorInv, WaitInv, Rejections
<1> QED
  BY <1>1, <1>2 DEF FetchInv

(* A Submit finds the flag set only when the pool's workers have left, and *)
(* they leave an open channel only when the job's context is done.         *)
LEMMA ProducerSubmitFetchInv ==
  ASSUME FetchInv, NEW t \in Tasks, ProducerSubmit(t)
  PROVE  FetchInv'
<1>1. /\ producer = "loop" /\ AllAccepted /\ SubmitCheck(t) /\ UNCHANGED local
      /\ UNCHANGED <<SubmitVars, taskCh>>
  BY DEF ProducerSubmit, SubmitCheck
<1>2. /\ submit[t] = "idle" /\ submit'[t] \in {"select", "errPoolStopped"}
      /\ submit'[t] = "errPoolStopped" => stopped
      /\ \A s \in Tasks \ {t} : submit'[s] = submit[s]
  BY <1>1 DEF FetchInv, PoolInv, TypeOK, SubmitCheck
<1>3. PoolInv'
  BY <1>1, SubmitCheckPoolInv DEF FetchInv
<1>4. stopped => runDone
  BY <1>1 DEF FetchInv, PoolInv, ProducerInv, StopInv, WorkersGone, Drained
<1>5. ProducerInv'
  BY <1>1, <1>2 DEF FetchInv, ProducerInv, AllAccepted, SubmitVars, local
<1>6. CauseInv'
  BY <1>1, <1>2, <1>4 DEF FetchInv, CauseInv, SubmitVars, local, Rejections
<1>7. CollectorInv' /\ WaitInv'
  BY <1>1 DEF FetchInv, CollectorInv, WaitInv, SubmitVars, local
<1> QED
  BY <1>3, <1>5, <1>6, <1>7 DEF FetchInv

(* The Submit under way returns; its channel is open, and its context ends *)
(* only with the job's while the producer runs.                            *)
LEMMA ProducerSubmitReturnsFetchInv ==
  ASSUME FetchInv, NEW t \in Tasks, ProducerSubmitReturns(t)
  PROVE  FetchInv'
<1>1. Submit(t) /\ UNCHANGED local /\ UNCHANGED SubmitVars
  BY DEF ProducerSubmitReturns, Submit, SubmitSend, SubmitCtxDone, SubmitPanic
<1>2. submit[t] = "select"
  BY <1>1 DEF Submit, SubmitSend, SubmitCtxDone, SubmitPanic
<1>3. producer = "loop" /\ ~taskClosed
  BY <1>2 DEF FetchInv, PoolInv, ProducerInv, StopInv
<1>4. /\ submit'[t] \in {"nil", "ctxErr"} /\ (submit'[t] = "ctxErr" => runDone)
      /\ \A s \in Tasks \ {t} : submit'[s] = submit[s]
  BY <1>1, <1>3 DEF FetchInv, PoolInv, TypeOK, CauseInv, Submit, SubmitSend,
                    SubmitCtxDone, SubmitPanic
<1>5. PoolInv'
  BY <1>1, SubmitSendPoolInv, SubmitRejectPoolInv DEF FetchInv, Submit
<1>6. ProducerInv'
  BY <1>1, <1>2, <1>3, <1>4 DEF FetchInv, ProducerInv, SubmitVars, local
<1>7. CauseInv'
  BY <1>1, <1>4 DEF FetchInv, CauseInv, SubmitVars, local, Rejections
<1>8. CollectorInv' /\ WaitInv'
  BY <1>1 DEF FetchInv, CollectorInv, WaitInv, SubmitVars, local
<1> QED
  BY <1>5, <1>6, <1>7, <1>8 DEF FetchInv

(* The producer leaves its loop when no Submit is under way.               *)
LEMMA ProducerLeavesFetchInv ==
  ASSUME FetchInv, ProducerLeaves
  PROVE  FetchInv'
<1>1. UNCHANGED <<poolVars, collector, collected, result>>
      /\ producer = "loop" /\ producer' = "stop"
  BY DEF ProducerLeaves
<1>2. PoolInv'
  BY <1>1, StutterPoolInv DEF FetchInv
<1>3. CASE (\A t \in Tasks : submit[t] = "nil") /\ submitErr' = "nil"
  <2>1. ProducerInv' /\ CauseInv'
    BY <1>1, <1>3 DEF FetchInv, ProducerInv, CauseInv, poolVars
  <2> QED
    BY <1>1, <1>2, <2>1 DEF FetchInv, CollectorInv, WaitInv, poolVars
<1>4. CASE (\E t \in Tasks : submit[t] \in Rejections) /\ submitErr' = "err"
  <2>1. ProducerInv' /\ CauseInv'
    BY <1>1, <1>4 DEF FetchInv, ProducerInv, CauseInv, poolVars, Rejections
  <2> QED
    BY <1>1, <1>2, <2>1 DEF FetchInv, CollectorInv, WaitInv, poolVars
<1> QED
  BY <1>3, <1>4 DEF ProducerLeaves

(* The deferred Stop runs after the last Submit.                           *)
LEMMA ProducerStopsFetchInv ==
  ASSUME FetchInv, ProducerStops
  PROVE  FetchInv'
<1>1. producer = "stop" /\ Stop /\ UNCHANGED local /\ UNCHANGED StopVars
  BY DEF ProducerStops, Stop, StopStore, StopClose
<1>2. PoolInv'
  BY <1>1, StopPoolInv DEF FetchInv
<1>3. ProducerInv' /\ CauseInv'
  BY <1>1 DEF FetchInv, ProducerInv, CauseInv, local, StopVars
<1>4. CollectorInv' /\ WaitInv'
  BY <1>1 DEF FetchInv, CollectorInv, WaitInv, local, StopVars
<1> QED
  BY <1>2, <1>3, <1>4 DEF FetchInv

(* An error of the producer cancels the group's context; the job's is done *)
(* already.                                                                *)
LEMMA ProducerReturnsFetchInv ==
  ASSUME FetchInv, ProducerReturns
  PROVE  FetchInv'
<1>1. /\ producer = "stop" /\ once = "done" /\ producer' = "returned"
      /\ submitDone' = (submitDone \/ submitErr = "err")
      /\ UNCHANGED <<CtxVars, runDone, submitErr, collector, collected, result>>
  BY DEF ProducerReturns
<1>2. runDone' \in BOOLEAN /\ submitDone' \in BOOLEAN /\ (runDone => runDone')
  BY <1>1 DEF FetchInv, PoolInv, TypeOK
<1>3. PoolInv'
  BY <1>1, <1>2, CancelPoolInv DEF FetchInv
<1>4. ProducerInv' /\ CauseInv'
  BY <1>1 DEF FetchInv, ProducerInv, CauseInv, CtxVars
<1>5. CollectorInv' /\ WaitInv'
  BY <1>1 DEF FetchInv, CollectorInv, WaitInv, CtxVars
<1> QED
  BY <1>3, <1>4, <1>5 DEF FetchInv

(* The collector keeps a result it receives unless it carries an error.    *)
LEMMA CollectorReceivesFetchInv ==
  ASSUME FetchInv, NEW t \in Tasks, CollectorReceives(t)
  PROVE  FetchInv'
<1>1. /\ collector = "range" /\ Receive(t)
      /\ collected' = IF outcome[t] = "ok" THEN collected \cup {t} ELSE collected
      /\ UNCHANGED <<producer, submitErr, collector, result>>
  BY DEF CollectorReceives
<1>2. /\ received'[t] # 0
      /\ \A s \in Tasks \ {t} : received'[s] = received[s]
      /\ UNCHANGED <<outcome, submit, once, runDone, submitDone>>
  BY <1>1 DEF FetchInv, PoolInv, TypeOK, Receive
<1>3. PoolInv'
  BY <1>1, ReceivePoolInv DEF FetchInv
<1>4. ProducerInv' /\ CauseInv' /\ WaitInv'
  BY <1>1, <1>2 DEF FetchInv, ProducerInv, CauseInv, WaitInv
<1>5. CollectorInv'
  BY <1>1, <1>2 DEF FetchInv, CollectorInv
<1> QED
  BY <1>3, <1>4, <1>5 DEF FetchInv

(* The collector's loop ends with the closed channel; group.Wait then      *)
(* returns the producer's error.                                           *)
LEMMA JoinFetchInv ==
  ASSUME FetchInv, CollectorReturns \/ Wait
  PROVE  FetchInv'
<1>1. UNCHANGED <<poolVars, producer, submitErr, collected>>
  BY DEF CollectorReturns, Wait
<1>2. PoolInv'
  BY <1>1, StutterPoolInv DEF FetchInv
<1>3. ProducerInv' /\ CauseInv'
  BY <1>1 DEF FetchInv, ProducerInv, CauseInv, poolVars
<1>4. CollectorInv' /\ WaitInv'
  BY <1>1 DEF FetchInv, CollectorInv, WaitInv, poolVars, CollectorReturns, Wait
<1> QED
  BY <1>2, <1>3, <1>4 DEF FetchInv

(* A worker processes only tasks that the collector has not received.      *)
LEMMA PoolFetchInv ==
  ASSUME FetchInv, Pool
  PROVE  FetchInv'
<1>1. UNCHANGED local /\ UNCHANGED <<submit, once, runDone, submitDone, received>>
  BY DEF Pool, Worker, WorkerTake, WorkerTaskChClosed, WorkerCtxDone, WorkerProcess,
         WorkerSend, WorkerSendCtxDone, WorkerVars, Watcher, WatcherWait,
         WatcherClose, WatcherVars
<1>2. PoolInv'
  BY WorkerPoolInv, WatcherPoolInv DEF FetchInv, Pool
<1>3. ProducerInv' /\ CauseInv' /\ WaitInv'
  BY <1>1 DEF FetchInv, ProducerInv, CauseInv, WaitInv, local
<1>4. \A t \in Tasks : received[t] # 0 => outcome'[t] = outcome[t]
  <2>1. ASSUME NEW w \in Workers, WorkerProcess(w)
        PROVE  \A t \in Tasks : received[t] # 0 => outcome'[t] = outcome[t]
    BY <2>1 DEF FetchInv, PoolInv, TypeOK, PlaceInv, WorkerProcess
  <2>2. ASSUME UNCHANGED outcome
        PROVE  \A t \in Tasks : received[t] # 0 => outcome'[t] = outcome[t]
    BY <2>2
  <2> QED
    BY <2>1, <2>2 DEF Pool, Worker, WorkerTake, WorkerTaskChClosed, WorkerCtxDone,
          WorkerSend, WorkerSendCtxDone, Watcher, WatcherWait, WatcherClose, WatcherVars
<1>5. resultClosed => resultClosed' /\ resultCh' = resultCh
  <2>1. ASSUME NEW w \in Workers, Worker(w), resultClosed
        PROVE  resultClosed' /\ resultCh' = resultCh
    <3>1. worker[w] = "exited"
      BY <2>1 DEF FetchInv, PoolInv, StopInv, WorkersGone
    <3> QED
      BY <2>1, <3>1 DEF Worker, WorkerTake, WorkerTaskChClosed, WorkerCtxDone,
                        WorkerProcess, WorkerSend, WorkerSendCtxDone
  <2>2. ASSUME Watcher, resultClosed PROVE resultClosed' /\ resultCh' = resultCh
    BY <2>2 DEF Watcher, WatcherWait, WatcherClose, WatcherVars
  <2> QED
    BY <2>1, <2>2 DEF Pool
<1>6. CollectorInv'
  BY <1>1, <1>4, <1>5 DEF FetchInv, CollectorInv, local
<1> QED
  BY <1>2, <1>3, <1>6 DEF FetchInv

(* The job's context ends; the group's follows it.                         *)
LEMMA CtxFetchInv ==
  ASSUME FetchInv, JobCtxDone \/ GroupCtxDone
  PROVE  FetchInv'
<1>1. /\ UNCHANGED local /\ UNCHANGED CtxVars /\ (runDone => runDone')
      /\ runDone' \in BOOLEAN /\ submitDone' \in BOOLEAN
      /\ submitDone' => runDone' \/ submitDone
  BY DEF JobCtxDone, GroupCtxDone, CancelRun, CancelSubmit, FetchInv, PoolInv, TypeOK
<1>2. PoolInv'
  BY <1>1, CancelPoolInv DEF FetchInv
<1>3. ProducerInv' /\ CollectorInv' /\ WaitInv'
  BY <1>1 DEF FetchInv, ProducerInv, CollectorInv, WaitInv, local, CtxVars
<1>4. CauseInv'
  BY <1>1 DEF FetchInv, CauseInv, local, CtxVars
<1> QED
  BY <1>2, <1>3, <1>4 DEF FetchInv

(* Every step of a page fetch preserves its invariant.                     *)
LEMMA NextFetchInv == FetchInv /\ [Next]_vars => FetchInv'
<1> SUFFICES ASSUME FetchInv, [Next]_vars PROVE FetchInv'
  OBVIOUS
<1>1. CASE Group
  BY <1>1, ProducerSubmitFetchInv, ProducerSubmitReturnsFetchInv,
     CollectorReceivesFetchInv, ProducerLeavesFetchInv, ProducerStopsFetchInv,
     ProducerReturnsFetchInv, JoinFetchInv DEF Group
<1>2. CASE Pool
  BY <1>2, PoolFetchInv
<1>3. CASE JobCtxDone \/ GroupCtxDone
  BY <1>3, CtxFetchInv
<1>4. CASE Terminated \/ UNCHANGED vars
  <2>1. UNCHANGED poolVars /\ UNCHANGED local
    BY <1>4 DEF Terminated, vars, local
  <2>2. PoolInv'
    BY <2>1, StutterPoolInv DEF FetchInv
  <2>3. ProducerInv' /\ CauseInv' /\ CollectorInv' /\ WaitInv'
    BY <2>1 DEF FetchInv, ProducerInv, CauseInv, CollectorInv, WaitInv, poolVars, local
  <2> QED
    BY <2>2, <2>3 DEF FetchInv
<1> QED
  BY <1>1, <1>2, <1>3, <1>4 DEF Next

(* FetchInv holds in every reachable state.                                *)
THEOREM FetchInvariance == Spec => []FetchInv
<1>1. Init => FetchInv
  BY InitFetchInv
<1> QED
  BY <1>1, NextFetchInv, PTL DEF Spec

-----------------------------------------------------------------------------
(* With a live context, a fetch that returns without an error has received *)
(* every issue of the page.                                                *)
LEMMA AllReceived ==
  ASSUME FetchInv, result = "nil", ~runDone, NEW t \in Tasks
  PROVE  received[t] # 0 /\ outcome[t] # "none"
<1>1. submit[t] = "nil" /\ resultCh = {} /\ resultClosed
  BY DEF FetchInv, WaitInv, ProducerInv, CollectorInv
<1>2. WorkersGone
  BY <1>1 DEF FetchInv, PoolInv, StopInv
<1>3. taskCh = {}
  BY <1>2 DEF FetchInv, PoolInv, StopInv, WorkersGone, Drained
<1>4. \A w \in Workers : held[w] # t
  BY <1>2 DEF FetchInv, PoolInv, HoldInv, WorkersGone
<1>5. received[t] = 1
  BY <1>1, <1>3, <1>4 DEF FetchInv, PoolInv, PlaceInv
<1> QED
  BY <1>5 DEF FetchInv, PoolInv, OutcomeInv

(* The invariant implies the contract at the moment of the return.         *)
LEMMA FetchInvContract == FetchInv => FetchContract
<1> SUFFICES ASSUME FetchInv, result # "pending" PROVE FetchContract
  BY DEF FetchContract
<1> DEFINE failed == {t \in Tasks : outcome[t] = "err"}
<1>1. collected = {t \in Tasks : received[t] # 0 /\ outcome[t] = "ok"}
  BY DEF FetchInv, CollectorInv
<1>2. outcome \in [Tasks -> {"none", "ok", "err"}]
  BY DEF FetchInv, PoolInv, TypeOK
<1>3. collected \subseteq Tasks \ failed
  BY <1>1, <1>2
<1>4. CASE result = "nil" /\ runDone
  BY <1>3, <1>4 DEF FetchContract, PageResults
<1>5. CASE result = "nil" /\ ~runDone
  <2>1. \A t \in Tasks : received[t] # 0 /\ outcome[t] # "none"
    BY <1>5, AllReceived
  <2>2. collected = Tasks \ failed
    BY <1>1, <1>2, <2>1
  <2> QED
    BY <1>5, <2>2 DEF FetchContract, PageResults
<1>6. CASE result = "err"
  <2>1. runDone
    BY <1>6 DEF FetchInv, WaitInv, CauseInv
  <2> QED
    BY <1>6, <2>1 DEF FetchContract, PageResults
<1>7. result \in {"nil", "err"}
  BY DEF FetchInv, WaitInv, ProducerInv
<1> QED
  BY <1>4, <1>5, <1>6, <1>7

(* Issues are missing without an error of their own, and an error is       *)
(* returned, only when the job's context is done.                          *)
THEOREM WholePageOrCancelled == Spec => []FetchContract
BY FetchInvariance, FetchInvContract, PTL

(* fetchPageIssues leaves no goroutine of its pool behind.                 *)
THEOREM PoolIsGone == Spec => []NoGoroutineLeft
<1>1. FetchInv => NoGoroutineLeft
  BY DEF FetchInv, PoolInv, ProducerInv, CollectorInv, WaitInv, StopInv,
         NoGoroutineLeft
<1> QED
  BY <1>1, FetchInvariance, PTL

(* No Submit of a page meets the closed channel.                           *)
THEOREM StopAfterLastSubmit == Spec => []NoSubmitPanic
<1>1. FetchInv => NoSubmitPanic
  BY DEF FetchInv, PoolInv, ProducerInv, CauseInv, StopInv, NoSubmitPanic
<1> QED
  BY <1>1, FetchInvariance, PTL
=============================================================================
