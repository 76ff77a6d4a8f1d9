----------------------------- MODULE PoolProofs ------------------------------
(***************************************************************************)
(* The worker pool under arbitrary callers: its safety properties and that *)
(* it implements TaskLedger, for any number of workers and tasks and any   *)
(* capacity.  The invariant is PoolInv of PoolLemmas.                      *)
(***************************************************************************)
EXTENDS PoolSpec, PoolLemmas

USE PoolAssumption

(* Every step of the pool preserves its invariant.                         *)
LEMMA NextPoolInv == PoolInv /\ [Next]_vars => PoolInv'
<1> SUFFICES ASSUME PoolInv, [Next]_vars PROVE PoolInv'
  OBVIOUS
<1>1. ASSUME NEW t \in Tasks, SubmitCheck(t) \/ Submit(t) \/ Receive(t)
      PROVE  PoolInv'
  BY <1>1, SubmitCheckPoolInv, SubmitSendPoolInv, SubmitRejectPoolInv,
     ReceivePoolInv DEF Submit
<1>2. ASSUME NEW w \in Workers, Worker(w) PROVE PoolInv'
  BY <1>2, WorkerPoolInv
<1>3. ASSUME Stop \/ Watcher PROVE PoolInv'
  BY <1>3, StopPoolInv, WatcherPoolInv
<1>4. ASSUME CancelRun \/ CancelSubmit PROVE PoolInv'
  <2>1. /\ UNCHANGED CtxVars /\ runDone' \in BOOLEAN /\ submitDone' \in BOOLEAN
        /\ runDone => runDone'
    BY <1>4 DEF PoolInv, TypeOK, CancelRun, CancelSubmit
  <2> QED
    BY <2>1, CancelPoolInv
<1>5. ASSUME Terminated \/ UNCHANGED vars PROVE PoolInv'
  BY <1>5, StutterPoolInv DEF Terminated, vars
<1> QED
  BY <1>1, <1>2, <1>3, <1>4, <1>5 DEF Next

(* PoolInv holds in every reachable state.                                 *)
THEOREM PoolInvariance == Safety => []PoolInv
<1>1. Init => PoolInv
  BY NewAndRunPoolInv DEF Init
<1> QED
  BY <1>1, NextPoolInv, PTL DEF Safety

(* The pool's variables keep their types and no channel exceeds its        *)
(* capacity.                                                               *)
THEOREM PoolTypeCorrect == Spec => []TypeOK
BY PoolInvariance, PTL DEF PoolInv, Spec

(* Between Submit and the consumer no task is duplicated, none is dropped  *)
(* without a cancellation and none is worked on that Submit rejected.      *)
THEOREM TasksHandedOverOnce == Spec => []ExactlyOnce
BY PoolInvariance, PoolInvExactlyOnce, PTL DEF Spec

(* The result channel is closed only when every worker has returned.       *)
THEOREM ResultsClosedLast == Spec => []NoSendOnClosed
BY PoolInvariance, PoolInvNoSendOnClosed, PTL DEF Spec

-----------------------------------------------------------------------------
(* The pool implements TaskLedger.  A fresh pool has answered nobody.      *)
LEMMA InitRefines == Init => Ledger!Init
<1> SUFFICES ASSUME Init PROVE Ledger!Init
  OBVIOUS
<1>1. \A t \in Tasks : Fate(t) = "new"
  BY DEF Init, NewAndRun, Fate, Rejections
<1>2. runDone = FALSE /\ resultClosed = FALSE
  BY DEF Init, NewAndRun
<1> QED
  BY <1>1, <1>2 DEF Ledger!Init

(* Steps that leave every fate, the cancellation and the closing alone.    *)
LEMMA QuietRefines ==
  ASSUME \A t \in Tasks : Fate(t)' = Fate(t), UNCHANGED <<runDone, resultClosed>>
  PROVE  UNCHANGED Ledger!vars
BY DEF Ledger!vars

(* An answer of Submit changes the fate of its own task only.              *)
LEMMA AnswerRefines ==
  ASSUME NEW t \in Tasks, NEW f, Fate(t) = "new", Fate(t)' = f,
         \A s \in Tasks \ {t} : Fate(s)' = Fate(s),
         UNCHANGED <<runDone, resultClosed>>
  PROVE  Ledger!Answer(t, f)
BY DEF Ledger!Answer

(* The flag check of Submit rejects the task or goes on to the select.     *)
LEMMA SubmitCheckRefines ==
  ASSUME PoolInv, NEW t \in Tasks, SubmitCheck(t)
  PROVE  Ledger!Reject(t) \/ UNCHANGED Ledger!vars
<1>1. /\ submit[t] = "idle" /\ submit'[t] \in {"select", "errPoolStopped"}
      /\ \A s \in Tasks \ {t} : submit'[s] = submit[s]
      /\ UNCHANGED <<SubmitVars, taskCh>>
  BY DEF PoolInv, TypeOK, SubmitCheck
<1>2. \A s \in Tasks \ {t} : Fate(s)' = Fate(s)
  BY <1>1 DEF SubmitVars, Fate, HeldBy, WorkersGone
<1>3. Fate(t) = "new" /\ Fate(t)' \in {"new", "rejected"}
  BY <1>1 DEF Fate, Rejections
<1>4. UNCHANGED <<runDone, resultClosed>>
  BY <1>1 DEF SubmitVars
<1>5. CASE Fate(t)' = "new"
  BY <1>2, <1>3, <1>4, <1>5, QuietRefines
<1>6. CASE Fate(t)' = "rejected"
  BY <1>2, <1>3, <1>4, <1>6, AnswerRefines DEF Ledger!Reject
<1> QED
  BY <1>3, <1>5, <1>6

(* A send into the task channel accepts the task, in vain when the last    *)
(* worker has left: it left because of a cancellation, for the channel is  *)
(* still open.                                                             *)
LEMMA SubmitSendRefines ==
  ASSUME PoolInv, NEW t \in Tasks, SubmitSend(t)
  PROVE  Ledger!Accept(t) \/ Ledger!AcceptInVain(t)
<1>1. /\ submit[t] = "select" /\ submit'[t] = "nil" /\ ~taskClosed
      /\ \A s \in Tasks \ {t} : submit'[s] = submit[s]
      /\ taskCh' = taskCh \cup {t}
      /\ UNCHANGED SubmitVars
  BY DEF PoolInv, TypeOK, SubmitSend
<1>2. \A s \in Tasks \ {t} : Fate(s)' = Fate(s)
  BY <1>1 DEF SubmitVars, Fate, HeldBy, WorkersGone
<1>3. Fate(t) = "new" /\ t \notin resultCh /\ received[t] = 0 /\ HeldBy(t) = {}
  <2>1. Fate(t) = "new"
    BY <1>1 DEF Fate, Rejections
  <2>2. t \notin resultCh /\ received[t] = 0 /\ \A w \in Workers : held[w] # t
    BY <1>1 DEF PoolInv, PlaceInv
  <2> QED
    BY <2>1, <2>2 DEF HeldBy
<1>4. UNCHANGED <<runDone, resultClosed>>
  BY <1>1 DEF SubmitVars
<1>5. CASE WorkersGone
  <2>1. Fate(t)' = "lost"
    BY <1>1, <1>3, <1>5 DEF SubmitVars, Fate, HeldBy, WorkersGone, Rejections
  <2>2. runDone
    BY <1>1, <1>5 DEF PoolInv, StopInv, WorkersGone, Drained
  <2> QED
    BY <1>2, <1>3, <1>4, <2>1, <2>2, AnswerRefines DEF Ledger!AcceptInVain
<1>6. CASE ~WorkersGone
  <2>1. Fate(t)' = "accepted"
    BY <1>1, <1>3, <1>6 DEF SubmitVars, Fate, HeldBy, WorkersGone, Rejections
  <2>2. ~resultClosed
    BY <1>6 DEF PoolInv, StopInv
  <2> QED
    BY <1>2, <1>3, <1>4, <2>1, <2>2, AnswerRefines DEF Ledger!Accept
<1> QED
  BY <1>5, <1>6

(* The error of a done context and the recovered panic are rejections.     *)
LEMMA SubmitRejectRefines ==
  ASSUME PoolInv, NEW t \in Tasks, SubmitCtxDone(t) \/ SubmitPanic(t)
  PROVE  Ledger!Reject(t)
<1>1. /\ submit[t] = "select" /\ submit'[t] \in {"ctxErr", "errSubmitPanic"}
      /\ \A s \in Tasks \ {t} : submit'[s] = submit[s]
      /\ UNCHANGED <<SubmitVars, taskCh>>
  BY DEF PoolInv, TypeOK, SubmitCtxDone, SubmitPanic
<1>2. \A s \in Tasks \ {t} : Fate(s)' = Fate(s)
  BY <1>1 DEF SubmitVars, Fate, HeldBy, WorkersGone
<1>3. Fate(t) = "new" /\ Fate(t)' = "rejected"
  BY <1>1 DEF Fate, Rejections
<1>4. UNCHANGED <<runDone, resultClosed>>
  BY <1>1 DEF SubmitVars
<1> QED
  BY <1>2, <1>3, <1>4, AnswerRefines DEF Ledger!Reject

(* A task that a worker has taken is still open.                           *)
LEMMA WorkerTakeRefines ==
  ASSUME PoolInv, NEW w \in Workers, WorkerTake(w)
  PROVE  UNCHANGED Ledger!vars
<1>1. PICK t \in taskCh : taskCh' = taskCh \ {t} /\ held' = [held EXCEPT ![w] = t]
  BY DEF WorkerTake
<1>2. /\ worker[w] = "select" /\ worker'[w] = "process"
      /\ held[w] = NoTask /\ held'[w] = t
      /\ \A v \in Workers \ {w} : held'[v] = held[v]
      /\ UNCHANGED <<WorkerVars, resultCh, stats, outcome>>
      /\ t \in Tasks
  BY <1>1 DEF PoolInv, TypeOK, HoldInv, WorkerTake
<1>3. ~WorkersGone /\ ~WorkersGone'
  BY <1>2 DEF WorkersGone
<1>4. HeldBy(t)' # {} /\ \A s \in Tasks \ {t} : HeldBy(s)' = HeldBy(s)
  <2>1. HeldBy(t)' # {}
    BY <1>2 DEF HeldBy
  <2>2. ASSUME NEW s \in Tasks \ {t} PROVE HeldBy(s)' = HeldBy(s)
    BY <1>2, <2>2 DEF HeldBy
  <2> QED
    BY <2>1, <2>2
<1>5. Fate(t)' = Fate(t)
  BY <1>1, <1>2, <1>3, <1>4 DEF PoolInv, PlaceInv, WorkerVars, Fate
<1>6. \A s \in Tasks \ {t} : Fate(s)' = Fate(s)
  BY <1>1, <1>2, <1>3, <1>4 DEF WorkerVars, Fate
<1>7. UNCHANGED <<runDone, resultClosed>>
  BY <1>2 DEF WorkerVars
<1> QED
  BY <1>5, <1>6, <1>7, QuietRefines

(* The last worker to leave a drained channel leaves no task behind.       *)
LEMMA WorkerTaskChClosedRefines ==
  ASSUME PoolInv, NEW w \in Workers, WorkerTaskChClosed(w)
  PROVE  UNCHANGED Ledger!vars
<1>1. taskCh = {} /\ UNCHANGED <<WorkerVars, taskCh, resultCh, stats, outcome, held>>
  BY DEF WorkerTaskChClosed, Drained
<1>2. \A s \in Tasks : Fate(s)' = Fate(s)
  BY <1>1 DEF WorkerVars, Fate, HeldBy
<1> QED
  BY <1>1, <1>2, QuietRefines DEF WorkerVars

(* Process does not yet decide the task: its result may still be dropped.  *)
LEMMA WorkerProcessRefines ==
  ASSUME PoolInv, NEW w \in Workers, WorkerProcess(w)
  PROVE  UNCHANGED Ledger!vars
<1>1. /\ worker[w] = "process" /\ worker'[w] = "send"
      /\ UNCHANGED <<WorkerVars, taskCh, resultCh, held>>
  BY DEF PoolInv, TypeOK, WorkerProcess
<1>2. ~WorkersGone /\ ~WorkersGone'
  BY <1>1 DEF WorkersGone
<1>3. \A s \in Tasks : Fate(s)' = Fate(s)
  BY <1>1, <1>2 DEF WorkerVars, Fate, HeldBy
<1> QED
  BY <1>1, <1>3, QuietRefines DEF WorkerVars

(* The send of a result brings the task to its end.                        *)
LEMMA WorkerSendRefines ==
  ASSUME PoolInv, NEW w \in Workers, WorkerSend(w)
  PROVE  \E t \in Tasks : Ledger!Process(t)
<1>1. PICK t \in Tasks : t = held[w]
  BY DEF PoolInv, TypeOK, HoldInv, WorkerSend
<1>2. /\ worker[w] = "send" /\ worker'[w] = "select"
      /\ resultCh' = resultCh \cup {t} /\ held'[w] = NoTask
      /\ \A v \in Workers \ {w} : held'[v] = held[v]
      /\ UNCHANGED <<WorkerVars, taskCh, stats, outcome>>
  BY <1>1 DEF PoolInv, TypeOK, WorkerSend
<1>3. submit[t] = "nil" /\ t \notin resultCh /\ received[t] = 0 /\ HeldBy(t) # {}
  BY <1>1 DEF PoolInv, PlaceInv, HeldBy
<1>4. ~WorkersGone /\ ~WorkersGone'
  BY <1>2 DEF WorkersGone
<1>5. ~resultClosed /\ UNCHANGED <<runDone, resultClosed>>
  BY <1>2, <1>4 DEF PoolInv, StopInv, WorkerVars
<1>6. ASSUME NEW s \in Tasks \ {t} PROVE HeldBy(s)' = HeldBy(s)
  BY <1>1, <1>2, <1>6 DEF HeldBy
<1>7. \A v \in Workers \ {w} : held[v] # t
  BY <1>1 DEF PoolInv, HoldInv
<1>8. t \notin taskCh
  BY <1>1 DEF PoolInv, PlaceInv
<1>9. Fate(t) = "accepted" /\ Fate(t)' = "done"
  <2>1. submit'[t] = "nil" /\ t \in resultCh' /\ t \notin taskCh'
    BY <1>2, <1>3, <1>8 DEF WorkerVars
  <2>2. HeldBy(t)' = {}
    BY <1>1, <1>2, <1>7 DEF HeldBy
  <2>3. Fate(t) = "accepted"
    BY <1>3 DEF Fate, Rejections
  <2> QED
    BY <2>1, <2>2, <2>3 DEF Fate, Rejections
<1>10. \A s \in Tasks \ {t} : Fate(s)' = Fate(s)
  BY <1>2, <1>4, <1>6 DEF WorkerVars, Fate
<1> QED
  <2>1. [s \in Tasks |-> Fate(s)]'
          = [[s \in Tasks |-> Fate(s)] EXCEPT ![t] = "done"]
    BY <1>1, <1>9, <1>10
  <2>2. Ledger!Process(t)
    BY <1>1, <1>5, <1>9, <2>1 DEF Ledger!Process
  <2> QED
    BY <1>1, <2>2

(* Steps after which, because of the cancellation, open tasks are lost.    *)
LEMMA LoseRefines ==
  ASSUME runDone, UNCHANGED <<runDone, resultClosed>>,
         \A s \in Tasks : \/ Fate(s)' = Fate(s)
                          \/ Fate(s) = "accepted" /\ Fate(s)' = "lost"
  PROVE  Ledger!Lose
<1> DEFINE S == {s \in Tasks : Fate(s) = "accepted" /\ Fate(s)' = "lost"}
<1>1. S \in SUBSET Ledger!With("accepted")
  BY DEF Ledger!With
<1>2. [s \in Tasks |-> Fate(s)]'
        = [s \in Tasks |-> IF s \in S THEN "lost" ELSE [q \in Tasks |-> Fate(q)][s]]
  OBVIOUS
<1> QED
  BY <1>1, <1>2 DEF Ledger!Lose

(* A worker that leaves its select after the cancellation may be the last, *)
(* and then what is in the task channel is lost.                           *)
LEMMA WorkerCtxDoneRefines ==
  ASSUME PoolInv, NEW w \in Workers, WorkerCtxDone(w)
  PROVE  Ledger!Lose
<1>1. /\ worker[w] = "select" /\ runDone
      /\ UNCHANGED <<WorkerVars, taskCh, resultCh, stats, outcome, held>>
  BY DEF WorkerCtxDone
<1>2. ~WorkersGone
  BY <1>1 DEF WorkersGone
<1>3. \A s \in Tasks : \/ Fate(s)' = Fate(s)
                       \/ Fate(s) = "accepted" /\ Fate(s)' = "lost"
  BY <1>1, <1>2 DEF WorkerVars, Fate, HeldBy
<1> QED
  BY <1>1, <1>3, LoseRefines DEF WorkerVars

(* A worker that drops its result after the cancellation loses its task.   *)
LEMMA WorkerSendCtxDoneRefines ==
  ASSUME PoolInv, NEW w \in Workers, WorkerSendCtxDone(w)
  PROVE  Ledger!Lose
<1>1. /\ worker[w] = "send" /\ runDone /\ held'[w] = NoTask
      /\ \A v \in Workers \ {w} : held'[v] = held[v]
      /\ UNCHANGED <<WorkerVars, taskCh, resultCh, stats, outcome>>
  BY DEF PoolInv, TypeOK, WorkerSendCtxDone
<1>2. ~WorkersGone
  BY <1>1 DEF WorkersGone
<1>3. ASSUME NEW s \in Tasks PROVE HeldBy(s)' \subseteq HeldBy(s)
  BY <1>1 DEF HeldBy
<1>4. \A s \in Tasks : \/ Fate(s)' = Fate(s)
                       \/ Fate(s) = "accepted" /\ Fate(s)' = "lost"
  BY <1>1, <1>2, <1>3 DEF WorkerVars, Fate
<1> QED
  BY <1>1, <1>4, LoseRefines DEF WorkerVars

(* A result that is received was done already.                             *)
LEMMA ReceiveRefines ==
  ASSUME PoolInv, NEW t \in Tasks, Receive(t)
  PROVE  UNCHANGED Ledger!vars
<1>1. /\ t \in resultCh /\ resultCh' = resultCh \ {t}
      /\ received'[t] = received[t] + 1 /\ received[t] \in Nat
      /\ \A s \in Tasks \ {t} : received'[s] = received[s]
      /\ UNCHANGED <<taskCh, submit, worker, held, runDone, resultClosed>>
  BY DEF PoolInv, TypeOK, Receive
<1>2. \A s \in Tasks : HeldBy(s)' = HeldBy(s)
  BY <1>1 DEF HeldBy
<1>3. WorkersGone' = WorkersGone
  BY <1>1 DEF WorkersGone
<1>4. Fate(t)' = Fate(t)
  BY <1>1 DEF PoolInv, PlaceInv, Fate, Rejections
<1>5. \A s \in Tasks \ {t} : Fate(s)' = Fate(s)
  BY <1>1, <1>2, <1>3 DEF Fate
<1> QED
  BY <1>1, <1>4, <1>5, QuietRefines

(* When the watcher closes the results every accepted task is done or      *)
(* lost: nobody holds one and nobody will take one.                        *)
LEMMA WatcherRefines ==
  ASSUME PoolInv, Watcher
  PROVE  Ledger!Finish \/ UNCHANGED Ledger!vars
<1>1. /\ UNCHANGED WatcherVars /\ WorkersGone
      /\ resultClosed' = resultClosed \/ resultClosed' = TRUE
  BY DEF PoolInv, StopInv, Watcher, WatcherWait, WatcherClose
<1>2. \A s \in Tasks : Fate(s)' = Fate(s)
  BY <1>1 DEF WatcherVars, Fate, HeldBy, WorkersGone
<1>3. CASE resultClosed' = resultClosed
  BY <1>1, <1>2, <1>3, QuietRefines DEF WatcherVars
<1>4. CASE resultClosed' = TRUE
  <2>1. \A s \in Tasks : HeldBy(s) = {}
    BY <1>1 DEF PoolInv, HoldInv, WorkersGone, HeldBy
  <2>2. \A s \in Tasks : Fate(s) # "accepted"
    BY <1>1, <2>1 DEF Fate
  <2>3. Ledger!With("accepted") = {}
    BY <2>2 DEF Ledger!With
  <2> QED
    BY <1>1, <1>2, <1>4, <2>3 DEF WatcherVars, Ledger!Finish
<1> QED
  BY <1>1, <1>3, <1>4

(* Stop and the contexts touch no task.                                    *)
LEMMA SignalsRefine ==
  ASSUME PoolInv, Stop \/ CancelRun \/ CancelSubmit \/ UNCHANGED vars
  PROVE  Ledger!Cancel \/ UNCHANGED Ledger!vars
<1>1. UNCHANGED <<taskCh, resultCh, received, submit, worker, held, resultClosed>>
  BY DEF Stop, StopStore, StopClose, StopVars, CancelRun, CancelSubmit, CtxVars,
         vars, poolVars
<1>2. \A s \in Tasks : Fate(s)' = Fate(s)
  BY <1>1 DEF Fate, HeldBy, WorkersGone
<1>3. runDone' = runDone \/ runDone' = TRUE
  BY DEF Stop, StopStore, StopClose, StopVars, CancelRun, CancelSubmit, vars, poolVars
<1>4. CASE runDone' = runDone
  BY <1>1, <1>2, <1>4, QuietRefines
<1>5. CASE runDone' = TRUE
  BY <1>1, <1>2, <1>5 DEF Ledger!Cancel
<1> QED
  BY <1>3, <1>4, <1>5

(* Every step of the pool is a step of the ledger or a stutter.            *)
LEMMA NextRefines == PoolInv /\ [Next]_vars => [Ledger!Next]_(Ledger!vars)
<1> SUFFICES ASSUME PoolInv, [Next]_vars PROVE [Ledger!Next]_(Ledger!vars)
  OBVIOUS
<1>1. ASSUME NEW t \in Tasks, SubmitCheck(t) \/ Submit(t) \/ Receive(t)
      PROVE  [Ledger!Next]_(Ledger!vars)
  BY <1>1, SubmitCheckRefines, SubmitSendRefines, SubmitRejectRefines,
     ReceiveRefines DEF Submit, Ledger!Next
<1>2. ASSUME NEW w \in Workers, Worker(w) PROVE [Ledger!Next]_(Ledger!vars)
  BY <1>2, WorkerTakeRefines, WorkerTaskChClosedRefines, WorkerCtxDoneRefines,
     WorkerProcessRefines, WorkerSendRefines, WorkerSendCtxDoneRefines
     DEF Worker, Ledger!Next
<1>3. ASSUME Watcher PROVE [Ledger!Next]_(Ledger!vars)
  BY <1>3, WatcherRefines DEF Ledger!Next
<1>4. ASSUME Stop \/ CancelRun \/ CancelSubmit \/ Terminated \/ UNCHANGED vars
      PROVE  [Ledger!Next]_(Ledger!vars)
  BY <1>4, SignalsRefine DEF Ledger!Next, Terminated
<1> QED
  BY <1>1, <1>2, <1>3, <1>4 DEF Next

(* The pool, with its channels, workers and watcher, implements the        *)
(* ledger: every task is answered once, processed at most once and settled *)
(* when the results are closed.                                            *)
THEOREM PoolRefinesLedger == Spec => ImplementsTaskLedger
<1>1. Spec => Ledger!Init
  BY InitRefines DEF Spec, Safety
<1>2. PoolInv /\ [Next]_vars => [Ledger!Next]_(Ledger!vars)
  BY NextRefines
<1> QED
  BY <1>1, <1>2, PoolInvariance, PTL DEF Spec, Safety, ImplementsTaskLedger,
     Ledger!Spec
=============================================================================
