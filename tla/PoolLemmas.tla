----------------------------- MODULE PoolLemmas ------------------------------
(***************************************************************************)
(* What every operation of the worker pool preserves, whoever calls it and *)
(* for any number of workers and tasks and any capacity.  The pool under   *)
(* arbitrary callers (PoolProofs) and the pool of one page fetch           *)
(* (FetchPageProofs) both rest on these lemmas.                            *)
(*                                                                         *)
(* ExactlyOnce and NoSendOnClosed are not inductive: that a send does not  *)
(* duplicate a task needs that no two workers hold the same one, that a    *)
(* task is not dropped needs that workers leave only after a cancellation  *)
(* or from a drained channel, and that no worker sends on the closed       *)
(* channel needs what the watcher has seen.  PoolInv collects these facts. *)
(***************************************************************************)
EXTENDS WorkerPool, FiniteSetTheorems, TLAPS

(* A worker holds a task exactly while it processes or sends, and no two   *)
(* workers hold the same one.                                              *)
HoldInv ==
  /\ \A w \in Workers : held[w] = NoTask <=> worker[w] \in {"select", "exited"}
  /\ \A v, w \in Workers : held[v] = held[w] /\ held[v] # NoTask => v = w

(* A task that is held, queued or delivered is so in one place, and only   *)
(* after its Submit returned nil; it vanishes only by cancellation.        *)
PlaceInv ==
  \A t \in Tasks :
    /\ received[t] \in {0, 1}
    /\ t \in taskCh => received[t] = 0 /\ t \notin resultCh
    /\ t \in resultCh => received[t] = 0
    /\ \A w \in Workers :
         held[w] = t => received[t] = 0 /\ t \notin taskCh /\ t \notin resultCh
    /\ submit[t] # "nil" => /\ received[t] = 0
                            /\ t \notin taskCh /\ t \notin resultCh
                            /\ \A w \in Workers : held[w] # t
    /\ \/ submit[t] # "nil" \/ runDone
       \/ received[t] = 1 \/ t \in taskCh \/ t \in resultCh
       \/ \E w \in Workers : held[w] = t

(* Nothing is sent or delivered before Process has returned.               *)
OutcomeInv ==
  /\ \A w \in Workers : worker[w] = "send" => outcome[held[w]] # "none"
  /\ \A t \in Tasks : t \in resultCh \/ received[t] # 0 => outcome[t] # "none"

(* Who stopped the pool, who closed the channels and why a worker left.    *)
StopInv ==
  /\ taskClosed <=> once = "done"
  /\ once # "new" => stopped
  /\ stopped => once # "new" \/ watcher # "wait"
  /\ resultClosed <=> watcher = "exited"
  /\ watcher # "wait" => WorkersGone
  /\ \A w \in Workers : worker[w] = "exited" => runDone \/ Drained

PoolInv == TypeOK /\ HoldInv /\ PlaceInv /\ OutcomeInv /\ StopInv

-----------------------------------------------------------------------------
USE PoolAssumption

(* A channel with room holds one more task within its capacity.            *)
LEMMA SendFits ==
  ASSUME NEW ch \in SUBSET Tasks, HasRoom(ch), NEW t \in Tasks
  PROVE  Cardinality(ch \cup {t}) <= QueueSize
<1>1. IsFiniteSet(ch) /\ Cardinality(ch) \in Nat
  BY FS_Subset, FS_CardinalityType
<1>2. Cardinality(ch \cup {t}) \in {Cardinality(ch), Cardinality(ch) + 1}
  BY <1>1, FS_AddElement
<1> QED
  BY <1>1, <1>2 DEF HasRoom

(* Taking a task out of a channel keeps it within its capacity.            *)
LEMMA TakeFits ==
  ASSUME NEW ch \in SUBSET Tasks, Cardinality(ch) <= QueueSize, NEW t \in ch
  PROVE  Cardinality(ch \ {t}) <= QueueSize
<1>1. IsFiniteSet(ch) /\ Cardinality(ch) \in Nat
  BY FS_Subset, FS_CardinalityType
<1>2. Cardinality(ch \ {t}) = Cardinality(ch) - 1
  BY <1>1, FS_RemoveElement
<1> QED
  BY <1>1, <1>2

(* New and Run start with empty channels and idle workers.                 *)
LEMMA NewAndRunPoolInv == NewAndRun => PoolInv
<1> SUFFICES ASSUME NewAndRun PROVE PoolInv
  OBVIOUS
<1>1. Cardinality({}) = 0
  BY FS_EmptySet
<1>2. TypeOK
  <2>1. Cardinality(taskCh) <= QueueSize /\ Cardinality(resultCh) <= QueueSize
    BY <1>1 DEF NewAndRun
  <2>2. stats \in [Processed : Nat, Failed : Nat]
    BY DEF NewAndRun
  <2> QED
    BY <2>1, <2>2 DEF NewAndRun, TypeOK
<1>3. HoldInv /\ PlaceInv /\ OutcomeInv /\ StopInv
  BY DEF NewAndRun, HoldInv, PlaceInv, OutcomeInv, StopInv
<1> QED
  BY <1>2, <1>3 DEF PoolInv

(* A step that changes nothing of the pool preserves its invariant.        *)
LEMMA StutterPoolInv ==
  ASSUME PoolInv, UNCHANGED poolVars
  PROVE  PoolInv'
<1>1. TypeOK' /\ HoldInv' /\ PlaceInv' /\ OutcomeInv'
  BY DEF PoolInv, poolVars, TypeOK, HoldInv, PlaceInv, OutcomeInv
<1>2. StopInv'
  BY DEF PoolInv, poolVars, StopInv, WorkersGone, Drained
<1> QED
  BY <1>1, <1>2 DEF PoolInv

(* Submit's check of the flag changes only where that call is.             *)
LEMMA SubmitCheckPoolInv ==
  ASSUME PoolInv, NEW t \in Tasks, SubmitCheck(t)
  PROVE  PoolInv'
<1>1. /\ submit[t] = "idle" /\ submit'[t] \in {"select", "errPoolStopped"}
      /\ submit' \in [Tasks -> {"idle", "select", "nil"} \cup Rejections]
      /\ \A s \in Tasks \ {t} : submit'[s] = submit[s]
  BY DEF PoolInv, TypeOK, SubmitCheck, Rejections
<1>2. UNCHANGED <<SubmitVars, taskCh>>
  BY DEF SubmitCheck
<1>3. TypeOK' /\ HoldInv' /\ OutcomeInv'
  BY <1>1, <1>2 DEF PoolInv, TypeOK, SubmitVars, HoldInv, OutcomeInv
<1>4. PlaceInv'
  BY <1>1, <1>2 DEF PoolInv, SubmitVars, PlaceInv
<1>5. StopInv'
  BY <1>2 DEF PoolInv, SubmitVars, StopInv, WorkersGone, Drained
<1> QED
  BY <1>3, <1>4, <1>5 DEF PoolInv

(* A sent task is nowhere else: its Submit had not returned nil before.    *)
LEMMA SubmitSendPoolInv ==
  ASSUME PoolInv, NEW t \in Tasks, SubmitSend(t)
  PROVE  PoolInv'
<1>1. /\ submit[t] = "select" /\ submit'[t] = "nil"
      /\ submit' \in [Tasks -> {"idle", "select", "nil"} \cup Rejections]
      /\ \A s \in Tasks \ {t} : submit'[s] = submit[s]
  BY DEF PoolInv, TypeOK, SubmitSend
<1>2. /\ taskCh \in SUBSET Tasks /\ taskCh' = taskCh \cup {t} /\ ~taskClosed
      /\ HasRoom(taskCh)
  BY DEF PoolInv, TypeOK, SubmitSend
<1>3. UNCHANGED SubmitVars
  BY DEF SubmitSend
<1>4. Cardinality(taskCh') <= QueueSize
  BY <1>2, SendFits
<1>5. TypeOK' /\ HoldInv' /\ OutcomeInv'
  BY <1>1, <1>2, <1>3, <1>4 DEF PoolInv, TypeOK, SubmitVars, HoldInv, OutcomeInv
<1>6. PlaceInv'
  BY <1>1, <1>2, <1>3 DEF PoolInv, SubmitVars, PlaceInv
<1>7. StopInv'
  BY <1>2, <1>3 DEF PoolInv, SubmitVars, StopInv, WorkersGone, Drained
<1> QED
  BY <1>5, <1>6, <1>7 DEF PoolInv

(* A Submit that is rejected leaves its task where it was: nowhere.        *)
LEMMA SubmitRejectPoolInv ==
  ASSUME PoolInv, NEW t \in Tasks, SubmitCtxDone(t) \/ SubmitPanic(t)
  PROVE  PoolInv'
<1>1. /\ submit[t] = "select" /\ submit'[t] \in {"ctxErr", "errSubmitPanic"}
      /\ submit' \in [Tasks -> {"idle", "select", "nil"} \cup Rejections]
      /\ \A s \in Tasks \ {t} : submit'[s] = submit[s]
  BY DEF PoolInv, TypeOK, SubmitCtxDone, SubmitPanic, Rejections
<1>2. UNCHANGED <<SubmitVars, taskCh>>
  BY DEF SubmitCtxDone, SubmitPanic
<1>3. TypeOK' /\ HoldInv' /\ OutcomeInv'
  BY <1>1, <1>2 DEF PoolInv, TypeOK, SubmitVars, HoldInv, OutcomeInv
<1>4. PlaceInv'
  BY <1>1, <1>2 DEF PoolInv, SubmitVars, PlaceInv
<1>5. StopInv'
  BY <1>2 DEF PoolInv, SubmitVars, StopInv, WorkersGone, Drained
<1> QED
  BY <1>3, <1>4, <1>5 DEF PoolInv

(* Stop sets the flag before it closes the task channel.                   *)
LEMMA StopPoolInv ==
  ASSUME PoolInv, Stop
  PROVE  PoolInv'
<1>1. /\ UNCHANGED StopVars /\ stopped' = TRUE
      /\ \/ once' = "running" /\ once = "new" /\ taskClosed' = taskClosed
         \/ once' = "done" /\ once = "running" /\ taskClosed' = TRUE
  BY DEF PoolInv, TypeOK, StopInv, Stop, StopStore, StopClose
<1>2. HoldInv' /\ PlaceInv' /\ OutcomeInv'
  BY <1>1 DEF PoolInv, StopVars, HoldInv, PlaceInv, OutcomeInv
<1>3. TypeOK'
  BY <1>1 DEF PoolInv, TypeOK, StopVars
<1>4. StopInv'
  BY <1>1 DEF PoolInv, TypeOK, StopVars, StopInv, WorkersGone, Drained
<1> QED
  BY <1>2, <1>3, <1>4 DEF PoolInv

-----------------------------------------------------------------------------
(* A worker takes a task out of the channel, where nobody else holds it.   *)
LEMMA WorkerTakePoolInv ==
  ASSUME PoolInv, NEW w \in Workers, WorkerTake(w)
  PROVE  PoolInv'
<1>1. PICK t \in taskCh : taskCh' = taskCh \ {t} /\ held' = [held EXCEPT ![w] = t]
  BY DEF WorkerTake
<1>2. taskCh \in SUBSET Tasks /\ t \in Tasks /\ Cardinality(taskCh) <= QueueSize
  BY DEF PoolInv, TypeOK
<1>3. /\ worker[w] = "select" /\ worker'[w] = "process"
      /\ worker' \in [Workers -> {"select", "process", "send", "exited"}]
      /\ \A v \in Workers \ {w} : worker'[v] = worker[v]
  BY DEF PoolInv, TypeOK, WorkerTake
<1>4. /\ held' \in [Workers -> Tasks \cup {NoTask}] /\ held'[w] = t
      /\ held[w] = NoTask
      /\ \A v \in Workers \ {w} : held'[v] = held[v]
  BY <1>1, <1>2, <1>3 DEF PoolInv, TypeOK, HoldInv
<1>5. UNCHANGED <<WorkerVars, resultCh, stats, outcome>>
  BY DEF WorkerTake
<1>6. Cardinality(taskCh') <= QueueSize
  BY <1>1, <1>2, TakeFits
<1>7. TypeOK'
  BY <1>1, <1>2, <1>3, <1>4, <1>5, <1>6 DEF PoolInv, TypeOK, WorkerVars
<1>8. HoldInv'
  BY <1>2, <1>3, <1>4 DEF PoolInv, TypeOK, HoldInv, PlaceInv
<1>9. PlaceInv'
  BY <1>1, <1>2, <1>4, <1>5 DEF PoolInv, WorkerVars, PlaceInv
<1>10. OutcomeInv'
  BY <1>3, <1>4, <1>5 DEF PoolInv, WorkerVars, OutcomeInv
<1>11. StopInv'
  BY <1>1, <1>3, <1>5 DEF PoolInv, WorkerVars, StopInv, WorkersGone, Drained
<1> QED
  BY <1>7, <1>8, <1>9, <1>10, <1>11 DEF PoolInv

(* A worker leaves its select holding nothing, from a drained channel or   *)
(* after the cancellation.                                                 *)
LEMMA WorkerLeavesPoolInv ==
  ASSUME PoolInv, NEW w \in Workers, WorkerTaskChClosed(w) \/ WorkerCtxDone(w)
  PROVE  PoolInv'
<1>1. /\ worker[w] = "select" /\ worker'[w] = "exited" /\ (runDone \/ Drained)
      /\ worker' \in [Workers -> {"select", "process", "send", "exited"}]
      /\ \A v \in Workers \ {w} : worker'[v] = worker[v]
  BY DEF PoolInv, TypeOK, WorkerTaskChClosed, WorkerCtxDone
<1>2. UNCHANGED <<WorkerVars, taskCh, resultCh, stats, outcome, held>>
  BY DEF WorkerTaskChClosed, WorkerCtxDone
<1>3. TypeOK' /\ HoldInv'
  BY <1>1, <1>2 DEF PoolInv, TypeOK, WorkerVars, HoldInv
<1>4. PlaceInv' /\ OutcomeInv'
  BY <1>1, <1>2 DEF PoolInv, WorkerVars, PlaceInv, OutcomeInv
<1>5. StopInv'
  BY <1>1, <1>2 DEF PoolInv, WorkerVars, StopInv, WorkersGone, Drained
<1> QED
  BY <1>3, <1>4, <1>5 DEF PoolInv

(* Process returns for the one task the worker holds.                      *)
LEMMA WorkerProcessPoolInv ==
  ASSUME PoolInv, NEW w \in Workers, WorkerProcess(w)
  PROVE  PoolInv'
<1>1. /\ worker[w] = "process" /\ worker'[w] = "send"
      /\ worker' \in [Workers -> {"select", "process", "send", "exited"}]
      /\ \A v \in Workers \ {w} : worker'[v] = worker[v]
  BY DEF PoolInv, TypeOK, WorkerProcess
<1>2. held[w] \in Tasks
  BY <1>1 DEF PoolInv, TypeOK, HoldInv
<1>3. /\ outcome' \in [Tasks -> {"none", "ok", "err"}]
      /\ outcome'[held[w]] \in {"ok", "err"}
      /\ \A t \in Tasks \ {held[w]} : outcome'[t] = outcome[t]
  BY <1>2 DEF PoolInv, TypeOK, WorkerProcess
<1>4. stats' \in [Processed : Nat, Failed : Nat]
  BY DEF PoolInv, TypeOK, WorkerProcess
<1>5. UNCHANGED <<WorkerVars, taskCh, resultCh, held>>
  BY DEF WorkerProcess
<1>6. TypeOK' /\ HoldInv'
  BY <1>1, <1>3, <1>4, <1>5 DEF PoolInv, TypeOK, WorkerVars, HoldInv
<1>7. PlaceInv'
  BY <1>5 DEF PoolInv, WorkerVars, PlaceInv
<1>8. OutcomeInv'
  BY <1>1, <1>2, <1>3, <1>5 DEF PoolInv, TypeOK, HoldInv, WorkerVars, OutcomeInv
<1>9. StopInv'
  BY <1>1, <1>5 DEF PoolInv, WorkerVars, StopInv, WorkersGone, Drained
<1> QED
  BY <1>6, <1>7, <1>8, <1>9 DEF PoolInv

(* A worker hands its task to the result channel, where it was not.        *)
LEMMA WorkerSendPoolInv ==
  ASSUME PoolInv, NEW w \in Workers, WorkerSend(w)
  PROVE  PoolInv'
<1> DEFINE t == held[w]
<1>1. /\ worker[w] = "send" /\ worker'[w] = "select"
      /\ worker' \in [Workers -> {"select", "process", "send", "exited"}]
      /\ \A v \in Workers \ {w} : worker'[v] = worker[v]
  BY DEF PoolInv, TypeOK, WorkerSend
<1>2. t \in Tasks /\ outcome[t] # "none"
  BY <1>1 DEF PoolInv, TypeOK, HoldInv, OutcomeInv
<1>3. /\ held' \in [Workers -> Tasks \cup {NoTask}] /\ held'[w] = NoTask
      /\ \A v \in Workers \ {w} : held'[v] = held[v] /\ held[v] # t
  BY <1>1, <1>2 DEF PoolInv, TypeOK, HoldInv, WorkerSend
<1>4. /\ resultCh \in SUBSET Tasks /\ resultCh' = resultCh \cup {t}
      /\ HasRoom(resultCh)
  BY DEF PoolInv, TypeOK, WorkerSend
<1>5. UNCHANGED <<WorkerVars, taskCh, stats, outcome>>
  BY DEF WorkerSend
<1>6. held[w] = t
  OBVIOUS
<1> HIDE DEF t
<1>7. Cardinality(resultCh') <= QueueSize
  BY <1>2, <1>4, SendFits
<1>8. TypeOK'
  BY <1>1, <1>2, <1>3, <1>4, <1>5, <1>7 DEF PoolInv, TypeOK, WorkerVars
<1>9. HoldInv'
  BY <1>1, <1>3 DEF PoolInv, HoldInv
<1>10. PlaceInv'
  BY <1>2, <1>3, <1>4, <1>5, <1>6 DEF PoolInv, WorkerVars, PlaceInv
<1>11. OutcomeInv'
  BY <1>1, <1>2, <1>3, <1>4, <1>5 DEF PoolInv, WorkerVars, OutcomeInv
<1>12. StopInv'
  BY <1>1, <1>5 DEF PoolInv, WorkerVars, StopInv, WorkersGone, Drained
<1> QED
  BY <1>8, <1>9, <1>10, <1>11, <1>12 DEF PoolInv

(* A worker drops its result only after the cancellation.                  *)
LEMMA WorkerSendCtxDonePoolInv ==
  ASSUME PoolInv, NEW w \in Workers, WorkerSendCtxDone(w)
  PROVE  PoolInv'
<1>1. /\ worker[w] = "send" /\ worker'[w] = "exited" /\ runDone
      /\ worker' \in [Workers -> {"select", "process", "send", "exited"}]
      /\ \A v \in Workers \ {w} : worker'[v] = worker[v]
  BY DEF PoolInv, TypeOK, WorkerSendCtxDone
<1>2. /\ held' \in [Workers -> Tasks \cup {NoTask}] /\ held'[w] = NoTask
      /\ \A v \in Workers \ {w} : held'[v] = held[v]
  BY DEF PoolInv, TypeOK, WorkerSendCtxDone
<1>3. UNCHANGED <<WorkerVars, taskCh, resultCh, stats, outcome>>
  BY DEF WorkerSendCtxDone
<1>4. TypeOK' /\ HoldInv'
  BY <1>1, <1>2, <1>3 DEF PoolInv, TypeOK, WorkerVars, HoldInv
<1>5. PlaceInv'
  BY <1>1, <1>2, <1>3 DEF PoolInv, WorkerVars, PlaceInv
<1>6. OutcomeInv'
  BY <1>1, <1>2, <1>3 DEF PoolInv, WorkerVars, OutcomeInv
<1>7. StopInv'
  BY <1>1, <1>3 DEF PoolInv, WorkerVars, StopInv, WorkersGone, Drained
<1> QED
  BY <1>4, <1>5, <1>6, <1>7 DEF PoolInv

(* Every step of a worker preserves the invariant.                         *)
LEMMA WorkerPoolInv ==
  ASSUME PoolInv, NEW w \in Workers, Worker(w)
  PROVE  PoolInv'
BY WorkerTakePoolInv, WorkerLeavesPoolInv, WorkerProcessPoolInv,
   WorkerSendPoolInv, WorkerSendCtxDonePoolInv DEF Worker

(* The watcher closes the results only after it has seen every worker go.  *)
LEMMA WatcherPoolInv ==
  ASSUME PoolInv, Watcher
  PROVE  PoolInv'
<1>1. UNCHANGED WatcherVars
  BY DEF Watcher, WatcherWait, WatcherClose
<1>2. TypeOK' /\ HoldInv' /\ PlaceInv' /\ OutcomeInv'
  <2>1. TypeOK'
    BY <1>1 DEF PoolInv, TypeOK, WatcherVars, Watcher, WatcherWait, WatcherClose
  <2>2. HoldInv' /\ OutcomeInv'
    BY <1>1 DEF PoolInv, WatcherVars, HoldInv, OutcomeInv
  <2>3. PlaceInv'
    BY <1>1 DEF PoolInv, WatcherVars, PlaceInv
  <2> QED
    BY <2>1, <2>2, <2>3
<1>3. StopInv'
  BY <1>1 DEF PoolInv, TypeOK, WatcherVars, StopInv, WorkersGone, Drained,
              Watcher, WatcherWait, WatcherClose
<1> QED
  BY <1>2, <1>3 DEF PoolInv

(* The consumer receives a result it has not received before.              *)
LEMMA ReceivePoolInv ==
  ASSUME PoolInv, NEW t \in Tasks, Receive(t)
  PROVE  PoolInv'
<1>1. /\ t \in resultCh /\ resultCh' = resultCh \ {t}
      /\ resultCh \in SUBSET Tasks /\ Cardinality(resultCh) <= QueueSize
  BY DEF PoolInv, TypeOK, Receive
<1>2. received[t] = 0
  BY <1>1 DEF PoolInv, PlaceInv
<1>3. /\ received' \in [Tasks -> Nat] /\ received'[t] = 1
      /\ \A s \in Tasks \ {t} : received'[s] = received[s]
  BY <1>2 DEF PoolInv, TypeOK, Receive
<1>4. UNCHANGED <<taskCh, taskClosed, resultClosed, stopped, once, stats, outcome,
                 submit, worker, held, watcher, runDone, submitDone>>
  BY DEF Receive
<1>5. Cardinality(resultCh') <= QueueSize
  BY <1>1, TakeFits
<1>6. TypeOK' /\ HoldInv' /\ OutcomeInv'
  BY <1>1, <1>3, <1>4, <1>5 DEF PoolInv, TypeOK, HoldInv, OutcomeInv
<1>7. PlaceInv'
  BY <1>1, <1>2, <1>3, <1>4 DEF PoolInv, PlaceInv
<1>8. StopInv'
  BY <1>4 DEF PoolInv, StopInv, WorkersGone, Drained
<1> QED
  BY <1>6, <1>7, <1>8 DEF PoolInv

(* A context may be cancelled at any time.                                 *)
LEMMA CancelPoolInv ==
  ASSUME PoolInv, UNCHANGED CtxVars, runDone' \in BOOLEAN, submitDone' \in BOOLEAN,
         runDone => runDone'
  PROVE  PoolInv'
<1>1. TypeOK' /\ HoldInv' /\ PlaceInv' /\ OutcomeInv'
  BY DEF PoolInv, TypeOK, CtxVars, HoldInv, PlaceInv, OutcomeInv
<1>2. StopInv'
  BY DEF PoolInv, TypeOK, CtxVars, StopInv, WorkersGone, Drained
<1> QED
  BY <1>1, <1>2 DEF PoolInv

-----------------------------------------------------------------------------
(* At most one worker holds a task.                                        *)
LEMMA HeldByOne ==
  ASSUME PoolInv, NEW t \in Tasks
  PROVE  /\ Cardinality(HeldBy(t)) \in {0, 1}
         /\ Cardinality(HeldBy(t)) = 0 <=> \A w \in Workers : held[w] # t
<1>1. CASE \A w \in Workers : held[w] # t
  <2>1. HeldBy(t) = {}
    BY <1>1 DEF HeldBy
  <2> QED
    BY <1>1, <2>1, FS_EmptySet
<1>2. CASE \E w \in Workers : held[w] = t
  <2>1. PICK w \in Workers : held[w] = t
    BY <1>2
  <2>2. HeldBy(t) = {w}
    BY <2>1 DEF PoolInv, HoldInv, HeldBy
  <2>3. Cardinality(HeldBy(t)) = 1
    BY <2>2, FS_Singleton
  <2> QED
    BY <1>2, <2>3
<1> QED
  BY <1>1, <1>2

(* The invariant implies that no task is duplicated or dropped.            *)
LEMMA PoolInvExactlyOnce == PoolInv => ExactlyOnce
<1> SUFFICES ASSUME PoolInv, NEW t \in Tasks
             PROVE  /\ Places(t) <= 1
                    /\ submit[t] = "nil" /\ Places(t) = 0 => runDone
                    /\ submit[t] # "nil" => Places(t) = 0
  BY DEF ExactlyOnce
<1> DEFINE h == Cardinality(HeldBy(t))
<1>1. h \in {0, 1} /\ (h = 0 <=> \A w \in Workers : held[w] # t)
  BY HeldByOne
<1>2. Places(t) = (IF t \in taskCh THEN 1 ELSE 0) + h
                  + (IF t \in resultCh THEN 1 ELSE 0) + received[t]
  BY DEF Places
<1> HIDE DEF h
<1> QED
  BY <1>1, <1>2 DEF PoolInv, PlaceInv

(* The invariant implies that no worker is left when the results close.    *)
LEMMA PoolInvNoSendOnClosed == PoolInv => NoSendOnClosed
BY DEF PoolInv, StopInv, NoSendOnClosed
=============================================================================
