----------------------------- MODULE WorkerPool ------------------------------
(***************************************************************************)
(* internal/workerpool/workerpool.go: a fixed set of workers between two   *)
(* bounded channels.  One Submit call per task, any number of them at the  *)
(* same time; Stop and the cancellation of the two contexts may come at    *)
(* any moment.                                                             *)
(*                                                                         *)
(* A channel is the set of tasks in its buffer (tasks are distinct, and    *)
(* nothing here depends on the order in which they leave it) and a flag    *)
(* that says whether it is closed.                                         *)
(***************************************************************************)
EXTENDS Integers, FiniteSets

CONSTANTS
  Workers,    \* workerCount goroutines
  Tasks,      \* the tasks that may be submitted, each once
  QueueSize,  \* capacity of both channels
  NoTask      \* a worker that holds no task

ASSUME PoolAssumption ==
  /\ QueueSize \in Nat \ {0}
  /\ NoTask \notin Tasks
  /\ IsFiniteSet(Tasks)
  /\ Workers # {}

VARIABLES
  taskCh, taskClosed,      \* wp.taskCh
  resultCh, resultClosed,  \* wp.resultCh
  stopped,                 \* wp.stopped
  once,                    \* wp.once: new, running or done
  stats,                   \* wp.stats
  outcome,                 \* what Process returned for each task
  submit,                  \* where the Submit call of each task is
  worker,                  \* where each worker is
  held,                    \* the task each worker works on
  watcher,                 \* the goroutine that closes resultCh
  runDone, submitDone,     \* the contexts of Run and of Submit are cancelled
  received                 \* history: how often each result was received

poolVars == <<taskCh, taskClosed, resultCh, resultClosed, stopped, once, stats,
              outcome, submit, worker, held, watcher, runDone, submitDone,
              received>>

Rejections == {"errPoolStopped", "errSubmitPanic", "ctxErr"}

(* New and Run.                                                            *)
NewAndRun ==
  /\ taskCh = {} /\ taskClosed = FALSE
  /\ resultCh = {} /\ resultClosed = FALSE
  /\ stopped = FALSE
  /\ once = "new"
  /\ stats = [Processed |-> 0, Failed |-> 0]
  /\ outcome = [t \in Tasks |-> "none"]
  /\ submit = [t \in Tasks |-> "idle"]
  /\ worker = [w \in Workers |-> "select"]
  /\ held = [w \in Workers |-> NoTask]
  /\ watcher = "wait"
  /\ runDone = FALSE /\ submitDone = FALSE
  /\ received = [t \in Tasks |-> 0]

HasRoom(ch) == Cardinality(ch) < QueueSize

-----------------------------------------------------------------------------
(* Submit: the check of stopped, then the select.                          *)
SubmitVars == <<taskClosed, resultCh, resultClosed, stopped, once, stats,
                outcome, worker, held, watcher, runDone, submitDone, received>>

SubmitCheck(t) ==
  /\ submit[t] = "idle"
  /\ submit' = [submit EXCEPT ![t] = IF stopped THEN "errPoolStopped"
                                                ELSE "select"]
  /\ UNCHANGED <<SubmitVars, taskCh>>

(* Variant: the send does not wait for room.                               *)
SubmitSendUnbounded(t) ==
  /\ submit[t] = "select"
  /\ ~taskClosed
  /\ taskCh' = taskCh \cup {t}
  /\ submit' = [submit EXCEPT ![t] = "nil"]
  /\ UNCHANGED SubmitVars

SubmitSend(t) ==
  /\ submit[t] = "select"
  /\ ~taskClosed
  /\ HasRoom(taskCh)
  /\ taskCh' = taskCh \cup {t}
  /\ submit' = [submit EXCEPT ![t] = "nil"]
  /\ UNCHANGED SubmitVars

SubmitCtxDone(t) ==
  /\ submit[t] = "select"
  /\ submitDone
  /\ submit' = [submit EXCEPT ![t] = "ctxErr"]
  /\ UNCHANGED <<SubmitVars, taskCh>>

(* A send on the closed channel panics; the deferred recover turns it into *)
(* an error.                                                               *)
SubmitPanic(t) ==
  /\ submit[t] = "select"
  /\ taskClosed
  /\ submit' = [submit EXCEPT ![t] = "errSubmitPanic"]
  /\ UNCHANGED <<SubmitVars, taskCh>>

(* Stop: once.Do stores the flag, then closes the channel.  Later calls    *)
(* change nothing.                                                         *)
StopVars == <<taskCh, resultCh, resultClosed, stats, outcome, submit, worker,
              held, watcher, runDone, submitDone, received>>

StopStore ==
  /\ once = "new"
  /\ once' = "running"
  /\ stopped' = TRUE
  /\ UNCHANGED <<StopVars, taskClosed>>

(* Variant: Stop also closes the results.                                  *)
StopClosesResults ==
  /\ once = "running"
  /\ once' = "done"
  /\ taskClosed' = TRUE /\ resultClosed' = TRUE
  /\ UNCHANGED <<taskCh, resultCh, stats, outcome, submit, worker, held, watcher,
                 runDone, submitDone, received, stopped>>

(* Variant: Stop only sets the flag.                                       *)
StopOnlyFlags ==
  /\ once = "running"
  /\ once' = "done"
  /\ UNCHANGED <<StopVars, stopped, taskClosed>>

StopClose ==
  /\ once = "running"
  /\ once' = "done"
  /\ taskClosed' = TRUE
  /\ UNCHANGED <<StopVars, stopped>>

-----------------------------------------------------------------------------
(* worker: select, Process, stats, then send the result.                   *)
WorkerVars == <<taskClosed, resultClosed, stopped, once, submit, watcher,
                runDone, submitDone, received>>

WorkerTake(w) ==
  /\ worker[w] = "select"
  /\ \E t \in taskCh :
       /\ taskCh' = taskCh \ {t}
       /\ held' = [held EXCEPT ![w] = t]
  /\ worker' = [worker EXCEPT ![w] = "process"]
  /\ UNCHANGED <<WorkerVars, resultCh, stats, outcome>>

(* A closed channel still yields what is in its buffer; only then ok=false. *)
Drained == taskClosed /\ taskCh = {}

WorkerTaskChClosed(w) ==
  /\ worker[w] = "select"
  /\ Drained
  /\ worker' = [worker EXCEPT ![w] = "exited"]
  /\ UNCHANGED <<WorkerVars, taskCh, resultCh, stats, outcome, held>>

WorkerCtxDone(w) ==
  /\ worker[w] = "select"
  /\ runDone
  /\ worker' = [worker EXCEPT ![w] = "exited"]
  /\ UNCHANGED <<WorkerVars, taskCh, resultCh, stats, outcome, held>>

WorkerProcess(w) ==
  /\ worker[w] = "process"
  /\ \/ /\ outcome' = [outcome EXCEPT ![held[w]] = "ok"]
        /\ stats' = [stats EXCEPT !.Processed = @ + 1]
     \/ /\ outcome' = [outcome EXCEPT ![held[w]] = "err"]
        /\ stats' = [stats EXCEPT !.Failed = @ + 1]
  /\ worker' = [worker EXCEPT ![w] = "send"]
  /\ UNCHANGED <<WorkerVars, taskCh, resultCh, held>>

WorkerSend(w) ==
  /\ worker[w] = "send"
  /\ HasRoom(resultCh)
  /\ resultCh' = resultCh \cup {held[w]}
  /\ held' = [held EXCEPT ![w] = NoTask]
  /\ worker' = [worker EXCEPT ![w] = "select"]
  /\ UNCHANGED <<WorkerVars, taskCh, stats, outcome>>

(* Variant: a full result channel makes the worker drop its result.        *)
WorkerSendDropsWhenFull(w) ==
  /\ worker[w] = "send"
  /\ ~HasRoom(resultCh)
  /\ held' = [held EXCEPT ![w] = NoTask]
  /\ worker' = [worker EXCEPT ![w] = "select"]
  /\ UNCHANGED <<WorkerVars, taskCh, resultCh, stats, outcome>>

WorkerSendCtxDone(w) ==
  /\ worker[w] = "send"
  /\ runDone
  /\ held' = [held EXCEPT ![w] = NoTask]
  /\ worker' = [worker EXCEPT ![w] = "exited"]
  /\ UNCHANGED <<WorkerVars, taskCh, resultCh, stats, outcome>>

(* The watcher of Run: workerWG.Wait, stopped, close(resultCh).            *)
WatcherVars == <<taskCh, taskClosed, resultCh, once, stats, outcome, submit,
                 worker, held, runDone, submitDone, received>>

WorkersGone == \A w \in Workers : worker[w] = "exited"

(* Variant: the watcher waits for the tasks to be taken, not processed.    *)
WatcherWaitDrained ==
  /\ watcher = "wait"
  /\ Drained
  /\ watcher' = "close"
  /\ stopped' = TRUE
  /\ UNCHANGED <<WatcherVars, resultClosed>>

WatcherWait ==
  /\ watcher = "wait"
  /\ WorkersGone
  /\ watcher' = "close"
  /\ stopped' = TRUE
  /\ UNCHANGED <<WatcherVars, resultClosed>>

WatcherClose ==
  /\ watcher = "close"
  /\ watcher' = "exited"
  /\ resultClosed' = TRUE
  /\ UNCHANGED <<WatcherVars, stopped>>

-----------------------------------------------------------------------------
(* The caller's side: the consumer ranges over the results, the contexts   *)
(* are cancelled from outside.                                             *)
Receive(t) ==
  /\ t \in resultCh
  /\ resultCh' = resultCh \ {t}
  /\ received' = [received EXCEPT ![t] = @ + 1]
  /\ UNCHANGED <<taskCh, taskClosed, resultClosed, stopped, once, stats, outcome,
                 submit, worker, held, watcher, runDone, submitDone>>

CtxVars == <<taskCh, taskClosed, resultCh, resultClosed, stopped, once, stats,
             outcome, submit, worker, held, watcher, received>>

CancelRun    == ~runDone /\ runDone' = TRUE /\ UNCHANGED <<CtxVars, submitDone>>
CancelSubmit == ~submitDone /\ submitDone' = TRUE /\ UNCHANGED <<CtxVars, runDone>>

Submit(t) == SubmitSend(t) \/ SubmitCtxDone(t) \/ SubmitPanic(t)
Stop == StopStore \/ StopClose
Worker(w) == \/ WorkerTake(w) \/ WorkerTaskChClosed(w) \/ WorkerCtxDone(w)
             \/ WorkerProcess(w) \/ WorkerSend(w) \/ WorkerSendCtxDone(w)
Watcher == WatcherWait \/ WatcherClose

-----------------------------------------------------------------------------
(* Every variable keeps its type, and no channel exceeds its capacity.     *)
TypeOK ==
  /\ taskCh \in SUBSET Tasks /\ Cardinality(taskCh) <= QueueSize
  /\ resultCh \in SUBSET Tasks /\ Cardinality(resultCh) <= QueueSize
  /\ taskClosed \in BOOLEAN /\ resultClosed \in BOOLEAN /\ stopped \in BOOLEAN
  /\ once \in {"new", "running", "done"}
  /\ stats \in [Processed : Nat, Failed : Nat]
  /\ outcome \in [Tasks -> {"none", "ok", "err"}]
  /\ submit \in [Tasks -> {"idle", "select", "nil"} \cup Rejections]
  /\ worker \in [Workers -> {"select", "process", "send", "exited"}]
  /\ held \in [Workers -> Tasks \cup {NoTask}]
  /\ watcher \in {"wait", "close", "exited"}
  /\ runDone \in BOOLEAN /\ submitDone \in BOOLEAN
  /\ received \in [Tasks -> Nat]

HeldBy(t) == {w \in Workers : held[w] = t}

(* Where a task is: the places are disjoint when their number is one.      *)
Places(t) == (IF t \in taskCh THEN 1 ELSE 0) + Cardinality(HeldBy(t))
             + (IF t \in resultCh THEN 1 ELSE 0) + received[t]

(* A task is handed from channel to worker to channel to consumer without  *)
(* being duplicated, and is dropped only after Run's context is cancelled. *)
(* A task whose Submit returned an error (also the recovered panic of a    *)
(* Submit racing with Stop) is never worked on: callers may submit it      *)
(* elsewhere.                                                              *)
ExactlyOnce ==
  \A t \in Tasks :
    /\ Places(t) <= 1
    /\ submit[t] = "nil" /\ Places(t) = 0 => runDone
    /\ submit[t] # "nil" => Places(t) = 0

(* "Close resultCh only after every worker has exited to prevent send on   *)
(* closed channel panics": no worker can still reach its send once the     *)
(* channel is closed, whatever made the workers stop.                      *)
NoSendOnClosed == resultClosed => WorkersGone
=============================================================================
