----------------------------- MODULE ManagerSpec -----------------------------
(***************************************************************************)
(* The job registry under the contract of its callers: any request may     *)
(* Start a job, any client may poll any id at any time, and the one        *)
(* goroutine launched for a started job sets the total, counts issues and  *)
(* calls Complete or Fail once (SyncService shows that sync.go keeps this  *)
(* contract).                                                              *)
(***************************************************************************)
EXTENDS Manager

CONSTANTS
  MaxTime,       \* bound on the clock
  MaxTotal,      \* bound on the total reported by Jira
  MaxProcessed   \* bound on the issues one job counts

ASSUME BoundsAssumption ==
  MaxTime \in Nat /\ MaxTotal \in Nat /\ MaxProcessed \in Nat

VARIABLES
  runner,   \* per job, where its goroutine is
  calls     \* history: calls of IncrProcessed made for each job

vars == <<byID, byKey, job, now, mu, snap, runner, calls>>

(* none: not launched; fresh: no search answered yet; total, incr: between *)
(* the lookup and the store of SetTotal, IncrProcessed; counting: between  *)
(* calls; exited: after Complete or Fail.                                  *)
RunnerStates == {"none", "fresh", "total", "counting", "incr", "exited"}
Alive == {"fresh", "total", "counting", "incr"}

Init == /\ NewManager
        /\ runner = [id \in SyncIDs |-> "none"]
        /\ calls = [id \in SyncIDs |-> 0]

Goto(id, pc) == runner' = [runner EXCEPT ![id] = pc]

StartSync(k, id) == StartNew(k, id) /\ Goto(id, "fresh") /\ UNCHANGED calls

JoinSync(k) == StartExisting(k) /\ UNCHANGED <<runner, calls>>

(* SetTotal is called once, after the first search answer.                 *)
SetTotalLookup(id) ==
  /\ runner[id] = "fresh"
  /\ mu = Free
  /\ Goto(id, IF Lookup(id) THEN "total" ELSE "counting")
  /\ UNCHANGED <<registry, now, mu, snap, calls>>

SetTotalStore(id) ==
  /\ runner[id] = "total"
  /\ \E total \in 0..MaxTotal : StoreTotal(id, total)
  /\ Goto(id, "counting")
  /\ UNCHANGED calls

(* Issues only arrive with an answer whose total is positive.              *)
IncrProcessedLookup(id) ==
  /\ runner[id] = "counting"
  /\ mu = Free
  /\ job[id].total > 0
  /\ calls[id] < MaxProcessed
  /\ calls' = [calls EXCEPT ![id] = @ + 1]
  /\ Goto(id, IF Lookup(id) THEN "incr" ELSE "counting")
  /\ UNCHANGED <<registry, now, mu, snap>>

IncrProcessedAdd(id) ==
  /\ runner[id] = "incr"
  /\ AddProcessed(id)
  /\ Goto(id, "counting")
  /\ UNCHANGED calls

CompleteSync(id) ==
  /\ runner[id] = "counting"
  /\ Complete(id)
  /\ Goto(id, "exited")
  /\ UNCHANGED calls

(* Variant: no return after Fail, so Complete follows.                     *)
FailSyncFallsThrough(id) ==
  /\ runner[id] \in {"fresh", "counting"}
  /\ Fail(id)
  /\ Goto(id, "counting")
  /\ UNCHANGED calls

FailSync(id) ==
  /\ runner[id] \in {"fresh", "counting"}
  /\ Fail(id)
  /\ Goto(id, "exited")
  /\ UNCHANGED calls

Poll(c) ==
  /\ \/ \E id \in SyncIDs : StatusUnknown(c, id) \/ StatusLoadState(c, id)
     \/ StatusLoadProcessed(c)
     \/ StatusLoadTotal(c)
  /\ UNCHANGED <<runner, calls>>

Clock == now < MaxTime /\ Tick /\ UNCHANGED <<runner, calls>>

Next ==
  \/ \E k \in Keys : JoinSync(k) \/ \E id \in SyncIDs : StartSync(k, id)
  \/ \E id \in SyncIDs :
       \/ SetTotalLookup(id) \/ SetTotalStore(id)
       \/ IncrProcessedLookup(id) \/ IncrProcessedAdd(id)
       \/ CompleteSync(id) \/ FailSync(id)
  \/ \E c \in Clients : Poll(c)
  \/ Clock

Spec == Init /\ [][Next]_vars

-----------------------------------------------------------------------------
(* Every variable keeps its type.                                          *)
TypeOK ==
  /\ byID \subseteq SyncIDs
  /\ byKey \in [Keys -> SyncIDs \cup {NoJob}]
  /\ job \in [SyncIDs -> Job]
  /\ now \in Nat
  /\ mu \in Clients \cup {Free}
  /\ snap \in [Clients -> Snapshot]
  /\ runner \in [SyncIDs -> RunnerStates]
  /\ calls \in [SyncIDs -> Nat]

(* Deduplication (manager.go: "one running job per project key", byKey     *)
(* holds "only Running jobs"): byKey lists exactly the running jobs, each  *)
(* under its own key, and a job runs exactly while its goroutine is alive. *)
(* Finishing an old job never unregisters the one that replaced it.        *)
ByKeyExactlyRunning ==
  \A id \in SyncIDs :
    /\ job[id].state = JobStateRunning <=> runner[id] \in Alive
    /\ \A k \in Keys : byKey[k] = id <=> /\ job[id].state = JobStateRunning
                                         /\ job[id].projectKey = k

(* jobTTL is how long an ended job stays visible "so callers can poll the  *)
(* final status": a job that cannot be found any more has ended, and has   *)
(* done so at least jobTTL ago; a running job can always be found.         *)
FindableUntilTTL ==
  \A id \in SyncIDs :
    (Born(id) /\ id \notin byID) =>
      /\ job[id].state \in Terminal
      /\ now - job[id].finishedAt >= JobTTL

(* No call of IncrProcessed is lost between its lookup and its store: the  *)
(* counter equals the calls made, but for the one still on its way, and    *)
(* none is on its way once the job has ended.                              *)
NoLostProgress ==
  \A id \in SyncIDs :
    calls[id] = job[id].processed + (IF runner[id] = "incr" THEN 1 ELSE 0)

(* A snapshot is assembled from several loads while the counters move, yet *)
(* what Status returns is never torn: progress is never reported without a *)
(* total, an error text comes with the failed state only, and a terminal   *)
(* state comes with the job's final counters.                              *)
SnapshotNotTorn ==
  \A c \in Clients :
    LET s == snap[c] IN
    s.ok = "yes" =>
      /\ s.processed > 0 => s.total > 0
      /\ s.state = JobStateFailed <=> s.errMsg = ErrMsg
      /\ s.state \in Terminal => /\ s.state = job[s.id].state
                                 /\ s.processed = job[s.id].processed
                                 /\ s.total = job[s.id].total

(* Once ended, a job is frozen: neither its state, its counters, its error *)
(* nor its finish time changes again, although the goroutine and the       *)
(* registry keep pointers to it; and an evicted id never comes back.       *)
TerminalIsFinal ==
  [][\A id \in SyncIDs :
       job[id].state \in Terminal =>
         /\ job'[id] = job[id]
         /\ id \notin byID => id \notin byID']_vars

-----------------------------------------------------------------------------
(* The registry as an implementation of SyncJobs: the life cycle of a job  *)
(* is its state, until it can no longer be looked up.                      *)
StatusOf(id) ==
  CASE job[id].state = JobStateNone -> "unborn"
    [] job[id].state = JobStateRunning -> "running"
    [] job[id].state \in Terminal /\ id \notin byID -> "forgotten"
    [] job[id].state = JobStateCompleted /\ id \in byID -> "completed"
    [] job[id].state = JobStateFailed /\ id \in byID -> "failed"

OwnerOf(id) == IF Born(id) THEN {job[id].projectKey} ELSE {}

Jobs == INSTANCE SyncJobs WITH
  status <- [id \in SyncIDs |-> StatusOf(id)],
  owner  <- [id \in SyncIDs |-> OwnerOf(id)]

(* Every step of the registry is a step of SyncJobs or changes nothing     *)
(* there: a request never starts a second job for a key and never drops a  *)
(* running one, a job ends once, and only ended jobs are forgotten.        *)
ImplementsSyncJobs == Jobs!Spec
=============================================================================
