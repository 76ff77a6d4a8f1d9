------------------------------- MODULE Manager -------------------------------
(***************************************************************************)
(* The in-memory registry of sync jobs, internal/service/sync/manager.go.  *)
(*                                                                         *)
(* This module holds the registry's state and one operator per method.     *)
(* The operators carry no assumption about who calls them or how often:    *)
(* ManagerSpec closes them with the contract of their callers, and         *)
(* SyncService drives them with the code that really calls them.           *)
(*                                                                         *)
(* Start, Complete and Fail run from Lock to Unlock and read nothing that  *)
(* changes outside the lock, so each is one step.  SetTotal and            *)
(* IncrProcessed touch the job after Unlock, through the pointer they      *)
(* looked up, so each is a lookup step and a store step.  Status copies    *)
(* the job field by field under the lock while the counters move, so it is *)
(* one step per field that can move.                                       *)
(***************************************************************************)
EXTENDS Integers, FiniteSets

CONSTANTS
  Keys,      \* project keys
  SyncIDs,   \* the uuids handed out by uuid.NewString, each at most once
  Clients,   \* goroutines inside Manager.Status
  NoJob,     \* absent entry of the byKey map
  Free,      \* the mutex is not held
  JobTTL     \* jobTTL, in clock ticks

ASSUME ManagerAssumption ==
  /\ NoJob \notin SyncIDs
  /\ Free \notin Clients
  /\ JobTTL \in Nat \ {0}

VARIABLES
  byID,   \* m.byID: ids whose job can be looked up
  byKey,  \* m.byKey: for each project key the id of its running job, or NoJob
  job,    \* the job structs, also those only reachable through a held pointer
  now,    \* time.Now()
  mu,     \* m.mu: a client inside Status, or Free
  snap    \* per client, the JobSnapshot being filled or last returned

registry == <<byID, byKey, job>>

(* JobState; 0 is the zero value of a job that does not exist yet.         *)
JobStateNone      == 0
JobStateRunning   == 1
JobStateCompleted == 2
JobStateFailed    == 3
JobStates == {JobStateNone, JobStateRunning, JobStateCompleted, JobStateFailed}
Terminal  == {JobStateCompleted, JobStateFailed}

NoMsg  == "none"
ErrMsg == "error"

NoKey  == ""

Job == [projectKey : Keys \cup {NoKey}, state : JobStates, processed : Nat, total : Nat,
        errMsg : {NoMsg, ErrMsg}, finishedAt : Nat]

(* What NewManager and Start leave in a fresh struct.  finishedAt is the   *)
(* zero time, which lies further back than jobTTL from any reading of the  *)
(* clock: the clock below starts at JobTTL.                                *)
NewJob(k, s) == [projectKey |-> k, state |-> s, processed |-> 0, total |-> 0,
                 errMsg |-> NoMsg, finishedAt |-> 0]

Snapshot == [pc : {"idle", "state", "processed"}, id : SyncIDs \cup {NoJob},
             ok : {"yes", "no"},
             state : JobStates, processed : Nat, total : Nat,
             errMsg : {NoMsg, ErrMsg}]

NotFound(id) == [pc |-> "idle", id |-> id, ok |-> "no",
                 state |-> JobStateNone, processed |-> 0, total |-> 0, errMsg |-> NoMsg]

Born(id) == job[id].state # JobStateNone

NewManager ==
  /\ byID  = {}
  /\ byKey = [k \in Keys |-> NoJob]
  /\ job = [id \in SyncIDs |-> NewJob(NoKey, JobStateNone)]
  /\ now = JobTTL
  /\ mu = Free
  /\ snap = [c \in Clients |-> NotFound(NoJob)]

-----------------------------------------------------------------------------
(* Variant: the sweep does not skip running jobs.                          *)
ExpiredEvenRunning(id) == now - job[id].finishedAt >= JobTTL

(* evictExpiredLocked: the ids that survive the sweep.                     *)
Expired(id) == /\ job[id].state # JobStateRunning
               /\ now - job[id].finishedAt >= JobTTL
evictExpiredLocked == {id \in byID : ~Expired(id)}

(* Start, when the key already has a running job: Started=false, and the   *)
(* caller gets the id byKey[k].  The sweep has happened all the same.      *)
StartExisting(k) ==
  /\ mu = Free
  /\ byKey[k] # NoJob
  /\ byID' = evictExpiredLocked
  /\ UNCHANGED <<byKey, job, now, mu, snap>>

(* Variant: the check of byKey is missing.                                 *)
StartNewUnchecked(k, id) ==
  /\ mu = Free
  /\ ~Born(id)
  /\ byID'  = evictExpiredLocked \cup {id}
  /\ byKey' = [byKey EXCEPT ![k] = id]
  /\ job'   = [job EXCEPT ![id] = NewJob(k, JobStateRunning)]
  /\ UNCHANGED <<now, mu, snap>>

(* Start, when it registers a new job under the fresh id: Started=true.    *)
StartNew(k, id) ==
  /\ mu = Free
  /\ byKey[k] = NoJob
  /\ ~Born(id)
  /\ byID'  = evictExpiredLocked \cup {id}
  /\ byKey' = [byKey EXCEPT ![k] = id]
  /\ job'   = [job EXCEPT ![id] = NewJob(k, JobStateRunning)]
  /\ UNCHANGED <<now, mu, snap>>

(* SetTotal and IncrProcessed, the part under the lock: can id be found?   *)
Lookup(id) == mu = Free /\ id \in byID

(* Variant: the issues left after the current one, below zero for none.    *)
StoreRemaining(id, total) ==
  /\ job' = [job EXCEPT ![id] = [@ EXCEPT !.total = total - 1]]
  /\ UNCHANGED <<byID, byKey, now, mu, snap>>

(* SetTotal, after Unlock: found.total.Store(total).                       *)
StoreTotal(id, total) ==
  /\ job' = [job EXCEPT ![id] = [@ EXCEPT !.total = total]]
  /\ UNCHANGED <<byID, byKey, now, mu, snap>>

(* IncrProcessed, after Unlock: found.processed.Add(1).                    *)
AddProcessed(id) ==
  /\ job' = [job EXCEPT ![id] = [@ EXCEPT !.processed = job[id].processed + 1]]
  /\ UNCHANGED <<byID, byKey, now, mu, snap>>

(* Variant: Complete leaves the key registered.                            *)
CompleteKeepsKey(id) ==
  /\ mu = Free
  /\ job' = IF id \in byID
              THEN [job EXCEPT ![id] = [@ EXCEPT !.state = JobStateCompleted,
                                                 !.finishedAt = now]]
              ELSE job
  /\ UNCHANGED <<byID, byKey, now, mu, snap>>

(* Complete and Fail: nothing happens when the id is unknown.              *)
Complete(id) ==
  /\ mu = Free
  /\ IF id \in byID
       THEN /\ job'   = [job EXCEPT ![id] =
                          [@ EXCEPT !.state = JobStateCompleted,
                                    !.finishedAt = now]]
            /\ byKey' = [byKey EXCEPT ![job[id].projectKey] = NoJob]
       ELSE UNCHANGED <<job, byKey>>
  /\ UNCHANGED <<byID, now, mu, snap>>

Fail(id) ==
  /\ mu = Free
  /\ IF id \in byID
       THEN /\ job'   = [job EXCEPT ![id] =
                          [@ EXCEPT !.state = JobStateFailed,
                                    !.errMsg = ErrMsg,
                                    !.finishedAt = now]]
            /\ byKey' = [byKey EXCEPT ![job[id].projectKey] = NoJob]
       ELSE UNCHANGED <<job, byKey>>
  /\ UNCHANGED <<byID, now, mu, snap>>

-----------------------------------------------------------------------------
(* Status and job.snapshot: the lock is taken, then state, processed and   *)
(* total are loaded one after the other; errMsg only changes under the     *)
(* lock, so it is copied with the last counter.                            *)
StatusUnknown(c, id) ==
  /\ mu = Free
  /\ id \notin byID
  /\ snap' = [snap EXCEPT ![c] = NotFound(id)]
  /\ UNCHANGED <<registry, now, mu>>

(* Variant: Status does not hold the lock while it copies.                 *)
StatusLoadStateUnlocked(c, id) ==
  /\ mu = Free
  /\ id \in byID
  /\ snap' = [snap EXCEPT ![c] = [NotFound(id) EXCEPT !.pc = "state",
                                                     !.state = job[id].state]]
  /\ UNCHANGED <<registry, now, mu>>

StatusLoadState(c, id) ==
  /\ mu = Free
  /\ id \in byID
  /\ mu' = c
  /\ snap' = [snap EXCEPT ![c] = [NotFound(id) EXCEPT !.pc = "state",
                                                     !.state = job[id].state]]
  /\ UNCHANGED <<registry, now>>

StatusLoadProcessed(c) ==
  /\ snap[c].pc = "state"
  /\ snap' = [snap EXCEPT ![c] =
               [@ EXCEPT !.pc = "processed",
                         !.processed = job[snap[c].id].processed]]
  /\ UNCHANGED <<registry, now, mu>>

StatusLoadTotal(c) ==
  /\ snap[c].pc = "processed"
  /\ mu' = Free
  /\ snap' = [snap EXCEPT ![c] =
               [@ EXCEPT !.pc = "idle", !.ok = "yes",
                         !.total = job[snap[c].id].total,
                         !.errMsg = job[snap[c].id].errMsg]]
  /\ UNCHANGED <<registry, now>>

Tick == now' = now + 1 /\ UNCHANGED <<registry, mu, snap>>
=============================================================================
