---------------------------- MODULE ManagerProofs ----------------------------
(***************************************************************************)
(* Proofs about the job registry, for any number of keys, jobs and polling *)
(* clients and any bounds.                                                 *)
(*                                                                         *)
(* None of the properties is inductive by itself: that finishing a job     *)
(* frees the right entry of byKey needs that a running job is registered   *)
(* under its own key and can be looked up; that a snapshot is not torn     *)
(* needs that a job's state cannot move while a client holds the lock and  *)
(* that its counters only grow.  IInv collects these facts.                *)
(***************************************************************************)
EXTENDS ManagerSpec, TLAPS

(* The state of a job, its goroutine and the map byID agree.               *)
JobsInv ==
  \A id \in SyncIDs :
    /\ job[id].state = JobStateNone <=> runner[id] = "none"
    /\ job[id].state = JobStateRunning <=> runner[id] \in Alive
    /\ job[id].state = JobStateRunning => id \in byID
    /\ job[id].state = JobStateNone => id \notin byID
    /\ job[id].state # JobStateNone => job[id].projectKey \in Keys
    /\ job[id].errMsg = ErrMsg <=> job[id].state = JobStateFailed

(* Progress is counted only once the total is known to be positive.        *)
CountersInv ==
  \A id \in SyncIDs :
    /\ job[id].processed > 0 => job[id].total > 0
    /\ runner[id] \in {"none", "fresh", "total"} => job[id].processed = 0
    /\ runner[id] = "incr" => job[id].total > 0

(* A client is inside Status exactly while it holds the lock, and what it  *)
(* has copied so far is still true of the job.                             *)
LockInv ==
  \A c \in Clients :
    LET s == snap[c] IN
    /\ s.pc # "idle" <=> mu = c
    /\ s.ok = "yes" => s.id \in SyncIDs
    /\ s.pc # "idle" => /\ s.ok = "no"
                        /\ s.id \in byID
                        /\ s.state = job[s.id].state
    /\ s.pc = "processed" =>
         /\ s.processed <= job[s.id].processed
         /\ s.state \in Terminal => s.processed = job[s.id].processed

IInv == /\ TypeOK
        /\ JobsInv
        /\ ByKeyExactlyRunning
        /\ FindableUntilTTL
        /\ CountersInv
        /\ NoLostProgress
        /\ LockInv
        /\ SnapshotNotTorn

-----------------------------------------------------------------------------
USE ManagerAssumption, BoundsAssumption
USE DEF JobStateNone, JobStateRunning, JobStateCompleted, JobStateFailed,
        JobStates, Terminal

(* The registry is created empty, with no job and no client.               *)
LEMMA InitIInv == Init => IInv
<1> SUFFICES ASSUME Init PROVE IInv
  OBVIOUS
<1>1. \A id \in SyncIDs : job[id] = NewJob(NoKey, JobStateNone)
  BY DEF Init, NewManager
<1>2. \A c \in Clients : snap[c] = NotFound(NoJob)
  BY DEF Init, NewManager
<1>3. NewJob(NoKey, JobStateNone) \in Job /\ NotFound(NoJob) \in Snapshot
  BY DEF NewJob, Job, NotFound, Snapshot, NoMsg
<1>4. TypeOK
  BY <1>3 DEF Init, NewManager, TypeOK, RunnerStates
<1>5. JobsInv /\ ByKeyExactlyRunning /\ FindableUntilTTL
  <2>1. \A id \in SyncIDs : /\ job[id].state = JobStateNone
                            /\ job[id].errMsg = NoMsg
    BY <1>1 DEF NewJob
  <2>2. byID = {} /\ \A id \in SyncIDs : runner[id] = "none"
    BY DEF Init, NewManager
  <2>3. JobsInv
    BY <2>1, <2>2 DEF JobsInv, Alive, NoMsg, ErrMsg
  <2>4. ByKeyExactlyRunning
    BY <2>1 DEF Init, NewManager, ByKeyExactlyRunning, Alive
  <2> QED
    BY <2>1, <2>3, <2>4 DEF FindableUntilTTL, Born
<1>6. CountersInv /\ NoLostProgress
  BY <1>1 DEF Init, NewJob, CountersInv, NoLostProgress
<1>7. LockInv /\ SnapshotNotTorn
  BY <1>2 DEF Init, NewManager, NotFound, LockInv, SnapshotNotTorn
<1> QED
  BY <1>4, <1>5, <1>6, <1>7 DEF IInv

(* Complete frees the key of this very job: byKey held its id.             *)
LEMMA CompleteIInv ==
  ASSUME IInv, NEW id \in SyncIDs, CompleteSync(id)
  PROVE  IInv'
<1> DEFINE j == [job[id] EXCEPT !.state = JobStateCompleted, !.finishedAt = now]
<1>1. /\ job \in [SyncIDs -> Job] /\ job[id] \in Job /\ now \in Nat
     /\ id \in byID /\ mu = Free /\ runner[id] = "counting"
     /\ job[id].state = JobStateRunning /\ job[id].projectKey \in Keys
  BY DEF IInv, TypeOK, JobsInv, CompleteSync, Complete, Alive, Job
<1>2. j \in Job
  BY <1>1 DEF Job, ErrMsg
<1>3. /\ j.state = JobStateCompleted /\ j.finishedAt = now
     /\ j.projectKey = job[id].projectKey /\ j.errMsg = job[id].errMsg
     /\ j.processed = job[id].processed /\ j.total = job[id].total
  BY <1>1 DEF Job
<1>4. job' = [job EXCEPT ![id] = j]
  BY <1>1 DEF CompleteSync, Complete
<1>5. job'[id] = j /\ \A i \in SyncIDs \ {id} : job'[i] = job[i]
  BY <1>1, <1>4
<1>6. /\ byID' = byID /\ now' = now /\ mu' = mu /\ snap' = snap
     /\ runner' = [runner EXCEPT ![id] = "exited"] /\ calls' = calls
     /\ byKey' = [byKey EXCEPT ![job[id].projectKey] = NoJob]
  BY <1>1 DEF CompleteSync, Complete, Goto
<1>7. runner'[id] = "exited" /\ \A i \in SyncIDs \ {id} : runner'[i] = runner[i]
  BY <1>6 DEF IInv, TypeOK
<1> HIDE DEF j
<1>8. TypeOK'
  BY <1>1, <1>2, <1>4, <1>6 DEF IInv, TypeOK, RunnerStates
<1>9. JobsInv'
  BY <1>1, <1>3, <1>5, <1>6, <1>7 DEF IInv, TypeOK, JobsInv, RunnerStates, Alive, ErrMsg
<1>10. ByKeyExactlyRunning'
  BY <1>1, <1>3, <1>5, <1>6, <1>7 DEF IInv, TypeOK, JobsInv, ByKeyExactlyRunning, RunnerStates, Alive
<1>11. FindableUntilTTL'
  BY <1>1, <1>3, <1>5, <1>6, <1>7 DEF IInv, TypeOK, JobsInv, FindableUntilTTL, Born
<1>12. CountersInv'
  BY <1>1, <1>3, <1>5, <1>6, <1>7 DEF IInv, TypeOK, JobsInv, CountersInv, NoLostProgress, RunnerStates
<1>13. NoLostProgress'
  BY <1>1, <1>3, <1>5, <1>6, <1>7 DEF IInv, TypeOK, JobsInv, NoLostProgress, RunnerStates
<1>14. LockInv'
  BY <1>1, <1>3, <1>5, <1>6, <1>7 DEF IInv, TypeOK, JobsInv, LockInv
<1>15. SnapshotNotTorn'
  BY <1>1, <1>3, <1>5, <1>6, <1>7 DEF IInv, TypeOK, JobsInv, LockInv, SnapshotNotTorn, Alive
<1> QED
  BY <1>8, <1>9, <1>10, <1>11, <1>12, <1>13, <1>14, <1>15 DEF IInv

(* Fail does the same, and records the error.                              *)
LEMMA FailIInv ==
  ASSUME IInv, NEW id \in SyncIDs, FailSync(id)
  PROVE  IInv'
<1> DEFINE j == [job[id] EXCEPT !.state = JobStateFailed, !.errMsg = ErrMsg,
                           !.finishedAt = now]
<1>1. /\ job \in [SyncIDs -> Job] /\ job[id] \in Job /\ now \in Nat
     /\ id \in byID /\ mu = Free /\ runner[id] \in {"fresh", "counting"}
     /\ job[id].state = JobStateRunning /\ job[id].projectKey \in Keys
  BY DEF IInv, TypeOK, JobsInv, FailSync, Fail, Alive, Job
<1>2. j \in Job
  BY <1>1 DEF Job, ErrMsg
<1>3. /\ j.state = JobStateFailed /\ j.finishedAt = now
     /\ j.projectKey = job[id].projectKey /\ j.errMsg = ErrMsg
     /\ j.processed = job[id].processed /\ j.total = job[id].total
  BY <1>1 DEF Job
<1>4. job' = [job EXCEPT ![id] = j]
  BY <1>1 DEF FailSync, Fail
<1>5. job'[id] = j /\ \A i \in SyncIDs \ {id} : job'[i] = job[i]
  BY <1>1, <1>4
<1>6. /\ byID' = byID /\ now' = now /\ mu' = mu /\ snap' = snap
     /\ runner' = [runner EXCEPT ![id] = "exited"] /\ calls' = calls
     /\ byKey' = [byKey EXCEPT ![job[id].projectKey] = NoJob]
  BY <1>1 DEF FailSync, Fail, Goto
<1>7. runner'[id] = "exited" /\ \A i \in SyncIDs \ {id} : runner'[i] = runner[i]
  BY <1>6 DEF IInv, TypeOK
<1> HIDE DEF j
<1>8. TypeOK'
  BY <1>1, <1>2, <1>4, <1>6 DEF IInv, TypeOK, RunnerStates
<1>9. JobsInv'
  BY <1>1, <1>3, <1>5, <1>6, <1>7 DEF IInv, TypeOK, JobsInv, RunnerStates, Alive, ErrMsg
<1>10. ByKeyExactlyRunning'
  BY <1>1, <1>3, <1>5, <1>6, <1>7 DEF IInv, TypeOK, JobsInv, ByKeyExactlyRunning, RunnerStates, Alive
<1>11. FindableUntilTTL'
  BY <1>1, <1>3, <1>5, <1>6, <1>7 DEF IInv, TypeOK, JobsInv, FindableUntilTTL, Born
<1>12. CountersInv'
  BY <1>1, <1>3, <1>5, <1>6, <1>7 DEF IInv, TypeOK, JobsInv, CountersInv, NoLostProgress, RunnerStates
<1>13. NoLostProgress'
  BY <1>1, <1>3, <1>5, <1>6, <1>7 DEF IInv, TypeOK, JobsInv, NoLostProgress, RunnerStates
<1>14. LockInv'
  BY <1>1, <1>3, <1>5, <1>6, <1>7 DEF IInv, TypeOK, JobsInv, LockInv
<1>15. SnapshotNotTorn'
  BY <1>1, <1>3, <1>5, <1>6, <1>7 DEF IInv, TypeOK, JobsInv, LockInv, SnapshotNotTorn, Alive
<1> QED
  BY <1>8, <1>9, <1>10, <1>11, <1>12, <1>13, <1>14, <1>15 DEF IInv

(* The counter grows while clients may be reading it.                      *)
LEMMA IncrAddIInv ==
  ASSUME IInv, NEW id \in SyncIDs, IncrProcessedAdd(id)
  PROVE  IInv'
<1> DEFINE j == [job[id] EXCEPT !.processed = job[id].processed + 1]
<1>1. /\ job \in [SyncIDs -> Job] /\ job[id] \in Job /\ now \in Nat
     /\ runner[id] = "incr" /\ job[id].state = JobStateRunning
     /\ job[id].processed \in Nat
  BY DEF IInv, TypeOK, JobsInv, IncrProcessedAdd, AddProcessed, Alive, Job
<1>2. j \in Job
  BY <1>1 DEF Job, ErrMsg
<1>3. /\ j.state = JobStateRunning /\ j.finishedAt = job[id].finishedAt
     /\ j.projectKey = job[id].projectKey /\ j.errMsg = job[id].errMsg
     /\ j.processed = job[id].processed + 1 /\ j.total = job[id].total
  BY <1>1 DEF Job
<1>4. job' = [job EXCEPT ![id] = j]
  BY <1>1 DEF IncrProcessedAdd, AddProcessed
<1>5. job'[id] = j /\ \A i \in SyncIDs \ {id} : job'[i] = job[i]
  BY <1>1, <1>4
<1>6. /\ byID' = byID /\ now' = now /\ mu' = mu /\ snap' = snap
     /\ runner' = [runner EXCEPT ![id] = "counting"] /\ calls' = calls
     /\ byKey' = byKey
  BY <1>1 DEF IncrProcessedAdd, AddProcessed, Goto
<1>7. runner'[id] = "counting" /\ \A i \in SyncIDs \ {id} : runner'[i] = runner[i]
  BY <1>6 DEF IInv, TypeOK
<1> HIDE DEF j
<1>8. TypeOK'
  BY <1>1, <1>2, <1>4, <1>6 DEF IInv, TypeOK, RunnerStates
<1>9. JobsInv'
  BY <1>1, <1>3, <1>5, <1>6, <1>7 DEF IInv, TypeOK, JobsInv, RunnerStates, Alive, ErrMsg
<1>10. ByKeyExactlyRunning'
  BY <1>1, <1>3, <1>5, <1>6, <1>7 DEF IInv, TypeOK, JobsInv, ByKeyExactlyRunning, RunnerStates, Alive
<1>11. FindableUntilTTL'
  BY <1>1, <1>3, <1>5, <1>6, <1>7 DEF IInv, TypeOK, JobsInv, FindableUntilTTL, Born
<1>12. CountersInv'
  BY <1>1, <1>3, <1>5, <1>6, <1>7 DEF IInv, TypeOK, JobsInv, CountersInv, NoLostProgress, RunnerStates
<1>13. NoLostProgress'
  BY <1>1, <1>3, <1>5, <1>6, <1>7 DEF IInv, TypeOK, JobsInv, NoLostProgress, RunnerStates
<1>14. LockInv'
  <2>1. \A c \in Clients : snap[c].processed \in Nat
    BY DEF IInv, TypeOK, Snapshot
  <2> QED
    BY <1>1, <1>3, <1>5, <1>6, <2>1 DEF IInv, TypeOK, JobsInv, LockInv
<1>15. SnapshotNotTorn'
  BY <1>1, <1>3, <1>5, <1>6, <1>7 DEF IInv, TypeOK, JobsInv, LockInv, SnapshotNotTorn, Alive
<1> QED
  BY <1>8, <1>9, <1>10, <1>11, <1>12, <1>13, <1>14, <1>15 DEF IInv

(* The total arrives before anything has been counted.                     *)
LEMMA StoreTotalIInv ==
  ASSUME IInv, NEW id \in SyncIDs, NEW t \in 0..MaxTotal, runner[id] = "total", StoreTotal(id, t),
         Goto(id, "counting"), UNCHANGED calls
  PROVE  IInv'
<1> DEFINE j == [job[id] EXCEPT !.total = t]
<1>1. /\ job \in [SyncIDs -> Job] /\ job[id] \in Job /\ now \in Nat
     /\ runner[id] = "total" /\ job[id].state = JobStateRunning
     /\ job[id].processed = 0 /\ t \in Nat
  BY DEF IInv, TypeOK, JobsInv, CountersInv, StoreTotal, Alive, Job
<1>2. j \in Job
  BY <1>1 DEF Job, ErrMsg
<1>3. /\ j.state = JobStateRunning /\ j.finishedAt = job[id].finishedAt
     /\ j.projectKey = job[id].projectKey /\ j.errMsg = job[id].errMsg
     /\ j.processed = 0 /\ j.total = t
  BY <1>1 DEF Job
<1>4. job' = [job EXCEPT ![id] = j]
  BY <1>1 DEF CountersInv, StoreTotal
<1>5. job'[id] = j /\ \A i \in SyncIDs \ {id} : job'[i] = job[i]
  BY <1>1, <1>4
<1>6. /\ byID' = byID /\ now' = now /\ mu' = mu /\ snap' = snap
     /\ runner' = [runner EXCEPT ![id] = "counting"] /\ calls' = calls
     /\ byKey' = byKey
  BY <1>1 DEF CountersInv, StoreTotal, Goto
<1>7. runner'[id] = "counting" /\ \A i \in SyncIDs \ {id} : runner'[i] = runner[i]
  BY <1>6 DEF IInv, TypeOK
<1> HIDE DEF j
<1>8. TypeOK'
  BY <1>1, <1>2, <1>4, <1>6 DEF IInv, TypeOK, RunnerStates
<1>9. JobsInv'
  BY <1>1, <1>3, <1>5, <1>6, <1>7 DEF IInv, TypeOK, JobsInv, RunnerStates, Alive, ErrMsg
<1>10. ByKeyExactlyRunning'
  BY <1>1, <1>3, <1>5, <1>6, <1>7 DEF IInv, TypeOK, JobsInv, ByKeyExactlyRunning, RunnerStates, Alive
<1>11. FindableUntilTTL'
  BY <1>1, <1>3, <1>5, <1>6, <1>7 DEF IInv, TypeOK, JobsInv, FindableUntilTTL, Born
<1>12. CountersInv'
  BY <1>1, <1>3, <1>5, <1>6, <1>7 DEF IInv, TypeOK, JobsInv, CountersInv, NoLostProgress, RunnerStates
<1>13. NoLostProgress'
  BY <1>1, <1>3, <1>5, <1>6, <1>7 DEF IInv, TypeOK, JobsInv, NoLostProgress, RunnerStates
<1>14. LockInv'
  BY <1>1, <1>3, <1>5, <1>6, <1>7 DEF IInv, TypeOK, JobsInv, LockInv
<1>15. SnapshotNotTorn'
  BY <1>1, <1>3, <1>5, <1>6, <1>7 DEF IInv, TypeOK, JobsInv, LockInv, SnapshotNotTorn, Alive
<1> QED
  BY <1>8, <1>9, <1>10, <1>11, <1>12, <1>13, <1>14, <1>15 DEF IInv

(* Start registers a fresh job; the sweep spares every running one.        *)
LEMMA StartSyncIInv ==
  ASSUME IInv, NEW k \in Keys, NEW id \in SyncIDs, StartSync(k, id)
  PROVE  IInv'
<1> DEFINE j == NewJob(k, JobStateRunning)
<1>1. /\ job \in [SyncIDs -> Job] /\ now \in Nat /\ mu = Free /\ byKey[k] = NoJob
     /\ job[id].state = JobStateNone /\ job[id].processed = 0
     /\ runner[id] = "none"
  BY DEF IInv, TypeOK, JobsInv, CountersInv, StartSync, StartNew, Born, RunnerStates
<1>2. j \in Job
  BY <1>1 DEF NewJob, Job, NoMsg
<1>3. /\ j.state = JobStateRunning /\ j.projectKey = k /\ j.errMsg = NoMsg
     /\ j.processed = 0 /\ j.total = 0
  BY DEF NewJob
<1>4. job' = [job EXCEPT ![id] = j]
  BY DEF StartSync, StartNew
<1>5. job'[id] = j /\ \A i \in SyncIDs \ {id} : job'[i] = job[i]
  BY <1>1, <1>4
<1>6. /\ byKey' = [byKey EXCEPT ![k] = id] /\ now' = now /\ mu' = mu /\ snap' = snap
     /\ runner' = [runner EXCEPT ![id] = "fresh"] /\ calls' = calls
  BY DEF StartSync, StartNew, Goto
<1>7. runner'[id] = "fresh" /\ \A i \in SyncIDs \ {id} : runner'[i] = runner[i]
  BY <1>6 DEF IInv, TypeOK
<1>8. /\ id \in byID' /\ byID' \subseteq SyncIDs
     /\ \A i \in SyncIDs \ {id} : i \in byID' <=> i \in byID /\ ~Expired(i)
  BY DEF IInv, TypeOK, StartSync, StartNew, evictExpiredLocked
<1> HIDE DEF j
<1>9. TypeOK'
  BY <1>1, <1>2, <1>4, <1>6, <1>8 DEF IInv, TypeOK, RunnerStates
<1>10. JobsInv'
  BY <1>1, <1>3, <1>5, <1>6, <1>7, <1>8 DEF IInv, TypeOK, JobsInv, Expired, RunnerStates, Alive, NoMsg, ErrMsg
<1>11. ByKeyExactlyRunning'
  BY <1>1, <1>3, <1>5, <1>6, <1>7, <1>8 DEF IInv, TypeOK, JobsInv, ByKeyExactlyRunning, RunnerStates, Alive
<1>12. FindableUntilTTL'
  <2>1. \A i \in SyncIDs : i \in byID /\ Expired(i) => job[i].state \in Terminal
    BY DEF IInv, TypeOK, Job, JobsInv, Expired
  <2> QED
    BY <1>1, <1>3, <1>5, <1>6, <1>8, <2>1 DEF IInv, FindableUntilTTL, Expired, Born
<1>13. CountersInv'
  BY <1>1, <1>3, <1>5, <1>6, <1>7, <1>8 DEF IInv, TypeOK, CountersInv, RunnerStates
<1>14. NoLostProgress'
  BY <1>1, <1>3, <1>5, <1>6, <1>7, <1>8 DEF IInv, TypeOK, NoLostProgress, RunnerStates
<1>15. LockInv'
  BY <1>1, <1>3, <1>5, <1>6, <1>7, <1>8 DEF IInv, TypeOK, LockInv
<1>16. SnapshotNotTorn'
  BY <1>1, <1>3, <1>5, <1>6, <1>7, <1>8 DEF IInv, TypeOK, LockInv, SnapshotNotTorn
<1> QED
  BY <1>9, <1>10, <1>11, <1>12, <1>13, <1>14, <1>15, <1>16 DEF IInv

(* A Start that joins a running job only sweeps.                           *)
LEMMA JoinSyncIInv ==
  ASSUME IInv, NEW k \in Keys, JoinSync(k)
  PROVE  IInv'
<1>1. TypeOK'
  BY DEF IInv, JoinSync, StartExisting,
         evictExpiredLocked, Expired, TypeOK, RunnerStates
<1>2. JobsInv'
  BY DEF IInv, JoinSync, StartExisting,
         evictExpiredLocked, Expired, TypeOK, JobsInv, RunnerStates, Alive
<1>3. ByKeyExactlyRunning'
  BY DEF IInv, JoinSync, StartExisting,
         evictExpiredLocked, Expired, TypeOK, JobsInv, ByKeyExactlyRunning,
         RunnerStates, Alive
<1>4. FindableUntilTTL'
  BY DEF IInv, JoinSync, StartExisting,
         evictExpiredLocked, Expired, TypeOK, Job, JobsInv, FindableUntilTTL,
         Born
<1>5. CountersInv'
  BY DEF IInv, JoinSync, StartExisting,
         evictExpiredLocked, Expired, TypeOK, CountersInv, RunnerStates
<1>6. NoLostProgress'
  BY DEF IInv, JoinSync, StartExisting,
         evictExpiredLocked, Expired, TypeOK, Job, JobsInv, NoLostProgress,
         RunnerStates, Alive
<1>7. LockInv'
  BY DEF IInv, JoinSync, StartExisting,
         evictExpiredLocked, Expired, TypeOK, LockInv
<1>8. SnapshotNotTorn'
  BY DEF IInv, JoinSync, StartExisting,
         evictExpiredLocked, Expired, TypeOK, SnapshotNotTorn
<1> QED
  BY <1>1, <1>2, <1>3, <1>4, <1>5, <1>6, <1>7, <1>8 DEF IInv

(* A lookup changes nothing but the goroutine's place.                     *)
LEMMA TotalLookupIInv ==
  ASSUME IInv, NEW id \in SyncIDs, SetTotalLookup(id)
  PROVE  IInv'
<1>1. TypeOK'
  BY DEF IInv, SetTotalLookup, Lookup, Goto, registry, TypeOK, RunnerStates
<1>2. JobsInv'
  BY DEF IInv, SetTotalLookup, Lookup, Goto, registry, TypeOK, JobsInv, RunnerStates, Alive
<1>3. ByKeyExactlyRunning'
  BY DEF IInv, SetTotalLookup, Lookup, Goto, registry, TypeOK, JobsInv, ByKeyExactlyRunning,
         RunnerStates, Alive
<1>4. FindableUntilTTL'
  BY DEF IInv, SetTotalLookup, Lookup, Goto, registry, TypeOK, Job, JobsInv, FindableUntilTTL,
         Born
<1>5. CountersInv'
  BY DEF IInv, SetTotalLookup, Lookup, Goto, registry, TypeOK, CountersInv, RunnerStates
<1>6. NoLostProgress'
  BY DEF IInv, SetTotalLookup, Lookup, Goto, registry, TypeOK, Job, JobsInv, NoLostProgress,
         RunnerStates, Alive
<1>7. LockInv'
  BY DEF IInv, SetTotalLookup, Lookup, Goto, registry, TypeOK, LockInv
<1>8. SnapshotNotTorn'
  BY DEF IInv, SetTotalLookup, Lookup, Goto, registry, TypeOK, SnapshotNotTorn
<1> QED
  BY <1>1, <1>2, <1>3, <1>4, <1>5, <1>6, <1>7, <1>8 DEF IInv

(* The call is counted when it is made, and the job is always found.       *)
LEMMA IncrLookupIInv ==
  ASSUME IInv, NEW id \in SyncIDs, IncrProcessedLookup(id)
  PROVE  IInv'
<1>1. TypeOK'
  BY DEF IInv, IncrProcessedLookup, Lookup, Goto,
         registry, TypeOK, RunnerStates
<1>2. JobsInv'
  BY DEF IInv, IncrProcessedLookup, Lookup, Goto,
         registry, TypeOK, JobsInv, RunnerStates, Alive
<1>3. ByKeyExactlyRunning'
  BY DEF IInv, IncrProcessedLookup, Lookup, Goto,
         registry, TypeOK, JobsInv, ByKeyExactlyRunning,
         RunnerStates, Alive
<1>4. FindableUntilTTL'
  BY DEF IInv, IncrProcessedLookup, Lookup, Goto,
         registry, TypeOK, Job, JobsInv, FindableUntilTTL,
         Born
<1>5. CountersInv'
  BY DEF IInv, IncrProcessedLookup, Lookup, Goto,
         registry, TypeOK, CountersInv, RunnerStates
<1>6. NoLostProgress'
  BY DEF IInv, IncrProcessedLookup, Lookup, Goto,
         registry, TypeOK, Job, JobsInv, NoLostProgress,
         RunnerStates, Alive
<1>7. LockInv'
  BY DEF IInv, IncrProcessedLookup, Lookup, Goto,
         registry, TypeOK, LockInv
<1>8. SnapshotNotTorn'
  BY DEF IInv, IncrProcessedLookup, Lookup, Goto,
         registry, TypeOK, SnapshotNotTorn
<1> QED
  BY <1>1, <1>2, <1>3, <1>4, <1>5, <1>6, <1>7, <1>8 DEF IInv

(* Time passes.                                                            *)
LEMMA ClockIInv ==
  ASSUME IInv, Clock
  PROVE  IInv'
<1>1. TypeOK'
  BY DEF IInv, Clock, Tick, registry, TypeOK, RunnerStates
<1>2. JobsInv'
  BY DEF IInv, Clock, Tick, registry, TypeOK, JobsInv, RunnerStates, Alive
<1>3. ByKeyExactlyRunning'
  BY DEF IInv, Clock, Tick, registry, TypeOK, JobsInv, ByKeyExactlyRunning,
         RunnerStates, Alive
<1>4. FindableUntilTTL'
  BY DEF IInv, Clock, Tick, registry, TypeOK, Job, JobsInv, FindableUntilTTL,
         Born
<1>5. CountersInv'
  BY DEF IInv, Clock, Tick, registry, TypeOK, CountersInv, RunnerStates
<1>6. NoLostProgress'
  BY DEF IInv, Clock, Tick, registry, TypeOK, Job, JobsInv, NoLostProgress,
         RunnerStates, Alive
<1>7. LockInv'
  BY DEF IInv, Clock, Tick, registry, TypeOK, LockInv
<1>8. SnapshotNotTorn'
  BY DEF IInv, Clock, Tick, registry, TypeOK, SnapshotNotTorn
<1> QED
  BY <1>1, <1>2, <1>3, <1>4, <1>5, <1>6, <1>7, <1>8 DEF IInv

(* Status of an unknown id.                                                *)
LEMMA StatusUnknownIInv ==
  ASSUME IInv, NEW c \in Clients, NEW id \in SyncIDs, StatusUnknown(c, id),
         UNCHANGED <<runner, calls>>
  PROVE  IInv'
<1> DEFINE s == NotFound(id)
<1>1. mu = Free /\ snap[c].pc = "idle"
  BY DEF IInv, TypeOK, JobsInv, LockInv, Job, Snapshot, StatusUnknown
<1>2. s \in Snapshot
  BY <1>1 DEF Snapshot, NotFound
<1>3. s.pc = "idle" /\ s.ok = "no"
  BY DEF NotFound
<1>4. snap' = [snap EXCEPT ![c] = s]
  BY DEF StatusUnknown
<1>5. snap'[c] = s /\ \A d \in Clients \ {c} : snap'[d] = snap[d]
  BY <1>4 DEF IInv, TypeOK
<1>6. /\ byID' = byID /\ byKey' = byKey /\ job' = job /\ now' = now
     /\ runner' = runner /\ calls' = calls /\ mu' = mu
  BY DEF StatusUnknown, registry
<1> HIDE DEF s
<1>7. TypeOK'
  BY <1>1, <1>2, <1>4, <1>6 DEF IInv, TypeOK
<1>8. JobsInv'
  BY <1>6 DEF IInv, JobsInv
<1>9. ByKeyExactlyRunning'
  BY <1>6 DEF IInv, ByKeyExactlyRunning
<1>10. FindableUntilTTL'
  BY <1>6 DEF IInv, FindableUntilTTL, Born
<1>11. CountersInv'
  BY <1>6 DEF IInv, CountersInv
<1>12. NoLostProgress'
  BY <1>6 DEF IInv, NoLostProgress
<1>13. LockInv'
  BY <1>1, <1>3, <1>5, <1>6 DEF IInv, TypeOK, LockInv
<1>14. SnapshotNotTorn'
  BY <1>1, <1>3, <1>5, <1>6 DEF IInv, TypeOK, JobsInv, CountersInv, SnapshotNotTorn
<1> QED
  BY <1>7, <1>8, <1>9, <1>10, <1>11, <1>12, <1>13, <1>14 DEF IInv

(* The lock is taken and the state copied.                                 *)
LEMMA StatusLoadStateIInv ==
  ASSUME IInv, NEW c \in Clients, NEW id \in SyncIDs, StatusLoadState(c, id),
         UNCHANGED <<runner, calls>>
  PROVE  IInv'
<1> DEFINE s == [NotFound(id) EXCEPT !.pc = "state", !.state = job[id].state]
<1>1. /\ mu = Free /\ snap[c].pc = "idle" /\ id \in byID
     /\ job[id].state \in JobStates
  BY DEF IInv, TypeOK, JobsInv, LockInv, Job, Snapshot, StatusLoadState
<1>2. s \in Snapshot
  BY <1>1 DEF Snapshot, NotFound
<1>3. /\ s.pc = "state" /\ s.ok = "no" /\ s.id = id
     /\ s.state = job[id].state
  BY DEF NotFound
<1>4. snap' = [snap EXCEPT ![c] = s]
  BY DEF StatusLoadState
<1>5. snap'[c] = s /\ \A d \in Clients \ {c} : snap'[d] = snap[d]
  BY <1>4 DEF IInv, TypeOK
<1>6. /\ byID' = byID /\ byKey' = byKey /\ job' = job /\ now' = now
     /\ runner' = runner /\ calls' = calls /\ mu' = c
  BY DEF StatusLoadState, registry
<1> HIDE DEF s
<1>7. TypeOK'
  BY <1>1, <1>2, <1>4, <1>6 DEF IInv, TypeOK
<1>8. JobsInv'
  BY <1>6 DEF IInv, JobsInv
<1>9. ByKeyExactlyRunning'
  BY <1>6 DEF IInv, ByKeyExactlyRunning
<1>10. FindableUntilTTL'
  BY <1>6 DEF IInv, FindableUntilTTL, Born
<1>11. CountersInv'
  BY <1>6 DEF IInv, CountersInv
<1>12. NoLostProgress'
  BY <1>6 DEF IInv, NoLostProgress
<1>13. LockInv'
  BY <1>1, <1>3, <1>5, <1>6 DEF IInv, TypeOK, LockInv
<1>14. SnapshotNotTorn'
  BY <1>1, <1>3, <1>5, <1>6 DEF IInv, TypeOK, JobsInv, CountersInv, SnapshotNotTorn
<1> QED
  BY <1>7, <1>8, <1>9, <1>10, <1>11, <1>12, <1>13, <1>14 DEF IInv

(* The processed counter is copied; it may grow afterwards.                *)
LEMMA StatusLoadProcessedIInv ==
  ASSUME IInv, NEW c \in Clients, StatusLoadProcessed(c), UNCHANGED <<runner, calls>>
  PROVE  IInv'
<1> DEFINE s == [snap[c] EXCEPT !.pc = "processed",
                           !.processed = job[snap[c].id].processed]
<1>1. /\ snap[c].pc = "state" /\ snap[c].ok = "no"
     /\ snap[c] \in Snapshot /\ snap[c].id \in SyncIDs
     /\ job[snap[c].id] \in Job /\ job[snap[c].id].processed \in Nat
  BY DEF IInv, TypeOK, JobsInv, LockInv, Job, Snapshot, StatusLoadProcessed
<1>2. s \in Snapshot
  BY <1>1 DEF Snapshot, NotFound
<1>3. /\ s.pc = "processed" /\ s.ok = snap[c].ok /\ s.id = snap[c].id
     /\ s.state = snap[c].state /\ s.processed = job[snap[c].id].processed
  BY <1>1 DEF Snapshot
<1>4. snap' = [snap EXCEPT ![c] = s]
  BY DEF StatusLoadProcessed
<1>5. snap'[c] = s /\ \A d \in Clients \ {c} : snap'[d] = snap[d]
  BY <1>4 DEF IInv, TypeOK
<1>6. /\ byID' = byID /\ byKey' = byKey /\ job' = job /\ now' = now
     /\ runner' = runner /\ calls' = calls /\ mu' = mu
  BY DEF StatusLoadProcessed, registry
<1> HIDE DEF s
<1>7. TypeOK'
  BY <1>1, <1>2, <1>4, <1>6 DEF IInv, TypeOK
<1>8. JobsInv'
  BY <1>6 DEF IInv, JobsInv
<1>9. ByKeyExactlyRunning'
  BY <1>6 DEF IInv, ByKeyExactlyRunning
<1>10. FindableUntilTTL'
  BY <1>6 DEF IInv, FindableUntilTTL, Born
<1>11. CountersInv'
  BY <1>6 DEF IInv, CountersInv
<1>12. NoLostProgress'
  BY <1>6 DEF IInv, NoLostProgress
<1>13. LockInv'
  BY <1>1, <1>3, <1>5, <1>6 DEF IInv, TypeOK, LockInv
<1>14. SnapshotNotTorn'
  BY <1>1, <1>3, <1>5, <1>6 DEF IInv, TypeOK, JobsInv, CountersInv, SnapshotNotTorn
<1> QED
  BY <1>7, <1>8, <1>9, <1>10, <1>11, <1>12, <1>13, <1>14 DEF IInv

(* The total is copied after the counter, and the lock released.           *)
LEMMA StatusLoadTotalIInv ==
  ASSUME IInv, NEW c \in Clients, StatusLoadTotal(c), UNCHANGED <<runner, calls>>
  PROVE  IInv'
<1> DEFINE s == [snap[c] EXCEPT !.pc = "idle", !.ok = "yes",
                                !.total = job[snap[c].id].total,
                                !.errMsg = job[snap[c].id].errMsg]
<1>1. snap[c] \in Snapshot /\ snap[c].pc = "processed" /\ mu = c
  BY DEF IInv, TypeOK, LockInv, StatusLoadTotal
<1>2. /\ snap[c].id \in SyncIDs
      /\ snap[c].state = job[snap[c].id].state
      /\ snap[c].processed <= job[snap[c].id].processed
      /\ snap[c].state \in Terminal =>
           snap[c].processed = job[snap[c].id].processed
  BY <1>1 DEF IInv, TypeOK, LockInv
<1>3. /\ job[snap[c].id].total \in Nat /\ job[snap[c].id].processed \in Nat
      /\ job[snap[c].id].errMsg \in {NoMsg, ErrMsg}
      /\ snap[c].processed \in Nat
  BY <1>1, <1>2 DEF IInv, TypeOK, Job, Snapshot
<1>4. s \in Snapshot
  BY <1>1, <1>3 DEF Snapshot
<1>5. /\ s.pc = "idle" /\ s.ok = "yes" /\ s.id = snap[c].id
      /\ s.state = snap[c].state /\ s.processed = snap[c].processed
      /\ s.total = job[snap[c].id].total /\ s.errMsg = job[snap[c].id].errMsg
  BY <1>1 DEF Snapshot
<1>6. snap' = [snap EXCEPT ![c] = s]
  BY DEF StatusLoadTotal
<1>7. snap'[c] = s /\ \A d \in Clients \ {c} : snap'[d] = snap[d]
  BY <1>6 DEF IInv, TypeOK
<1>8. /\ byID' = byID /\ byKey' = byKey /\ job' = job /\ now' = now
      /\ runner' = runner /\ calls' = calls /\ mu' = Free
  BY DEF StatusLoadTotal, registry
<1> HIDE DEF s
<1>9. TypeOK'
  BY <1>4, <1>6, <1>8 DEF IInv, TypeOK
<1>10. JobsInv'
  BY <1>8 DEF IInv, JobsInv
<1>11. ByKeyExactlyRunning'
  BY <1>8 DEF IInv, ByKeyExactlyRunning
<1>12. FindableUntilTTL'
  BY <1>8 DEF IInv, FindableUntilTTL, Born
<1>13. CountersInv'
  BY <1>8 DEF IInv, CountersInv
<1>14. NoLostProgress'
  BY <1>8 DEF IInv, NoLostProgress
<1>15. LockInv'
  <2>1. \A d \in Clients \ {c} : snap[d].pc = "idle"
    BY <1>1 DEF IInv, LockInv
  <2>2. \A d \in Clients : snap'[d].pc = "idle" /\ mu' # d
    BY <1>5, <1>7, <1>8, <2>1
  <2>3. \A d \in Clients : snap'[d].ok = "yes" => snap'[d].id \in SyncIDs
    BY <1>2, <1>5, <1>7 DEF IInv, LockInv
  <2> QED
    BY <2>2, <2>3 DEF LockInv
<1>16. SnapshotNotTorn'
  <2>1. /\ job[s.id].processed > 0 => job[s.id].total > 0
        /\ job[s.id].errMsg = ErrMsg <=> job[s.id].state = JobStateFailed
    BY <1>2, <1>5 DEF IInv, JobsInv, CountersInv
  <2>2. /\ s.processed > 0 => s.total > 0
        /\ s.state = JobStateFailed <=> s.errMsg = ErrMsg
        /\ s.state \in Terminal => /\ s.state = job[s.id].state
                                   /\ s.processed = job[s.id].processed
                                   /\ s.total = job[s.id].total
    BY <1>2, <1>3, <1>5, <2>1
  <2> QED
    BY <1>7, <1>8, <2>2 DEF IInv, SnapshotNotTorn
<1> QED
  BY <1>9, <1>10, <1>11, <1>12, <1>13, <1>14, <1>15, <1>16 DEF IInv

(* IInv is inductive: one case per action.                                 *)
LEMMA NextIInv == IInv /\ [Next]_vars => IInv'
<1> SUFFICES ASSUME IInv, [Next]_vars PROVE IInv'
  OBVIOUS
<1>1. ASSUME NEW k \in Keys, JoinSync(k) PROVE IInv'
  BY <1>1, JoinSyncIInv
<1>2. ASSUME NEW k \in Keys, NEW id \in SyncIDs, StartSync(k, id) PROVE IInv'
  BY <1>2, StartSyncIInv
<1>3. ASSUME NEW id \in SyncIDs, SetTotalLookup(id) PROVE IInv'
  BY <1>3, TotalLookupIInv
<1>4. ASSUME NEW id \in SyncIDs, SetTotalStore(id) PROVE IInv'
  BY <1>4, StoreTotalIInv DEF SetTotalStore
<1>5. ASSUME NEW id \in SyncIDs, IncrProcessedLookup(id) PROVE IInv'
  BY <1>5, IncrLookupIInv
<1>6. ASSUME NEW id \in SyncIDs, IncrProcessedAdd(id) PROVE IInv'
  BY <1>6, IncrAddIInv
<1>7. ASSUME NEW id \in SyncIDs, CompleteSync(id) PROVE IInv'
  BY <1>7, CompleteIInv
<1>8. ASSUME NEW id \in SyncIDs, FailSync(id) PROVE IInv'
  BY <1>8, FailIInv
<1>9. ASSUME NEW c \in Clients, Poll(c) PROVE IInv'
  BY <1>9, StatusUnknownIInv, StatusLoadStateIInv, StatusLoadProcessedIInv,
     StatusLoadTotalIInv DEF Poll
<1>10. CASE Clock
  BY <1>10, ClockIInv
<1>11. CASE UNCHANGED vars
  BY <1>11 DEF vars, IInv, TypeOK, JobsInv, ByKeyExactlyRunning, FindableUntilTTL,
               Born, CountersInv, NoLostProgress, LockInv, SnapshotNotTorn
<1> QED
  BY <1>1, <1>2, <1>3, <1>4, <1>5, <1>6, <1>7, <1>8, <1>9, <1>10, <1>11 DEF Next

(* IInv holds in every reachable state.                                    *)
THEOREM Invariance == Spec => []IInv
<1>1. Init => IInv
  BY InitIInv
<1>2. IInv /\ [Next]_vars => IInv'
  BY NextIInv
<1> QED
  BY <1>1, <1>2, PTL DEF Spec

(* The registry's variables keep their types.                              *)
THEOREM TypeCorrect == Spec => []TypeOK
BY Invariance, PTL DEF IInv

(* Deduplication: byKey lists exactly the running jobs, one per key, each  *)
(* with one live goroutine.                                                *)
THEOREM Deduplication == Spec => []ByKeyExactlyRunning
BY Invariance, PTL DEF IInv

(* A job stays visible while it runs and for jobTTL after its end.         *)
THEOREM Findable == Spec => []FindableUntilTTL
BY Invariance, PTL DEF IInv

(* No IncrProcessed is lost between its lookup and its store.              *)
THEOREM ProgressKept == Spec => []NoLostProgress
BY Invariance, PTL DEF IInv

(* Status never returns a torn snapshot, although it copies the counters   *)
(* one by one while they move.                                             *)
THEOREM ConsistentSnapshots == Spec => []SnapshotNotTorn
BY Invariance, PTL DEF IInv

-----------------------------------------------------------------------------
(* An ended job is frozen: no step changes it or brings it back.           *)
LEMMA TerminalStep ==
  ASSUME IInv, [Next]_vars, NEW i \in SyncIDs, job[i].state \in Terminal
  PROVE  job'[i] = job[i] /\ (i \notin byID => i \notin byID')
<1>1. runner[i] \notin Alive /\ Born(i) /\ job \in [SyncIDs -> Job]
  BY DEF IInv, TypeOK, JobsInv, Born
<1>2. ASSUME NEW k \in Keys, JoinSync(k)
      PROVE  job' = job /\ byID' \subseteq byID
  BY <1>2 DEF JoinSync, StartExisting, evictExpiredLocked
<1>3. ASSUME NEW k \in Keys, NEW id \in SyncIDs, StartSync(k, id)
      PROVE  /\ job'[i] = job[i]
             /\ i \notin byID => i \notin byID'
  BY <1>1, <1>3 DEF StartSync, StartNew, evictExpiredLocked
<1>4. ASSUME NEW id \in SyncIDs, SetTotalLookup(id) \/ IncrProcessedLookup(id)
      PROVE  job' = job /\ byID' = byID
  BY <1>4 DEF SetTotalLookup, IncrProcessedLookup, registry
<1>5. ASSUME NEW id \in SyncIDs, SetTotalStore(id) \/ IncrProcessedAdd(id)
      PROVE  job'[i] = job[i] /\ byID' = byID
  BY <1>1, <1>5 DEF SetTotalStore, StoreTotal, IncrProcessedAdd, AddProcessed, Alive
<1>6. ASSUME NEW id \in SyncIDs, CompleteSync(id) \/ FailSync(id)
      PROVE  job'[i] = job[i] /\ byID' = byID
  BY <1>1, <1>6 DEF CompleteSync, Complete, FailSync, Fail, Alive
<1>7. ASSUME NEW c \in Clients, Poll(c)
      PROVE  job' = job /\ byID' = byID
  BY <1>7 DEF Poll, StatusUnknown, StatusLoadState, StatusLoadProcessed,
              StatusLoadTotal, registry
<1>8. ASSUME Clock \/ UNCHANGED vars
      PROVE  job' = job /\ byID' = byID
  BY <1>8 DEF Clock, Tick, registry, vars
<1> QED
  BY <1>2, <1>3, <1>4, <1>5, <1>6, <1>7, <1>8 DEF Next

(* No step changes an ended job: its state, counters, error and finish     *)
(* time are final, and once evicted its id stays unknown.                  *)
THEOREM EndedJobsAreFrozen == Spec => TerminalIsFinal
<1>1. IInv /\ [Next]_vars =>
        [\A id \in SyncIDs :
           job[id].state \in Terminal =>
             /\ job'[id] = job[id]
             /\ id \notin byID => id \notin byID']_vars
  BY TerminalStep
<1> QED
  BY <1>1, Invariance, PTL DEF Spec, TerminalIsFinal

-----------------------------------------------------------------------------
(* The registry implements SyncJobs.                                       *)
LEMMA InitRefines == Init => Jobs!Init
<1> SUFFICES ASSUME Init PROVE Jobs!Init
  OBVIOUS
<1>1. \A id \in SyncIDs : job[id].state = JobStateNone
  BY DEF Init, NewManager, NewJob
<1> QED
  BY <1>1 DEF Jobs!Init, StatusOf, OwnerOf, Born

(* Which status a job has, as a function of its state and of byID.         *)
LEMMA StatusCases ==
  ASSUME TypeOK, NEW i \in SyncIDs
  PROVE  /\ job[i].state \in JobStates
         /\ StatusOf(i) = "unborn" <=> job[i].state = JobStateNone
         /\ StatusOf(i) = "running" <=> job[i].state = JobStateRunning
         /\ StatusOf(i) \in Jobs!Ended <=> job[i].state \in Terminal /\ i \in byID
         /\ job[i].state \in Terminal /\ i \notin byID => StatusOf(i) = "forgotten"
<1>1. job[i].state \in JobStates
  BY DEF TypeOK, Job
<1> QED
  BY <1>1 DEF StatusOf, Jobs!Ended

(* A project has a running job in SyncJobs iff byKey has an entry for it.  *)
LEMMA RunningCases ==
  ASSUME IInv, NEW k \in Keys
  PROVE  Jobs!Running(k) # {} <=> byKey[k] # NoJob
<1>1. \A i \in SyncIDs : i \in Jobs!Running(k) <=> byKey[k] = i
  BY StatusCases DEF IInv, ByKeyExactlyRunning, JobsInv, Jobs!Running, OwnerOf, Born
<1>2. Jobs!Running(k) \subseteq SyncIDs
  BY DEF Jobs!Running
<1> QED
  BY <1>1, <1>2 DEF IInv, TypeOK

(* A Start that joins a job is a request that changes nothing but what the *)
(* sweep forgets.                                                          *)
LEMMA JoinRefines ==
  ASSUME IInv, IInv', NEW k \in Keys, JoinSync(k)
  PROVE  Jobs!Request(k)
<1> DEFINE F == byID \ byID'
<1>1. job' = job /\ byKey[k] # NoJob /\ byID' = {i \in byID : ~Expired(i)}
  BY DEF JoinSync, StartExisting, evictExpiredLocked
<1>2. F \subseteq {i \in SyncIDs : StatusOf(i) \in Jobs!Ended}
  BY <1>1, StatusCases DEF IInv, TypeOK, JobsInv, Expired
<1>3. \A i \in SyncIDs :
        StatusOf(i)' = IF i \in F THEN "forgotten" ELSE StatusOf(i)
  BY <1>1, <1>2, StatusCases DEF IInv, TypeOK, Job, StatusOf
<1>4. \A i \in SyncIDs : OwnerOf(i)' = OwnerOf(i)
  BY <1>1 DEF OwnerOf, Born
<1>5. Jobs!Running(k) # {}
  BY <1>1, RunningCases
<1> HIDE DEF F
<1> QED
  BY <1>2, <1>3, <1>4, <1>5 DEF Jobs!Request, Jobs!Forget

(* A Start that registers a job is a request that starts one.              *)
LEMMA StartRefines ==
  ASSUME IInv, IInv', NEW k \in Keys, NEW id \in SyncIDs, StartSync(k, id)
  PROVE  Jobs!Request(k)
<1> DEFINE F == byID \ byID'
<1>1. /\ job' = [job EXCEPT ![id] = NewJob(k, JobStateRunning)]
      /\ byKey[k] = NoJob /\ job[id].state = JobStateNone
      /\ byID' = {i \in byID : ~Expired(i)} \cup {id}
  BY DEF StartSync, StartNew, evictExpiredLocked, Born
<1>2. F \subseteq {i \in SyncIDs : StatusOf(i) \in Jobs!Ended}
  BY <1>1, StatusCases DEF IInv, TypeOK, JobsInv, Expired
<1>3. \A i \in SyncIDs \ {id} : job'[i] = job[i] /\ (i \in byID' <=> i \in byID \ F)
  BY <1>1 DEF IInv, TypeOK
<1>4. job'[id].state = JobStateRunning /\ job'[id].projectKey = k /\ id \notin F
  BY <1>1 DEF IInv, TypeOK, NewJob
<1>5. \A i \in SyncIDs \ {id} :
        StatusOf(i)' = IF i \in F THEN "forgotten" ELSE StatusOf(i)
  BY <1>2, <1>3, StatusCases DEF IInv, TypeOK, Job, StatusOf
<1>6. StatusOf(id)' = "running" /\ StatusOf(id) = "unborn"
  BY <1>1, <1>4 DEF StatusOf
<1>7. OwnerOf(id)' = {k} /\ \A i \in SyncIDs \ {id} : OwnerOf(i)' = OwnerOf(i)
  BY <1>3, <1>4 DEF OwnerOf, Born
<1>8. Jobs!Running(k) = {}
  BY <1>1, RunningCases
<1> HIDE DEF F
<1>9. [i \in SyncIDs |-> StatusOf(i)]' = [Jobs!Forget(F) EXCEPT ![id] = "running"]
  BY <1>5, <1>6 DEF Jobs!Forget
<1>10. [i \in SyncIDs |-> OwnerOf(i)]' =
         [[i \in SyncIDs |-> OwnerOf(i)] EXCEPT ![id] = {k}]
  BY <1>7
<1> QED
  BY <1>2, <1>6, <1>8, <1>9, <1>10 DEF Jobs!Request

(* Complete and Fail end the job they are called for.                      *)
LEMMA EndRefines ==
  ASSUME IInv, IInv', NEW id \in SyncIDs, CompleteSync(id) \/ FailSync(id)
  PROVE  Jobs!End(id)
<1>1. /\ id \in byID /\ byID' = byID /\ job[id].state = JobStateRunning
      /\ job[id] \in Job /\ job \in [SyncIDs -> Job]
  BY DEF IInv, TypeOK, JobsInv, CompleteSync, Complete, FailSync, Fail, Alive
<1>2. /\ job'[id].state \in Terminal /\ job'[id].projectKey = job[id].projectKey
      /\ \A i \in SyncIDs \ {id} : job'[i] = job[i]
  <2>1. CASE CompleteSync(id)
    <3>1. job' = [job EXCEPT ![id] = [job[id] EXCEPT !.state = JobStateCompleted,
                                                     !.finishedAt = now]]
      BY <1>1, <2>1 DEF CompleteSync, Complete
    <3> QED
      BY <1>1, <3>1 DEF Job
  <2>2. CASE FailSync(id)
    <3>1. job' = [job EXCEPT ![id] = [job[id] EXCEPT !.state = JobStateFailed,
                                                     !.errMsg = ErrMsg,
                                                     !.finishedAt = now]]
      BY <1>1, <2>2 DEF FailSync, Fail
    <3> QED
      BY <1>1, <3>1 DEF Job
  <2> QED
    BY <2>1, <2>2
<1>3. StatusOf(id) = "running" /\ StatusOf(id)' \in Jobs!Ended
  BY <1>1, <1>2 DEF StatusOf, Jobs!Ended
<1>4. \A i \in SyncIDs \ {id} : StatusOf(i)' = StatusOf(i)
  BY <1>1, <1>2 DEF StatusOf
<1>5. \A i \in SyncIDs : OwnerOf(i)' = OwnerOf(i)
  BY <1>1, <1>2 DEF OwnerOf, Born
<1> QED
  BY <1>3, <1>4, <1>5 DEF Jobs!End

(* Steps that neither start, end nor evict a job.                          *)
LEMMA QuietRefines ==
  ASSUME IInv, byID' = byID,
         \A i \in SyncIDs : /\ job'[i].state = job[i].state
                            /\ job'[i].projectKey = job[i].projectKey
  PROVE  UNCHANGED Jobs!vars
<1>1. \A i \in SyncIDs : StatusOf(i)' = StatusOf(i) /\ OwnerOf(i)' = OwnerOf(i)
  BY DEF StatusOf, OwnerOf, Born
<1> QED
  BY <1>1 DEF Jobs!vars

(* Every step is a step of SyncJobs or a stutter.                          *)
LEMMA NextRefines == IInv /\ IInv' /\ [Next]_vars => [Jobs!Next]_(Jobs!vars)
<1> SUFFICES ASSUME IInv, IInv', [Next]_vars PROVE [Jobs!Next]_(Jobs!vars)
  OBVIOUS
<1>1. ASSUME NEW k \in Keys, JoinSync(k) PROVE Jobs!Next
  BY <1>1, JoinRefines DEF Jobs!Next
<1>2. ASSUME NEW k \in Keys, NEW id \in SyncIDs, StartSync(k, id) PROVE Jobs!Next
  BY <1>2, StartRefines DEF Jobs!Next
<1>3. ASSUME NEW id \in SyncIDs, CompleteSync(id) \/ FailSync(id) PROVE Jobs!Next
  BY <1>3, EndRefines DEF Jobs!Next
<1>4. ASSUME NEW id \in SyncIDs, SetTotalLookup(id) \/ IncrProcessedLookup(id)
      PROVE  UNCHANGED Jobs!vars
  BY <1>4, QuietRefines DEF SetTotalLookup, IncrProcessedLookup, registry
<1>5. ASSUME NEW id \in SyncIDs, SetTotalStore(id) \/ IncrProcessedAdd(id)
      PROVE  UNCHANGED Jobs!vars
  <2>1. byID' = byID /\ \A i \in SyncIDs : /\ job'[i].state = job[i].state
                                            /\ job'[i].projectKey = job[i].projectKey
    BY <1>5 DEF IInv, TypeOK, Job, SetTotalStore, StoreTotal, IncrProcessedAdd,
                AddProcessed
  <2> QED
    BY <2>1, QuietRefines
<1>6. ASSUME NEW c \in Clients, Poll(c) PROVE UNCHANGED Jobs!vars
  BY <1>6, QuietRefines DEF Poll, StatusUnknown, StatusLoadState,
                            StatusLoadProcessed, StatusLoadTotal, registry
<1>7. ASSUME Clock \/ UNCHANGED vars PROVE UNCHANGED Jobs!vars
  BY <1>7, QuietRefines DEF Clock, Tick, registry, vars
<1> QED
  BY <1>1, <1>2, <1>3, <1>4, <1>5, <1>6, <1>7 DEF Next

(* The registry, with its maps, lock and clock, implements the life cycle  *)
(* of SyncJobs.                                                            *)
THEOREM Refinement == Spec => ImplementsSyncJobs
<1>1. Spec => Jobs!Init
  BY InitRefines DEF Spec
<1>2. IInv /\ IInv' /\ [Next]_vars => [Jobs!Next]_(Jobs!vars)
  BY NextRefines
<1> QED
  BY <1>1, <1>2, Invariance, PTL DEF Spec, ImplementsSyncJobs, Jobs!Spec
=============================================================================
