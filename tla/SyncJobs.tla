------------------------------ MODULE SyncJobs -------------------------------
(***************************************************************************)
(* What the job registry promises, without maps, locks or clocks: a sync   *)
(* request for a project either starts a job or joins the one that runs,   *)
(* a running job ends exactly once, and only ended jobs are forgotten.     *)
(***************************************************************************)
CONSTANTS
  Keys,     \* project keys
  SyncIDs   \* job identities

VARIABLES
  status,   \* life cycle of each job
  owner     \* the projects each job was started for: {} or one key

vars == <<status, owner>>

Ended == {"completed", "failed"}

Running(k) == {id \in SyncIDs : status[id] = "running" /\ k \in owner[id]}

Init == /\ status = [id \in SyncIDs |-> "unborn"]
        /\ owner = [id \in SyncIDs |-> {}]

(* Any number of ended jobs may be forgotten along with a request.         *)
Forget(F) == [id \in SyncIDs |-> IF id \in F THEN "forgotten" ELSE status[id]]

Request(k) ==
  \E F \in SUBSET {id \in SyncIDs : status[id] \in Ended} :
    \/ /\ Running(k) # {}
       /\ status' = Forget(F)
       /\ UNCHANGED owner
    \/ /\ Running(k) = {}
       /\ \E id \in SyncIDs :
            /\ status[id] = "unborn"
            /\ status' = [Forget(F) EXCEPT ![id] = "running"]
            /\ owner' = [owner EXCEPT ![id] = {k}]

End(id) == /\ status[id] = "running"
           /\ \E e \in Ended : status' = [status EXCEPT ![id] = e]
           /\ UNCHANGED owner

Next == \/ \E k \in Keys : Request(k)
        \/ \E id \in SyncIDs : End(id)

Spec == Init /\ [][Next]_vars
=============================================================================
