------------------------------- MODULE MCSync --------------------------------
(* SyncService for TLC.                                                    *)
EXTENDS SyncService

CONSTANTS k1, k2, i1, i2, i3, i4

(* Jira's list of projects; a key that is not on it does not exist there.  *)
ListOne == <<k1>>
ListTwo == <<k1, k2>>

(* One project of three issues, and a key Jira does not know.              *)
OneProject == k1 :> <<i1, i2, i3>> @@ k2 :> <<>>

(* One project of two issues.                                              *)
SmallProject == k1 :> <<i1, i2>>

(* A project of one issue and an empty one, which share only the registry. *)
TwoProjects == k1 :> <<i1>> @@ k2 :> <<>>

(* Callers are interchangeable, and so are ids; for the safety runs only.  *)
Symmetry == Permutations(Callers) \cup Permutations(SyncIDs)
=============================================================================
