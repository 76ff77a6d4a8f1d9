------------------------------ MODULE MCManager ------------------------------
(* ManagerSpec for TLC.  Ids are interchangeable, and so are keys.         *)
EXTENDS ManagerSpec, TLC

Symmetry == Permutations(SyncIDs) \cup Permutations(Keys)
=============================================================================
