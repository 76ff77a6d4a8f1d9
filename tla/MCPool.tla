------------------------------- MODULE MCPool --------------------------------
(* PoolSpec for TLC.                                                       *)
EXTENDS PoolSpec
=============================================================================
