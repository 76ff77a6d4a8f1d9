----------------------------- MODULE MCFetchPage -----------------------------
(* FetchPage for TLC.                                                      *)
EXTENDS FetchPage, TLC
=============================================================================
