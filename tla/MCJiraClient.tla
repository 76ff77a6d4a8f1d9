---------------------------- MODULE MCJiraClient ----------------------------
(* JiraClient for TLC: with one second of two ticks and durations of       *)
(* -32..31, Retry-After 20 overflows to a negative duration, 9 is beyond   *)
(* MaxRetry, and 0 and -1 do not make the client wait at all.              *)
EXTENDS JiraClient

HintSet == {-1, 0, 1, 3, 9, 20}
=============================================================================
