----------------------------- MODULE MCLifecycle -----------------------------
(* Lifecycle for TLC: environments alone, files alone, both, and neither.  *)
(* With a millisecond of 4 and durations of 19 bits, the 70000 ms of the   *)
(* file come out negative, as 300 years do in the program.                 *)
EXTENDS Lifecycle

Text(base, host) ==
  [s \in TextSettings |-> CASE s = "JIRA_BASE_URL" -> base
                            [] s = "DB_HOST" -> host
                            [] OTHER -> Unset]

NoPort  == [set |-> FALSE, parses |-> FALSE, n |-> 0]
BadPort == [set |-> TRUE, parses |-> FALSE, n |-> 0]
ZeroPort == [set |-> TRUE, parses |-> TRUE, n |-> 0]

NoFile  == [read |-> "missing", cfg |-> Empty]
File(base, host, results) ==
  [read |-> "ok",
   cfg |-> [Empty EXCEPT !.text = Text(base, host), !.port = 6000,
                         !.number["maxResults"] = results,
                         !.number["minRetryDelay"] = 0 - 1,
                         !.number["maxRetryDelay"] = 70000,
                         !.enabled["pprof"] = "false"]]

MCInputs ==
  { [file |-> NoFile, env |-> [text |-> Text("env", "env"), port |-> ZeroPort]],
    [file |-> NoFile, env |-> [text |-> Text(Unset, "env"), port |-> NoPort]],
    [file |-> File("file", "file", 5000),
     env |-> [text |-> Text("env", Unset), port |-> BadPort]],
    [file |-> File("file", "file", 70),
     env |-> [text |-> Text(Unset, "env"), port |-> NoPort]],
    [file |-> [read |-> "malformed", cfg |-> Empty],
     env |-> [text |-> Text("env", "env"), port |-> NoPort]] }
=============================================================================
