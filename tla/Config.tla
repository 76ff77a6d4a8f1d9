------------------------------- MODULE Config --------------------------------
(***************************************************************************)
(* internal/config/config.go, and New of the Jira client, which takes the  *)
(* configuration over: how the effective settings come about from the      *)
(* configuration file and the environment.                                 *)
(*                                                                         *)
(* Text settings go by the name of their environment variable; Unset is    *)
(* the empty string of an absent entry.  The file is the one that the      *)
(* flag, CONNECTOR_CONFIG or the default path names.                       *)
(***************************************************************************)
EXTENDS Int64

CONSTANT Millisecond  \* time.Millisecond

Unset == ""

(* The Default... constants.                                               *)
DefaultText ==
  [DB_HOST |-> "localhost", DB_USER |-> "postgres", DB_PASSWORD |-> "password",
   DB_NAME |-> "jira_connector", LOG_LEVEL |-> "info",
   METRICS_ADDR |-> ":9090", PPROF_ADDR |-> ":6060"]

DefaultNumber == [maxResults |-> 50, minRetryDelay |-> 1000,
                  maxRetryDelay |-> 60000, rateLimitPerSec |-> 25]
DefaultDBPort == 5432

(* The default delays, in milliseconds, are int64 durations.               *)
ASSUME DurationAssumption ==
  /\ HalfRange \in Nat \ {0} /\ Millisecond \in Nat \ {0}
  /\ DefaultNumber.minRetryDelay * Millisecond < HalfRange
  /\ DefaultNumber.maxRetryDelay * Millisecond < HalfRange

TextSettings == DOMAIN DefaultText \cup {"JIRA_BASE_URL", "JIRA_TOKEN"}
Endpoints == {"metrics", "pprof"}

(* ObsEndpoint.Enabled is a pointer: an absent block is on.                *)
IsEnabled(enabled) == enabled \in {"absent", "true"}

applyJiraDefaults(number) ==
  [s \in DOMAIN number |-> IF number[s] <= 0 THEN DefaultNumber[s] ELSE number[s]]

(* applyDBDefaults and the text settings of applyDefaults                  *)
applyTextDefaults(text) ==
  [s \in TextSettings |->
     IF text[s] = Unset /\ s \in DOMAIN DefaultText THEN DefaultText[s] ELSE text[s]]

applyDefaults(cfg) ==
  [cfg EXCEPT !.number = applyJiraDefaults(@),
              !.text   = applyTextDefaults(@),
              !.port   = IF @ = 0 THEN DefaultDBPort ELSE @]

(* DB_PORT: a text that begins with no number stands for the fallback.     *)
parseInt(v, fallback) == IF v.parses THEN v.n ELSE fallback

(* overrideFromEnv and overrideObsFromEnv                                  *)
overrideFromEnv(cfg, env) ==
  [cfg EXCEPT !.text = [s \in TextSettings |->
                          IF env.text[s] # Unset THEN env.text[s] ELSE @[s]],
              !.port = IF env.port.set THEN parseInt(env.port, DefaultDBPort) ELSE @]

validate(cfg) == cfg.text["JIRA_BASE_URL"] # Unset

Empty == [text    |-> [s \in TextSettings |-> Unset],
          number  |-> [s \in DOMAIN DefaultNumber |-> 0],
          port    |-> 0,
          enabled |-> [e \in Endpoints |-> "absent"]]

(* AppConfig, and what Load may find: a file it can or cannot read, and an *)
(* environment whose DB_PORT may be no number.                             *)
Settings == [text    : [TextSettings -> STRING],
             number  : [DOMAIN DefaultNumber -> Int64s],
             port    : Int64s,
             enabled : [Endpoints -> {"absent", "true", "false"}]]

Sources ==
  [file : [read : {"ok", "missing", "unreadable", "malformed"}, cfg : Settings],
   env  : [text : [TextSettings -> STRING],
           port : [set : BOOLEAN, parses : BOOLEAN, n : Int64s]]]

Refused == [err |-> TRUE, cfg |-> Empty]

(* What yaml.Unmarshal leaves in cfg; a missing file leaves it zero.       *)
Unmarshal(file) == IF file.read = "ok" THEN file.cfg ELSE Empty

(* Variant: the file alone is validated.                                   *)
LoadValidatesFile(file, env) ==
  LET cfg == applyDefaults(Unmarshal(file))
  IN IF file.read \in {"unreadable", "malformed"} \/ ~validate(cfg) THEN Refused
     ELSE [err |-> FALSE, cfg |-> overrideFromEnv(cfg, env)]

Load(file, env) ==
  LET cfg == overrideFromEnv(applyDefaults(Unmarshal(file)), env)
  IN IF file.read \in {"unreadable", "malformed"} \/ ~validate(cfg) THEN Refused
     ELSE [err |-> FALSE, cfg |-> cfg]

-----------------------------------------------------------------------------
minAllowedResults == 50
maxAllowedResults == 1000

(* time.Duration(ms) * time.Millisecond                                    *)
Duration(ms) == Wrap(ms * Millisecond)

(* New of the Jira client; only a delay of 0 stands for a default here,    *)
(* and one that overflows is taken as it comes out, also when negative.    *)
New(number) ==
  LET results == IF number.maxResults <= 0 THEN DefaultNumber.maxResults
                 ELSE number.maxResults
      delay(s) == IF Duration(number[s]) = 0 THEN Duration(DefaultNumber[s])
                  ELSE Duration(number[s])
  IN [maxResults |-> IF results < minAllowedResults THEN minAllowedResults
                     ELSE IF results > maxAllowedResults THEN maxAllowedResults
                     ELSE results,
      minRetryDelay |-> delay("minRetryDelay"),
      maxRetryDelay |-> delay("maxRetryDelay"),
      rateLimitPerSec |-> IF number.rateLimitPerSec <= 0
                            THEN DefaultNumber.rateLimitPerSec
                            ELSE number.rateLimitPerSec]
=============================================================================
