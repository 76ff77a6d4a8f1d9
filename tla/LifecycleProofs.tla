-------------------------- MODULE LifecycleProofs ----------------------------
(***************************************************************************)
(* Proofs about the life of the process, for any number of keys, clients,  *)
(* pages, syncs and restarts, and all configurations.                      *)
(*                                                                         *)
(* That a caller is told the truth is a fact about the past (which pages   *)
(* were committed, by which start of the process); it becomes inductive    *)
(* with what ties the present to that past: a job of this process was      *)
(* started by it under an id no earlier process used, and its goroutine    *)
(* has committed the pages before the one it is at.  That a process closes *)
(* what it opened needs to know, at each stage of its start, what is open. *)
(***************************************************************************)
EXTENDS Lifecycle, TLAPS

Mains == {"off", "config", "listen", "open", "ping", "migrate", "migrating", "build",
          "hook", "serve", "serving", "select", "exited"}

(* The settings a process may have.                                        *)
Configs == {Empty} \cup {Load(i.file, i.env).cfg : i \in Inputs}

Process == [main : Mains, exit : {"none", "0", "1"}, cfg : Configs,
            lis : BOOLEAN, db : BOOLEAN,
            grpc : {"none", "built", "serving", "stopping", "stopped"},
            obs : [Endpoints -> {"off", "starting", "listening", "failed", "stopped"}],
            hook : {"none", "waiting", "graceful", "obs", "db", "done"},
            quit : BOOLEAN]

Call == [pc : {"idle", "ensure", "start", "status", "nil", "err"},
         key : Keys \cup {NoKey}, id : SyncIDs \cup {NoJob}, life : Nat]

SyncGo == [pc : {"none", "begin", "tx", "completed", "failed"}, page : 1 .. NumPages]

(* The registry, the calls and the syncs keep their types.                 *)
MemoryType ==
  /\ byID \in SUBSET SyncIDs /\ byKey \in [Keys -> SyncIDs \cup {NoJob}]
  /\ job \in [SyncIDs -> Job] /\ now \in Nat
  /\ call \in [Callers -> Call] /\ go \in [SyncIDs -> SyncGo]
  /\ used \in SUBSET SyncIDs /\ starts \in Nat

(* So do the process and what it starts from.                              *)
ProcessType ==
  /\ mode \in {"serve", "run"} /\ input \in Inputs
  /\ proc \in Process

(* How far the main goroutine is tells what is open and what is migrated.  *)
StageInv ==
  /\ Up => proc.exit = "none"
  /\ proc.main \in {"listen", "hook", "serve", "serving"} => mode = "serve"
  /\ proc.main = "select" => mode = "run"
  /\ proc.lis => mode = "serve"
  /\ proc.main \in {"config", "listen"} => ~proc.lis
  /\ proc.main \in {"config", "listen", "open"} => ~proc.db
  /\ proc.main \in {"build", "hook", "serve", "serving", "select"} => schema = "current"
  /\ Up => (proc.hook # "none" <=> proc.main \in {"serve", "serving"})
  /\ proc.exit = "1" /\ proc.hook = "none" => ~proc.lis /\ ~proc.db

(* Once GracefulStop has returned the server accepts nothing and no RPC is *)
(* under way.                                                              *)
DrainInv ==
  /\ HookAt("graceful") => proc.grpc = "stopping"
  /\ Up /\ proc.hook \in {"obs", "db", "done"} =>
       proc.grpc = "stopped" /\ \A c \in Clients : call[c].pc = "idle"

(* A process past its configuration runs with what Load made of its input. *)
ConfigInv ==
  Up /\ ~In("config") => /\ ~Load(input.file, input.env).err
                         /\ proc.cfg = Load(input.file, input.env).cfg

(* A process that is not there has no job, no goroutine and no call.       *)
GoneInv ==
  ~Up => /\ \A id \in SyncIDs : ~Born(id) /\ go[id].pc = "none"
         /\ \A c \in Callers : call[c].pc = "idle"

(* Every job of this process was born under an id of its own, and whoever  *)
(* holds the id was given it by this process.                              *)
IdentityInv ==
  /\ \A id \in byID : Born(id)
  /\ \A k \in Keys : byKey[k] # NoJob => Born(byKey[k])
  /\ \A id \in SyncIDs : Born(id) => id \in used
  /\ \A c \in Callers : LET r == call[c] IN
       /\ r.pc \in {"ensure", "start"} => r.key \in Keys
       /\ r.id # NoJob => r.id \in used /\ (Born(r.id) => r.life = starts)

(* A sync has committed the pages before the one it is at, all of them     *)
(* when it is complete.                                                    *)
PagesInv ==
  /\ \A id \in SyncIDs :
       /\ go[id].pc = "completed" \/ job[id].state = JobStateCompleted =>
            Stored(starts, id)
       /\ go[id].pc \in {"begin", "tx"} =>
            \A n \in 1 .. (go[id].page - 1) : <<starts, id, n>> \in rows
  /\ call[App].pc = "nil" => Stored(starts, call[App].id)

LifeInv == /\ ProcessType /\ StageInv /\ DrainInv /\ ConfigInv
           /\ MemoryType /\ GoneInv /\ IdentityInv /\ PagesInv
           /\ ToldTheTruth

-----------------------------------------------------------------------------
USE ManagerAssumption, LifecycleAssumption

(* What Load starts from, with or without a file.                          *)
LEMMA UnmarshalShape ==
  ASSUME NEW i \in Sources
  PROVE  LET file == Unmarshal(i.file) IN
         /\ DOMAIN file = {"text", "number", "port", "enabled"}
         /\ file.number \in [DOMAIN DefaultNumber -> Int64s]
         /\ file.port \in Int64s
<1>1. CASE i.file.read = "ok"
  BY <1>1 DEF Unmarshal, Sources, Settings
<1>2. CASE i.file.read # "ok"
  BY <1>2, DurationAssumption DEF Unmarshal, Empty, Int64s
<1> QED
  BY <1>1, <1>2

(* The first of three candidates that is set.                              *)
LEMMA FirstSetOfThree ==
  ASSUME NEW s, NEW a, NEW b, NEW c
  PROVE  FirstSet(s, <<a, b, c>>) = IF a # s THEN a ELSE IF b # s THEN b ELSE c
<1> DEFINE all == <<a, b, c>>
           set == {n \in DOMAIN all : all[n] # s}
           first == CHOOSE n \in set : \A m \in set : n <= m
<1> SUFFICES FirstSet(s, all) = IF a # s THEN a ELSE IF b # s THEN b ELSE c
  OBVIOUS
<1>1. DOMAIN all = {1, 2, 3} /\ all[1] = a /\ all[2] = b /\ all[3] = c
  OBVIOUS
<1>2. FirstSet(s, all) = IF set = {} THEN s ELSE all[first]
  BY DEF FirstSet
<1> HIDE DEF all
<1>3. set \subseteq {1, 2, 3}
  BY <1>1
<1>4. CASE a # s
  <2>1. 1 \in set /\ \A m \in set : 1 <= m
    BY <1>1, <1>4
  <2>2. first = 1
    BY <1>3, <2>1
  <2> QED
    BY <1>1, <1>2, <1>4, <2>1, <2>2
<1>5. CASE a = s /\ b # s
  <2>1. 2 \in set /\ 1 \notin set /\ \A m \in set : 2 <= m
    BY <1>1, <1>5
  <2>2. first = 2
    BY <1>3, <2>1
  <2> QED
    BY <1>1, <1>2, <1>5, <2>1, <2>2
<1>6. CASE a = s /\ b = s /\ c # s
  <2>1. set = {3}
    BY <1>1, <1>6
  <2>2. first = 3
    BY <2>1
  <2> QED
    BY <1>1, <1>2, <1>6, <2>1, <2>2
<1>7. CASE a = s /\ b = s /\ c = s
  <2>1. set = {}
    BY <1>1, <1>7
  <2> QED
    BY <1>2, <1>7, <2>1
<1> QED
  BY <1>4, <1>5, <1>6, <1>7

(* Load takes each text from the environment, the file or the defaults, in *)
(* this order.                                                             *)
LEMMA LoadText ==
  ASSUME NEW i \in Sources, NEW s \in TextSettings
  PROVE  overrideFromEnv(applyDefaults(Unmarshal(i.file)), i.env).text[s]
           = FirstSet(Unset, <<i.env.text[s], Unmarshal(i.file).text[s],
               IF s \in DOMAIN DefaultText THEN DefaultText[s] ELSE Unset>>)
<1> DEFINE file == Unmarshal(i.file)
           cfg  == applyDefaults(file)
<1>1. "text" \in DOMAIN file
  BY UnmarshalShape
<1> HIDE DEF file
<1>2. cfg.text[s] = IF file.text[s] = Unset /\ s \in DOMAIN DefaultText
                      THEN DefaultText[s] ELSE file.text[s]
  BY <1>1 DEF applyDefaults, applyTextDefaults
<1>3. "text" \in DOMAIN cfg
  BY <1>1 DEF applyDefaults
<1> HIDE DEF cfg
<1>4. overrideFromEnv(cfg, i.env).text[s]
        = IF i.env.text[s] # Unset THEN i.env.text[s] ELSE cfg.text[s]
  BY <1>3 DEF overrideFromEnv
<1> QED
  BY <1>2, <1>4, FirstSetOfThree DEF cfg, file

(* int64 arithmetic is exact within its range.                             *)
LEMMA WrapExact ==
  ASSUME NEW x \in Int64s PROVE Wrap(x) = x
BY DurationAssumption DEF Wrap, Int64s

(* The defaults are int64 values.                                          *)
LEMMA DefaultsFit == {25, 50, 1000, 60000} \subseteq Int64s
<1>1. 60000 * Millisecond < HalfRange
  BY DurationAssumption DEF DefaultNumber
<1>2. 60000 * Millisecond >= 60000
  BY DurationAssumption
<1> QED
  BY <1>1, <1>2, DurationAssumption DEF Int64s

(* What New makes of settings that applyJiraDefaults has made positive.    *)
LEMMA ClientSettings ==
  ASSUME NEW num \in [DOMAIN DefaultNumber -> Int64s],
         \A s \in DOMAIN DefaultNumber : num[s] > 0
  PROVE  LET allowed == minAllowedResults .. maxAllowedResults IN
         /\ New(num).maxResults \in allowed
         /\ num.maxResults \in allowed => New(num).maxResults = num.maxResults
         /\ New(num).rateLimitPerSec = num.rateLimitPerSec
         /\ \A s \in {"minRetryDelay", "maxRetryDelay"} :
              num[s] * Millisecond < HalfRange => New(num)[s] = num[s] * Millisecond
<1>1. DOMAIN DefaultNumber = {"maxResults", "minRetryDelay", "maxRetryDelay",
                              "rateLimitPerSec"}
  BY DEF DefaultNumber
<1>2. \A s \in DOMAIN DefaultNumber : num[s] \in Int /\ num[s] > 0
  BY DurationAssumption DEF Int64s
<1>3. /\ New(num).maxResults \in minAllowedResults .. maxAllowedResults
      /\ num.maxResults \in minAllowedResults .. maxAllowedResults =>
           New(num).maxResults = num.maxResults
      /\ New(num).rateLimitPerSec = num.rateLimitPerSec
  BY <1>1, <1>2 DEF New, minAllowedResults, maxAllowedResults
<1>4. ASSUME NEW s \in {"minRetryDelay", "maxRetryDelay"},
             num[s] * Millisecond < HalfRange
      PROVE  New(num)[s] = num[s] * Millisecond
  <2>1. num[s] * Millisecond \in Nat /\ num[s] * Millisecond > 0
    BY <1>1, <1>2, DurationAssumption
  <2>2. num[s] * Millisecond \in Int64s
    BY <1>4, <2>1, DurationAssumption DEF Int64s
  <2>3. Duration(num[s]) = num[s] * Millisecond /\ Duration(num[s]) # 0
    BY <2>1, <2>2, WrapExact DEF Duration
  <2>4. New(num)[s] = IF Duration(num[s]) = 0 THEN Duration(DefaultNumber[s])
                      ELSE Duration(num[s])
    BY DEF New
  <2> QED
    BY <2>3, <2>4
<1> QED
  BY <1>3, <1>4

(* A configuration that Load accepts has the precedence, the port and the  *)
(* client settings that ConfigPrecedence asks for.                         *)
LEMMA LoadedSettings ==
  ASSUME NEW i \in Sources, ~Load(i.file, i.env).err
  PROVE  LET file == Unmarshal(i.file)
             cfg == Load(i.file, i.env).cfg
             number(s) == IF file.number[s] > 0 THEN file.number[s] ELSE DefaultNumber[s]
             client == New(cfg.number)
             allowed == minAllowedResults .. maxAllowedResults
         IN
         /\ \A s \in TextSettings : cfg.text[s]
              = FirstSet(Unset, <<i.env.text[s], file.text[s],
                  IF s \in DOMAIN DefaultText THEN DefaultText[s] ELSE Unset>>)
         /\ cfg.port = IF i.env.port.set
                         THEN IF i.env.port.parses THEN i.env.port.n ELSE DefaultDBPort
                         ELSE IF file.port # 0 THEN file.port ELSE DefaultDBPort
         /\ client.maxResults \in allowed
         /\ number("maxResults") \in allowed => client.maxResults = number("maxResults")
         /\ client.rateLimitPerSec = number("rateLimitPerSec")
         /\ \A s \in {"minRetryDelay", "maxRetryDelay"} :
              number(s) * Millisecond < HalfRange => client[s] = number(s) * Millisecond
<1> DEFINE file == Unmarshal(i.file)
           cfg1 == applyDefaults(file)
           cfg  == overrideFromEnv(cfg1, i.env)
           num  == applyJiraDefaults(file.number)
           number(s) == IF file.number[s] > 0 THEN file.number[s] ELSE DefaultNumber[s]
<1>1. Load(i.file, i.env).cfg = cfg
  BY DEF Load, Refused
<1>2. \A s \in TextSettings : cfg.text[s]
         = FirstSet(Unset, <<i.env.text[s], Unmarshal(i.file).text[s],
             IF s \in DOMAIN DefaultText THEN DefaultText[s] ELSE Unset>>)
  BY LoadText
<1>3. /\ DOMAIN file = {"text", "number", "port", "enabled"}
      /\ file.number \in [DOMAIN DefaultNumber -> Int64s] /\ file.port \in Int64s
  BY UnmarshalShape
<1> HIDE DEF file
<1>4. /\ DOMAIN cfg1 = {"text", "number", "port", "enabled"}
      /\ cfg1.number = num
      /\ cfg1.port = IF file.port # 0 THEN file.port ELSE DefaultDBPort
  BY <1>3 DEF applyDefaults
<1> HIDE DEF cfg1
<1>5. cfg.number = num /\ cfg.port = IF i.env.port.set
                                     THEN parseInt(i.env.port, DefaultDBPort)
                                     ELSE cfg1.port
  BY <1>4 DEF overrideFromEnv
<1>6. cfg.port = IF i.env.port.set
                   THEN IF i.env.port.parses THEN i.env.port.n ELSE DefaultDBPort
                   ELSE IF file.port # 0 THEN file.port ELSE DefaultDBPort
  BY <1>4, <1>5 DEF parseInt
<1>7. DOMAIN DefaultNumber = {"maxResults", "minRetryDelay", "maxRetryDelay",
                              "rateLimitPerSec"}
  BY DEF DefaultNumber
<1>8. \A s \in DOMAIN DefaultNumber : DefaultNumber[s] \in Int64s /\ DefaultNumber[s] > 0
  BY <1>7, DefaultsFit DEF DefaultNumber
<1>9. /\ num \in [DOMAIN DefaultNumber -> Int64s]
      /\ \A s \in DOMAIN DefaultNumber : num[s] = number(s) /\ num[s] > 0
  <2>1. \A s \in DOMAIN DefaultNumber : file.number[s] \in Int
    BY <1>3, DurationAssumption DEF Int64s
  <2> QED
    BY <1>3, <1>8, <2>1 DEF applyJiraDefaults
<1> HIDE DEF num, number, cfg
<1>10. /\ New(num).maxResults \in minAllowedResults .. maxAllowedResults
       /\ num.maxResults \in minAllowedResults .. maxAllowedResults =>
            New(num).maxResults = num.maxResults
       /\ New(num).rateLimitPerSec = num.rateLimitPerSec
       /\ \A s \in {"minRetryDelay", "maxRetryDelay"} :
            num[s] * Millisecond < HalfRange => New(num)[s] = num[s] * Millisecond
  BY <1>9, ClientSettings
<1>11. /\ num.maxResults = number("maxResults")
       /\ num.rateLimitPerSec = number("rateLimitPerSec")
       /\ \A s \in {"minRetryDelay", "maxRetryDelay"} : num[s] = number(s)
  BY <1>7, <1>9
<1>12. cfg.number = num
  BY <1>5
<1>13. /\ New(cfg.number).maxResults \in minAllowedResults .. maxAllowedResults
       /\ number("maxResults") \in minAllowedResults .. maxAllowedResults =>
            New(cfg.number).maxResults = number("maxResults")
       /\ New(cfg.number).rateLimitPerSec = number("rateLimitPerSec")
       /\ \A s \in {"minRetryDelay", "maxRetryDelay"} :
            number(s) * Millisecond < HalfRange =>
              New(cfg.number)[s] = number(s) * Millisecond
  BY <1>10, <1>11, <1>12
<1> QED
  BY <1>1, <1>2, <1>6, <1>13 DEF number, file

(* Load refuses exactly what cannot be read or names no Jira server.       *)
LEMMA LoadRefuses ==
  ASSUME NEW i \in Sources
  PROVE  Load(i.file, i.env).err
           = ~(/\ i.file.read \in {"ok", "missing"}
               /\ FirstSet(Unset, <<i.env.text["JIRA_BASE_URL"],
                    Unmarshal(i.file).text["JIRA_BASE_URL"],
                    IF "JIRA_BASE_URL" \in DOMAIN DefaultText
                      THEN DefaultText["JIRA_BASE_URL"] ELSE Unset>>) # Unset)
<1> DEFINE cfg == overrideFromEnv(applyDefaults(Unmarshal(i.file)), i.env)
<1>1. cfg.text["JIRA_BASE_URL"]
        = FirstSet(Unset, <<i.env.text["JIRA_BASE_URL"],
            Unmarshal(i.file).text["JIRA_BASE_URL"],
            IF "JIRA_BASE_URL" \in DOMAIN DefaultText
              THEN DefaultText["JIRA_BASE_URL"] ELSE Unset>>)
  BY LoadText DEF TextSettings
<1>2. i.file.read \in {"ok", "missing", "unreadable", "malformed"}
  BY DEF Sources
<1>3. Load(i.file, i.env) = IF i.file.read \in {"unreadable", "malformed"} \/ ~validate(cfg)
                            THEN Refused ELSE [err |-> FALSE, cfg |-> cfg]
  BY DEF Load
<1> HIDE DEF cfg
<1>4. CASE i.file.read \in {"unreadable", "malformed"} \/ ~validate(cfg)
  <2>1. Load(i.file, i.env).err = TRUE
    BY <1>3, <1>4 DEF Refused
  <2> QED
    BY <1>1, <1>4, <2>1 DEF validate
<1>5. CASE ~(i.file.read \in {"unreadable", "malformed"} \/ ~validate(cfg))
  <2>1. Load(i.file, i.env).err = FALSE
    BY <1>3, <1>5
  <2> QED
    BY <1>1, <1>2, <1>5, <2>1 DEF validate
<1> QED
  BY <1>4, <1>5

(* The invariant implies the precedence of the sources.                    *)
LEMMA ConfigInvPrecedence == ProcessType /\ ConfigInv => ConfigPrecedence
<1> SUFFICES ASSUME ProcessType, ConfigInv PROVE ConfigPrecedence
  OBVIOUS
<1>1. input \in Sources
  BY DEF ProcessType
<1>2. PICK i \in Sources : i = input
  BY <1>1
<1>3. CASE Up /\ ~In("config")
  <2>1. proc.cfg = Load(i.file, i.env).cfg /\ ~Load(i.file, i.env).err
    BY <1>2, <1>3 DEF ConfigInv
  <2> QED
    BY <1>2, <1>3, <2>1, LoadedSettings DEF ConfigPrecedence
<1>4. CASE In("config")
  BY <1>2, <1>4, LoadRefuses DEF ConfigPrecedence
<1> QED
  BY <1>3, <1>4 DEF ConfigPrecedence

-----------------------------------------------------------------------------
(* What Ends does apart from the process itself.                           *)
Forgets ==
  /\ byID' = {} /\ byKey' = [k \in Keys |-> NoJob]
  /\ job' = [id \in SyncIDs |-> NewJob(NoKey, JobStateNone)]
  /\ go' = [id \in SyncIDs |-> NoSync]
  /\ call' = [c \in Callers |-> [call[c] EXCEPT !.pc = "idle"]]
  /\ UNCHANGED <<now, mu, snap, durable>>

(* Whatever ends the process, the pages and what callers were told remain. *)
LEMMA EndsLifeInv ==
  ASSUME LifeInv, Forgets, proc' \in Process, ~Up',
         proc'.lis => mode = "serve",
         proc'.exit = "1" /\ proc'.hook = "none" => ~proc'.lis /\ ~proc'.db,
         mode = "run" /\ proc'.exit = "0" /\ ~proc'.quit => Stored(starts, call[App].id)
  PROVE  LifeInv'
<1>1. ProcessType' /\ StageInv' /\ DrainInv' /\ ConfigInv'
  BY DEF LifeInv, Forgets, durable, ProcessType, StageInv, DrainInv, ConfigInv, Up,
         HookAt, In, Process, Mains
<1>2. \A c \in Callers : /\ call'[c] \in Call /\ call'[c].pc = "idle"
                         /\ call'[c].key = call[c].key /\ call'[c].id = call[c].id
                         /\ call'[c].life = call[c].life
  BY DEF LifeInv, MemoryType, Forgets, Call
<1>3. call' \in [Callers -> Call]
  BY <1>2 DEF Forgets
<1>4. NewJob(NoKey, JobStateNone) \in Job /\ NoSync \in SyncGo
  BY DEF NewJob, Job, JobStates, JobStateNone, NoMsg, NoSync, SyncGo
<1>5. MemoryType'
  BY <1>3, <1>4 DEF LifeInv, MemoryType, Forgets, durable
<1>6. \A id \in SyncIDs : /\ job'[id].state = JobStateNone
                          /\ go'[id].pc = "none"
  BY DEF Forgets, NewJob, NoSync
<1>7. GoneInv'
  BY <1>2, <1>6 DEF GoneInv, Born
<1>8. IdentityInv'
  BY <1>2, <1>6 DEF LifeInv, IdentityInv, MemoryType, Forgets, durable, Born
<1>9. \A l, id : Stored(l, id)' <=> Stored(l, id)
  BY DEF Stored, Forgets, durable
<1>10. PagesInv'
  BY <1>2, <1>6 DEF PagesInv, Callers, JobStateNone, JobStateCompleted
<1>11. ToldTheTruth'
  BY <1>2, <1>9 DEF LifeInv, ToldTheTruth, Forgets, durable, Callers
<1> QED
  BY <1>1, <1>5, <1>7, <1>8, <1>10, <1>11 DEF LifeInv

(* A step of the main goroutine or the hook changes nothing but proc.      *)
LEMMA BecomesLifeInv ==
  ASSUME LifeInv, UNCHANGED <<manager, call, go, mode, input, rows, used, told, starts>>,
         Up, Up', proc'.exit = "none",
         ProcessType', StageInv', DrainInv', ConfigInv'
  PROVE  LifeInv'
<1>1. MemoryType' /\ IdentityInv'
  BY DEF LifeInv, MemoryType, IdentityInv, manager, Born
<1>2. GoneInv' /\ PagesInv' /\ ToldTheTruth'
  BY DEF LifeInv, GoneInv, PagesInv, ToldTheTruth, manager, Stored
<1> QED
  BY <1>1, <1>2 DEF LifeInv

(* The process is started with nothing open and nothing remembered.        *)
LEMMA StartLifeInv ==
  ASSUME LifeInv, Start
  PROVE  LifeInv'
<1>1. /\ ~Up /\ starts' = starts + 1 /\ proc' = [Off EXCEPT !.main = "config"]
      /\ UNCHANGED <<manager, go, mode, input, rows, schema, used, told>>
      /\ call' = [c \in Callers |-> IF c = App THEN Idle ELSE call[c]]
  BY DEF Start
<1>2. /\ proc' \in Process /\ proc'.main = "config" /\ proc'.exit = "none"
      /\ proc'.lis = FALSE /\ proc'.db = FALSE /\ proc'.hook = "none"
  BY <1>1 DEF Off, Process, Mains, Configs
<1>3. ProcessType' /\ StageInv' /\ DrainInv' /\ ConfigInv'
  BY <1>1, <1>2 DEF LifeInv, ProcessType, StageInv, DrainInv, ConfigInv, Up, HookAt, In
<1>4. Idle \in Call /\ starts \in Nat /\ App \in Callers
  BY DEF Idle, Call, LifeInv, MemoryType, Callers
<1>5. MemoryType'
  BY <1>1, <1>4 DEF LifeInv, MemoryType, manager
<1>6. /\ \A id \in SyncIDs : ~Born(id) /\ ~Born(id)' /\ go'[id].pc = "none"
                             /\ job'[id].state # JobStateCompleted
      /\ \A c \in Callers : call'[c].pc = "idle"
  BY <1>1, <1>4 DEF LifeInv, GoneInv, manager, Born, Idle, JobStateNone,
                    JobStateCompleted
<1>7. GoneInv' /\ PagesInv'
  BY <1>4, <1>6 DEF GoneInv, PagesInv
<1>8. IdentityInv'
  <2>1. \A id \in byID' : Born(id)'
    BY <1>1 DEF LifeInv, IdentityInv, manager, Born
  <2>2. \A k \in Keys : byKey'[k] # NoJob => Born(byKey[k])'
    BY <1>1 DEF LifeInv, IdentityInv, manager, Born
  <2>3. \A c \in Callers : call'[c].id # NoJob => call'[c].id = call[c].id
    BY <1>1 DEF Idle
  <2> QED
    BY <1>1, <1>4, <1>6, <2>1, <2>2, <2>3 DEF LifeInv, MemoryType, Call, IdentityInv, manager
<1>9. ToldTheTruth'
  BY <1>1, <1>2 DEF LifeInv, ToldTheTruth, Stored
<1> QED
  BY <1>3, <1>5, <1>7, <1>8, <1>9 DEF LifeInv

(* A crash, or a signal that nobody takes.                                 *)
LEMMA CrashLifeInv ==
  ASSUME LifeInv, Crash \/ Signal
  PROVE  LifeInv'
<1>1. CASE Ends(Off)
  <2>1. Forgets /\ proc' = Off
    BY <1>1 DEF Ends, Forgets
  <2>2. proc' \in Process /\ ~Up' /\ ~proc'.lis /\ proc'.exit = "none"
    BY <2>1 DEF Off, Process, Mains, Configs, Up
  <2> QED
    BY <2>1, <2>2, EndsLifeInv
<1>2. CASE Up /\ Becomes([proc EXCEPT !.quit = TRUE])
  <2>1. /\ UNCHANGED <<manager, call, go, durable>> /\ proc' \in Process
        /\ proc'.main = proc.main /\ proc'.exit = proc.exit /\ proc'.lis = proc.lis
        /\ proc'.db = proc.db /\ proc'.hook = proc.hook /\ proc'.grpc = proc.grpc
        /\ proc'.cfg = proc.cfg
    BY <1>2 DEF LifeInv, ProcessType, Process, Becomes
  <2>2. ProcessType' /\ StageInv' /\ DrainInv' /\ ConfigInv' /\ proc'.exit = "none" /\ Up'
    BY <1>2, <2>1 DEF LifeInv, ProcessType, StageInv, DrainInv, ConfigInv, Up, HookAt, In, durable
  <2> QED
    BY <1>2, <2>1, <2>2, BecomesLifeInv DEF durable
<1> QED
  BY <1>1, <1>2 DEF Crash, Signal

(* A process that stops before it has opened anything, or after closing    *)
(* what it had opened, ends with exit status 1.                            *)
LEMMA ExitsLifeInv ==
  ASSUME LifeInv, Forgets, NEW p \in Process, ~p.lis, ~p.db,
         proc' = [p EXCEPT !.main = "exited", !.exit = "1"]
  PROVE  LifeInv'
<1>1. /\ proc' \in Process /\ ~Up' /\ ~proc'.lis /\ ~proc'.db /\ proc'.exit # "0"
  BY DEF Process, Mains, Up
<1> QED
  BY <1>1, EndsLifeInv

(* LoadConfig: the settings are taken over, or the process ends.           *)
LEMMA LoadConfigLifeInv ==
  ASSUME LifeInv, LoadConfig
  PROVE  LifeInv'
<1> DEFINE loaded == Load(input.file, input.env)
<1>1. In("config") /\ proc \in Process /\ ~proc.lis /\ ~proc.db /\ Up
  BY DEF LoadConfig, LifeInv, ProcessType, StageInv, In, Up
<1>2. CASE Exit(proc, "1")
  BY <1>1, <1>2, ExitsLifeInv DEF Exit, Ends, Forgets
<1>3. CASE /\ ~loaded.err
           /\ Becomes([proc EXCEPT !.cfg = loaded.cfg,
                         !.main = IF mode = "serve" THEN "listen" ELSE "open"])
  <2>1. loaded.cfg \in Configs
    BY DEF LifeInv, ProcessType, Configs
  <2>2. /\ proc'.main = (IF mode = "serve" THEN "listen" ELSE "open")
        /\ proc'.cfg = loaded.cfg /\ proc' \in Process
        /\ proc'.lis = FALSE /\ proc'.db = FALSE /\ proc'.hook = proc.hook
        /\ proc'.exit = proc.exit /\ proc'.grpc = proc.grpc
        /\ UNCHANGED <<manager, call, go, durable>>
    BY <1>1, <1>3, <2>1 DEF Process, Mains, Becomes
  <2>3. ProcessType' /\ StageInv' /\ Up' /\ proc'.exit = "none"
    BY <1>1, <2>2 DEF LifeInv, ProcessType, StageInv, Up, In, durable
  <2>4. DrainInv' /\ ConfigInv'
    BY <1>1, <1>3, <2>2 DEF LifeInv, StageInv, DrainInv, ConfigInv, Up, HookAt, In, durable
  <2> QED
    BY <1>1, <2>2, <2>3, <2>4, BecomesLifeInv DEF durable
<1> QED
  BY <1>2, <1>3 DEF LoadConfig

(* Listening, opening and pinging: on failure what was opened is closed.   *)
LEMMA OpenLifeInv ==
  ASSUME LifeInv, Listen \/ Open \/ Ping
  PROVE  LifeInv'
<1>1. proc \in Process /\ Up /\ proc.exit = "none" /\ proc.hook = "none"
  BY DEF Listen, Open, Ping, LifeInv, ProcessType, StageInv, In, Up
<1>2. CASE Listen
  <2>1. ~proc.lis /\ ~proc.db /\ mode = "serve" /\ proc.main = "listen"
    BY <1>2 DEF Listen, LifeInv, StageInv, In
  <2>2. CASE Exit(proc, "1")
    BY <1>1, <2>1, <2>2, ExitsLifeInv DEF Exit, Ends, Forgets
  <2>3. CASE Becomes([proc EXCEPT !.lis = TRUE, !.main = "open"])
    <3>1. /\ proc' \in Process /\ proc'.main = "open" /\ proc'.db = FALSE
          /\ proc'.hook = "none" /\ proc'.exit = "none" /\ proc'.cfg = proc.cfg
          /\ UNCHANGED <<manager, call, go, durable>>
      BY <1>1, <2>1, <2>3 DEF Process, Mains, Becomes
    <3>2. ProcessType' /\ StageInv' /\ DrainInv' /\ ConfigInv' /\ Up'
      BY <1>1, <2>1, <3>1 DEF LifeInv, ProcessType, StageInv, DrainInv, ConfigInv,
                              Up, HookAt, In, durable
    <3> QED
      BY <1>1, <3>1, <3>2, BecomesLifeInv DEF durable
  <2> QED
    BY <1>2, <2>2, <2>3 DEF Listen
<1>3. CASE Open
  <2>1. ~proc.db /\ proc.main = "open"
    BY <1>3 DEF Open, LifeInv, StageInv, In
  <2>2. CASE ConnectionFails(proc)
    <3>1. [proc EXCEPT !.lis = FALSE] \in Process
          /\ ~[proc EXCEPT !.lis = FALSE].lis /\ ~[proc EXCEPT !.lis = FALSE].db
      BY <1>1, <2>1 DEF Process
    <3> QED
      BY <2>2, <3>1, ExitsLifeInv DEF ConnectionFails, Exit, Ends, Forgets
  <2>3. CASE Becomes([proc EXCEPT !.db = TRUE, !.main = "ping"])
    <3>1. /\ proc' \in Process /\ proc'.main = "ping" /\ proc'.lis = proc.lis
          /\ proc'.hook = "none" /\ proc'.exit = "none" /\ proc'.cfg = proc.cfg
          /\ UNCHANGED <<manager, call, go, durable>>
      BY <1>1, <2>3 DEF Process, Mains, Becomes
    <3>2. ProcessType' /\ StageInv' /\ DrainInv' /\ ConfigInv' /\ Up'
      BY <1>1, <2>1, <3>1 DEF LifeInv, ProcessType, StageInv, DrainInv, ConfigInv,
                              Up, HookAt, In, durable
    <3> QED
      BY <1>1, <3>1, <3>2, BecomesLifeInv DEF durable
  <2> QED
    BY <1>3, <2>2, <2>3 DEF Open
<1>4. CASE Ping
  <2>1. proc.main = "ping"
    BY <1>4 DEF Ping, In
  <2>2. CASE ConnectionFails([proc EXCEPT !.db = FALSE])
    <3> DEFINE p == [[proc EXCEPT !.db = FALSE] EXCEPT !.lis = FALSE]
    <3>1. p \in Process /\ ~p.lis /\ ~p.db
      BY <1>1 DEF Process
    <3> QED
      BY <2>2, <3>1, ExitsLifeInv DEF ConnectionFails, Exit, Ends, Forgets
  <2>3. CASE Becomes([proc EXCEPT !.main = "migrate"])
    <3>1. /\ proc' \in Process /\ proc'.main = "migrate" /\ proc'.lis = proc.lis
          /\ proc'.hook = "none" /\ proc'.exit = "none" /\ proc'.cfg = proc.cfg
          /\ UNCHANGED <<manager, call, go, durable>>
      BY <1>1, <2>3 DEF Process, Mains, Becomes
    <3>2. ProcessType' /\ StageInv' /\ DrainInv' /\ ConfigInv' /\ Up'
      BY <1>1, <2>1, <3>1 DEF LifeInv, ProcessType, StageInv, DrainInv, ConfigInv,
                              Up, HookAt, In, durable
    <3> QED
      BY <1>1, <3>1, <3>2, BecomesLifeInv DEF durable
  <2> QED
    BY <1>4, <2>2, <2>3 DEF Ping
<1> QED
  BY <1>2, <1>3, <1>4

(* The schema is current whenever the start goes on after the migrations.  *)
LEMMA MigrateLifeInv ==
  ASSUME LifeInv, MigrateUp \/ Migrated \/ MigrateNoChange
  PROVE  LifeInv'
<1>1. /\ proc \in Process /\ Up /\ proc.exit = "none" /\ proc.hook = "none"
      /\ proc.main \in {"migrate", "migrating"}
  BY DEF MigrateUp, Migrated, MigrateNoChange, LifeInv, ProcessType, StageInv, In, Up
<1>2. /\ UNCHANGED <<manager, call, go, mode, input, rows, used, told, starts>>
      /\ \/ proc' = [proc EXCEPT !.main = "migrating"]
         \/ proc' = [proc EXCEPT !.main = "build"] /\ schema' = "current"
  BY DEF MigrateUp, Migrated, MigrateNoChange, Becomes, durable
<1>3. /\ proc' \in Process /\ proc'.lis = proc.lis /\ proc'.hook = "none"
      /\ proc'.exit = "none" /\ proc'.cfg = proc.cfg
      /\ \/ proc'.main = "migrating"
         \/ proc'.main = "build" /\ schema' = "current"
  BY <1>1, <1>2 DEF Process, Mains
<1>4. ProcessType' /\ StageInv' /\ DrainInv' /\ ConfigInv' /\ Up'
  BY <1>1, <1>2, <1>3 DEF LifeInv, ProcessType, StageInv, DrainInv, ConfigInv, Up, HookAt, In
<1> QED
  BY <1>1, <1>2, <1>3, <1>4, BecomesLifeInv

(* A failed migration closes the pool and the listener.                    *)
LEMMA MigrateFailsLifeInv ==
  ASSUME LifeInv, MigrateFails
  PROVE  LifeInv'
<1> DEFINE p == [[proc EXCEPT !.db = FALSE] EXCEPT !.lis = FALSE]
<1>1. p \in Process /\ ~p.lis /\ ~p.db
  BY DEF LifeInv, ProcessType, Process
<1> QED
  BY <1>1, ExitsLifeInv DEF MigrateFails, ConnectionFails, Exit, Ends, Forgets

(* The servers are built and the shutdown hook is registered.              *)
LEMMA BuildLifeInv ==
  ASSUME LifeInv, BuildServer \/ RegisterShutdownHook
  PROVE  LifeInv'
<1>1. /\ proc \in Process /\ Up /\ proc.exit = "none" /\ proc.hook = "none"
      /\ mode = "serve" /\ schema = "current" /\ proc.main \in {"build", "hook"}
  BY DEF BuildServer, RegisterShutdownHook, LifeInv, ProcessType, StageInv, In, Up
<1>2. startObservability
        \in [Endpoints -> {"off", "starting", "listening", "failed", "stopped"}]
  BY DEF startObservability
<1>3. CASE BuildServer
  <2>1. /\ proc' \in Process /\ proc'.main = "hook" /\ proc'.lis = proc.lis
        /\ proc'.hook = "none" /\ proc'.exit = "none" /\ proc'.cfg = proc.cfg
        /\ UNCHANGED <<manager, call, go, durable>>
    BY <1>1, <1>2, <1>3 DEF BuildServer, Becomes, Process, Mains
  <2>2. ProcessType' /\ StageInv' /\ DrainInv' /\ ConfigInv' /\ Up'
    BY <1>1, <2>1 DEF LifeInv, ProcessType, StageInv, DrainInv, ConfigInv, Up, HookAt, In, durable
  <2> QED
    BY <1>1, <2>1, <2>2, BecomesLifeInv DEF durable
<1>4. CASE RegisterShutdownHook
  <2>1. /\ proc' \in Process /\ proc'.main = "serve" /\ proc'.lis = proc.lis
        /\ proc'.hook = "waiting" /\ proc'.exit = "none" /\ proc'.cfg = proc.cfg
        /\ UNCHANGED <<manager, call, go, durable>>
    BY <1>1, <1>4 DEF RegisterShutdownHook, Becomes, Process, Mains
  <2>2. ProcessType' /\ StageInv' /\ DrainInv' /\ ConfigInv' /\ Up'
    BY <1>1, <2>1 DEF LifeInv, ProcessType, StageInv, DrainInv, ConfigInv, Up, HookAt, In, durable
  <2> QED
    BY <1>1, <2>1, <2>2, BecomesLifeInv DEF durable
<1> QED
  BY <1>3, <1>4

(* The server serves, or ends because it has been stopped already.         *)
LEMMA ServeLifeInv ==
  ASSUME LifeInv, Serve \/ ServeReturns
  PROVE  LifeInv'
<1>1. /\ proc \in Process /\ Up /\ proc.exit = "none" /\ proc.hook # "none"
      /\ mode = "serve" /\ schema = "current" /\ proc.main \in {"serve", "serving"}
  BY DEF Serve, ServeReturns, LifeInv, ProcessType, StageInv, In, Up
<1>2. CASE /\ proc.grpc = "built"
           /\ Becomes([proc EXCEPT !.grpc = "serving", !.main = "serving"])
  <2>1. /\ proc' \in Process /\ proc'.main = "serving" /\ proc'.lis = proc.lis
        /\ proc'.hook = proc.hook /\ proc'.exit = "none" /\ proc'.cfg = proc.cfg
        /\ proc'.grpc = "serving"
        /\ UNCHANGED <<manager, call, go, durable>>
    BY <1>1, <1>2 DEF Becomes, Process, Mains
  <2>2. ProcessType' /\ StageInv' /\ DrainInv' /\ ConfigInv' /\ Up'
    BY <1>1, <1>2, <2>1 DEF LifeInv, ProcessType, StageInv, DrainInv, ConfigInv, Up,
                            HookAt, In, durable
  <2> QED
    BY <1>1, <2>1, <2>2, BecomesLifeInv DEF durable
<1>3. CASE \/ Exit([proc EXCEPT !.lis = FALSE], "1")
           \/ Exit(proc, "0")
  <2>1. Forgets /\ proc' \in Process /\ ~Up' /\ proc'.hook # "none"
    <3>1. Forgets
      BY <1>3 DEF Exit, Ends, Forgets
    <3>2. CASE Exit([proc EXCEPT !.lis = FALSE], "1")
      BY <1>1, <3>1, <3>2 DEF Exit, Ends, Process, Mains, Up
    <3>3. CASE Exit(proc, "0")
      BY <1>1, <3>1, <3>3 DEF Exit, Ends, Process, Mains, Up
    <3> QED
      BY <1>3, <3>2, <3>3
  <2> QED
    BY <1>1, <2>1, EndsLifeInv
<1> QED
  BY <1>2, <1>3 DEF Serve, ServeReturns

(* The steps of Server.Close: the RPCs are over before the pool closes.    *)
LEMMA CloseLifeInv ==
  ASSUME LifeInv, Close
  PROVE  LifeInv'
<1>1. /\ proc \in Process /\ Up /\ proc.exit = "none" /\ proc.hook # "none"
      /\ mode = "serve" /\ schema = "current" /\ proc.main \in {"serve", "serving"}
  BY DEF Close, GracefulStop, GracefulStopReturns, ShutdownObservability, CloseDB,
         HookAt, LifeInv, ProcessType, StageInv, Up
<1>2. /\ proc' \in Process /\ proc'.main = proc.main /\ proc'.exit = "none"
      /\ proc'.cfg = proc.cfg /\ proc'.hook # "none"
      /\ UNCHANGED <<manager, call, go, durable>>
  <2> DEFINE lis == proc.lis /\ proc.grpc # "serving"
             obs == [e \in Endpoints |->
                       IF proc.obs[e] \in {"starting", "listening"} THEN "stopped"
                       ELSE proc.obs[e]]
  <2>1. CASE GracefulStop
    <3>1. proc' = [proc EXCEPT !.hook = "graceful", !.grpc = "stopping", !.lis = lis]
      BY <2>1 DEF GracefulStop, Becomes
    <3>2. lis \in BOOLEAN
      BY <1>1 DEF Process
    <3> HIDE DEF lis
    <3> QED
      BY <1>1, <2>1, <3>1, <3>2 DEF GracefulStop, Becomes, Process
  <2>2. CASE GracefulStopReturns
    BY <1>1, <2>2 DEF GracefulStopReturns, Becomes, Process
  <2>3. CASE ShutdownObservability
    <3>1. proc' = [proc EXCEPT !.hook = "db", !.obs = obs]
      BY <1>1, <2>3 DEF ShutdownObservability, Becomes, Process
    <3>2. obs \in [Endpoints -> {"off", "starting", "listening", "failed", "stopped"}]
      BY <1>1 DEF Process
    <3> HIDE DEF obs
    <3> QED
      BY <1>1, <2>3, <3>1, <3>2 DEF ShutdownObservability, Becomes, Process
  <2>4. CASE CloseDB
    BY <1>1, <2>4 DEF CloseDB, Becomes, Process
  <2> QED
    BY <2>1, <2>2, <2>3, <2>4 DEF Close
<1>3. DrainInv'
  <2>1. CASE GracefulStop
    BY <1>1, <2>1 DEF GracefulStop, Becomes, Process, DrainInv, HookAt
  <2>2. CASE GracefulStopReturns
    BY <1>1, <2>2 DEF GracefulStopReturns, Becomes, Process, DrainInv, HookAt
  <2>3. CASE ShutdownObservability \/ CloseDB
    BY <1>1, <2>3 DEF ShutdownObservability, CloseDB, Becomes, Process, LifeInv,
                      DrainInv, HookAt
  <2> QED
    BY <2>1, <2>2, <2>3 DEF Close
<1>4. ProcessType' /\ StageInv' /\ ConfigInv' /\ Up'
  BY <1>1, <1>2 DEF LifeInv, ProcessType, StageInv, ConfigInv, Up, In, durable
<1> QED
  BY <1>1, <1>2, <1>3, <1>4, BecomesLifeInv DEF durable

(* A diagnostic server comes up or fails in the background.                *)
LEMMA ObsListensLifeInv ==
  ASSUME LifeInv, NEW e \in Endpoints, ObsListens(e)
  PROVE  LifeInv'
<1>1. proc \in Process /\ Up /\ proc.exit = "none"
  BY DEF ObsListens, LifeInv, ProcessType, StageInv
<1>2. PICK r \in {"listening", "failed"} : Becomes([proc EXCEPT !.obs[e] = r])
  BY DEF ObsListens
<1>3. [proc.obs EXCEPT ![e] = r]
        \in [Endpoints -> {"off", "starting", "listening", "failed", "stopped"}]
  BY <1>1 DEF Process
<1>4. /\ proc' \in Process /\ proc'.main = proc.main /\ proc'.exit = "none"
      /\ proc'.cfg = proc.cfg /\ proc'.hook = proc.hook /\ proc'.lis = proc.lis
      /\ proc'.db = proc.db /\ proc'.grpc = proc.grpc
      /\ UNCHANGED <<manager, call, go, durable>>
  BY <1>1, <1>2, <1>3 DEF Becomes, Process
<1>5. ProcessType' /\ StageInv' /\ DrainInv' /\ ConfigInv' /\ Up'
  BY <1>1, <1>4 DEF LifeInv, ProcessType, StageInv, DrainInv, ConfigInv, Up, HookAt, In, durable
<1> QED
  BY <1>1, <1>4, <1>5, BecomesLifeInv DEF durable

-----------------------------------------------------------------------------
(* Calls and syncs leave the process alone, and no call begins once the    *)
(* server is stopping.                                                     *)
LEMMA QuietProcess ==
  ASSUME LifeInv, UNCHANGED <<proc, mode, input, schema>>,
         \/ proc.grpc = "serving"
         \/ \A c \in Clients : call[c].pc = "idle" => call'[c].pc = "idle"
  PROVE  ProcessType' /\ StageInv' /\ DrainInv' /\ ConfigInv'
<1>1. ProcessType' /\ StageInv' /\ ConfigInv'
  BY DEF LifeInv, ProcessType, StageInv, ConfigInv, Up, In
<1>2. DrainInv'
  BY DEF LifeInv, DrainInv, HookAt, Up
<1> QED
  BY <1>1, <1>2

(* A call that moves on, without an answer about any sync.                 *)
LEMMA MovesLifeInv ==
  ASSUME LifeInv, NEW c \in Callers, NEW r \in Call,
         call' = [call EXCEPT ![c] = r],
         r.id = call[c].id, r.life = call[c].life, r.pc # "nil",
         r.pc \in {"ensure", "start"} => r.key \in Keys,
         Up', proc'.exit = "none",
         UNCHANGED <<manager, go, rows, used, told, starts>>,
         ProcessType', StageInv', DrainInv', ConfigInv'
  PROVE  LifeInv'
<1>1. call'[c] = r /\ \A d \in Callers \ {c} : call'[d] = call[d]
  BY DEF LifeInv, MemoryType
<1>2. MemoryType'
  BY DEF LifeInv, MemoryType, manager
<1>3. IdentityInv'
  BY <1>1 DEF LifeInv, IdentityInv, manager, Born
<1>4. App \in Callers
  BY DEF Callers
<1>5. GoneInv' /\ PagesInv' /\ ToldTheTruth'
  BY <1>1, <1>4 DEF LifeInv, GoneInv, PagesInv, ToldTheTruth, manager, Stored
<1> QED
  BY <1>2, <1>3, <1>5 DEF LifeInv

(* A client's request is taken while the server serves.                    *)
LEMMA RequestLifeInv ==
  ASSUME LifeInv, NEW c \in Clients, DownloadProject(c) \/ GetSyncStatus(c)
  PROVE  LifeInv'
<1>1. Up /\ proc.grpc = "serving" /\ UNCHANGED proc /\ proc.exit = "none"
  BY DEF DownloadProject, GetSyncStatus, Accepting, In, Up, LifeInv, StageInv
<1>2. PICK k \in Keys \cup {NoKey}, pc \in {"ensure", "status"} :
        (pc = "ensure" => k \in Keys) /\ Request(c, pc, k)
  BY DEF DownloadProject, GetSyncStatus, LifeInv, MemoryType, Call, Callers
<1> DEFINE r == [call[c] EXCEPT !.pc = pc, !.key = k]
<1>3. c \in Callers /\ call[c] \in Call
  BY DEF Callers, LifeInv, MemoryType
<1>4. /\ r \in Call /\ r.id = call[c].id /\ r.life = call[c].life
      /\ r.pc = pc /\ r.key = k
  BY <1>3 DEF Call
<1>5. call' = [call EXCEPT ![c] = r] /\ UNCHANGED <<manager, go, durable>>
  BY <1>2 DEF Request
<1>6. ProcessType' /\ StageInv' /\ DrainInv' /\ ConfigInv'
  BY <1>1, <1>5, QuietProcess DEF durable
<1> HIDE DEF r
<1> QED
  BY <1>1, <1>2, <1>3, <1>4, <1>5, <1>6, MovesLifeInv DEF durable, Up

(* The command line starts its one sync on a migrated schema.              *)
LEMMA RunAppLifeInv ==
  ASSUME LifeInv, RunApp
  PROVE  LifeInv'
<1>1. /\ proc \in Process /\ proc.main = "build" /\ mode = "run" /\ schema = "current"
      /\ proc.exit = "none" /\ proc.hook = "none" /\ App \in Callers
      /\ call[App] \in Call
  BY DEF RunApp, In, Up, LifeInv, ProcessType, StageInv, MemoryType, Callers
<1>2. PICK k \in Keys : Request(App, "ensure", k)
  BY DEF RunApp
<1> DEFINE r == [call[App] EXCEPT !.pc = "ensure", !.key = k]
<1>3. /\ r \in Call /\ r.id = call[App].id /\ r.life = call[App].life
      /\ r.pc = "ensure" /\ r.key = k
  BY <1>1 DEF Call
<1>4. call' = [call EXCEPT ![App] = r] /\ UNCHANGED <<manager, go, durable>>
  BY <1>2 DEF Request
<1>5. /\ proc' \in Process /\ proc'.main = "select" /\ proc'.lis = proc.lis
      /\ proc'.hook = "none" /\ proc'.exit = "none" /\ proc'.cfg = proc.cfg
  BY <1>1 DEF RunApp, Process, Mains
<1>6. ProcessType' /\ StageInv' /\ DrainInv' /\ ConfigInv' /\ Up'
  BY <1>1, <1>4, <1>5 DEF LifeInv, ProcessType, StageInv, DrainInv, ConfigInv, Up,
                          HookAt, In, durable
<1> HIDE DEF r
<1> QED
  BY <1>1, <1>3, <1>4, <1>5, <1>6, MovesLifeInv DEF durable

(* The command line ends, with status 0 only if it was interrupted or its  *)
(* goroutine returned nil.                                                 *)
LEMMA RunEndsLifeInv ==
  ASSUME LifeInv, RunInterrupted \/ RunReturns
  PROVE  LifeInv'
<1> DEFINE p == [proc EXCEPT !.db = FALSE]
<1>1. /\ proc \in Process /\ mode = "run" /\ ~proc.lis
      /\ call[App].pc = "nil" => Stored(starts, call[App].id)
  BY DEF RunInterrupted, RunReturns, In, LifeInv, ProcessType, StageInv, PagesInv
<1>2. p \in Process /\ ~p.lis /\ ~p.db /\ p.quit = proc.quit
  BY <1>1 DEF Process
<1> HIDE DEF p
<1>3. CASE Exit(p, "1")
  BY <1>2, <1>3, ExitsLifeInv DEF Exit, Ends, Forgets
<1>4. CASE (call[App].pc = "nil" \/ proc.quit) /\ Exit(p, "0")
  <2>1. /\ Forgets /\ proc' \in Process /\ ~Up' /\ ~proc'.lis /\ proc'.exit = "0"
        /\ proc'.quit = proc.quit
    BY <1>2, <1>4 DEF Exit, Ends, Forgets, Process, Mains, Up
  <2> QED
    BY <1>1, <1>4, <2>1, EndsLifeInv
<1> QED
  BY <1>3, <1>4 DEF RunInterrupted, RunReturns, p

(* A call that has begun belongs to a process that is there.               *)
LEMMA CalledWhileUp ==
  ASSUME LifeInv, NEW c \in Callers, call[c].pc # "idle"
  PROVE  Up /\ proc.exit = "none"
BY DEF LifeInv, GoneInv, StageInv

(* ensureProject goes on, or fails the call.                               *)
LEMMA EnsureProjectLifeInv ==
  ASSUME LifeInv, NEW c \in Callers, EnsureProject(c)
  PROVE  LifeInv'
<1>1. /\ call[c].pc = "ensure" /\ call[c].key \in Keys /\ call[c] \in Call
      /\ UNCHANGED <<manager, proc, go, durable>>
  BY DEF EnsureProject, LifeInv, IdentityInv, MemoryType
<1>2. PICK pc \in {"start", "err", "idle"} : Moves(c, pc)
  BY DEF EnsureProject, Then
<1> DEFINE r == [call[c] EXCEPT !.pc = pc]
<1>3. /\ r \in Call /\ r.id = call[c].id /\ r.life = call[c].life
      /\ r.pc = pc /\ r.key = call[c].key
  BY <1>1 DEF Call
<1>4. call' = [call EXCEPT ![c] = r]
  BY <1>2 DEF Moves
<1>5. Up' /\ proc'.exit = "none"
  BY <1>1, CalledWhileUp DEF Up
<1>6. \A d \in Clients : call[d].pc = "idle" => call'[d].pc = "idle"
  BY <1>1, <1>4 DEF LifeInv, MemoryType, Callers
<1>7. ProcessType' /\ StageInv' /\ DrainInv' /\ ConfigInv'
  BY <1>1, <1>6, QuietProcess DEF durable
<1> HIDE DEF r
<1> QED
  BY <1>1, <1>3, <1>4, <1>5, <1>7, MovesLifeInv DEF durable

(* A call that is given the id of a running sync was given it by this      *)
(* process.                                                                *)
LEMMA JoinSyncLifeInv ==
  ASSUME LifeInv, NEW c \in Callers, JoinSync(c)
  PROVE  LifeInv'
<1>1. PICK id \in SyncIDs : id = byKey[call[c].key] /\ Born(id) /\ id \in used
  BY DEF JoinSync, StartExisting, LifeInv, IdentityInv, MemoryType
<1>2. /\ call[c].pc = "start" /\ call[c] \in Call /\ starts \in Nat /\ App \in Callers
      /\ UNCHANGED <<proc, go, durable, byKey, job, now, mu, snap>>
      /\ byID' \subseteq byID
  BY DEF JoinSync, StartExisting, evictExpiredLocked, LifeInv, MemoryType, Callers
<1>3. PICK pc \in {"status", "idle"} : Given(c, pc, id)
  BY <1>1 DEF JoinSync, Then
<1> DEFINE r == [call[c] EXCEPT !.pc = pc, !.id = id, !.life = starts]
<1>4. r \in Call /\ r.id = id /\ r.life = starts /\ r.pc = pc
  BY <1>2 DEF Call
<1>5. call' = [call EXCEPT ![c] = r]
  BY <1>3 DEF Given
<1> HIDE DEF r
<1>6. call'[c] = r /\ \A d \in Callers \ {c} : call'[d] = call[d]
  BY <1>5 DEF LifeInv, MemoryType
<1>7. Up /\ Up'
  BY <1>2, CalledWhileUp DEF Up
<1>8. ProcessType' /\ StageInv' /\ DrainInv' /\ ConfigInv'
  <2>1. \A d \in Clients : call[d].pc = "idle" => call'[d].pc = "idle"
    BY <1>2, <1>6 DEF Callers
  <2> QED
    BY <1>2, <2>1, QuietProcess DEF durable
<1>9. MemoryType' /\ GoneInv'
  BY <1>2, <1>4, <1>5, <1>7 DEF LifeInv, MemoryType, GoneInv, durable
<1>10. IdentityInv'
  BY <1>1, <1>2, <1>4, <1>6 DEF LifeInv, IdentityInv, Born, durable
<1>11. PagesInv' /\ ToldTheTruth'
  <2>1. proc'.exit = "none"
    BY <1>2, CalledWhileUp
  <2> QED
    BY <1>2, <1>4, <1>6, <2>1 DEF LifeInv, PagesInv, ToldTheTruth, Stored, durable
<1> QED
  BY <1>8, <1>9, <1>10, <1>11 DEF LifeInv

(* A sync is started under an id that no call and no page knows.           *)
LEMMA StartSyncLifeInv ==
  ASSUME LifeInv, NEW c \in Callers, NEW id \in SyncIDs, StartSync(c, id)
  PROVE  LifeInv'
<1> DEFINE k == call[c].key
           j == NewJob(k, JobStateRunning)
           r == [call[c] EXCEPT !.pc = Then(c, "status"), !.id = id, !.life = starts]
<1>1. /\ call[c].pc = "start" /\ k \in Keys /\ call[c] \in Call /\ starts \in Nat
      /\ App \in Callers /\ id \notin used
  BY DEF StartSync, Fresh, LifeInv, IdentityInv, MemoryType, Callers
<1>2. /\ UNCHANGED <<proc, mode, input, rows, schema, told, starts, now, mu, snap>>
      /\ byID' = evictExpiredLocked \cup {id} /\ byKey' = [byKey EXCEPT ![k] = id]
      /\ job' = [job EXCEPT ![id] = j] /\ used' = used \cup {id}
      /\ go' = [go EXCEPT ![id] = [pc |-> "begin", page |-> 1]]
      /\ call' = [call EXCEPT ![c] = r]
  BY DEF StartSync, StartNew, Given
<1>3. j \in Job /\ j.state = JobStateRunning
  BY <1>1 DEF NewJob, Job, JobStates, JobStateRunning, NoMsg
<1>4. r \in Call /\ r.id = id /\ r.life = starts /\ r.pc \in {"status", "idle"}
  BY <1>1 DEF Call, Then
<1>5. [pc |-> "begin", page |-> 1] \in SyncGo
  BY DEF SyncGo
<1> HIDE DEF k, j, r
<1>6. /\ call'[c] = r /\ \A d \in Callers \ {c} : call'[d] = call[d]
      /\ job'[id] = j /\ \A i \in SyncIDs \ {id} : job'[i] = job[i]
      /\ go'[id] = [pc |-> "begin", page |-> 1]
      /\ \A i \in SyncIDs \ {id} : go'[i] = go[i]
      /\ byKey'[k] = id /\ \A q \in Keys \ {k} : byKey'[q] = byKey[q]
  BY <1>1, <1>2 DEF LifeInv, MemoryType
<1>7. Up /\ Up' /\ proc'.exit = "none"
  BY <1>1, <1>2, CalledWhileUp DEF Up
<1>8. ProcessType' /\ StageInv' /\ DrainInv' /\ ConfigInv'
  <2>1. \A d \in Clients : call[d].pc = "idle" => call'[d].pc = "idle"
    BY <1>1, <1>6 DEF Callers
  <2> QED
    BY <1>2, <2>1, QuietProcess
<1>9. MemoryType' /\ GoneInv'
  BY <1>1, <1>2, <1>3, <1>4, <1>5, <1>7 DEF LifeInv, MemoryType, GoneInv, evictExpiredLocked
<1>10. IdentityInv'
  <2>1. Born(id)' /\ \A i \in SyncIDs : Born(i) => Born(i)'
    BY <1>3, <1>6 DEF Born, JobStateRunning, JobStateNone
  <2>2. \A i \in SyncIDs \ {id} : Born(i)' => Born(i)
    BY <1>6 DEF Born
  <2>3. \A i \in byID' : Born(i)'
    BY <1>2, <2>1 DEF LifeInv, IdentityInv, MemoryType, evictExpiredLocked
  <2>4. \A q \in Keys : byKey'[q] # NoJob => Born(byKey[q])'
    BY <1>6, <2>1 DEF LifeInv, IdentityInv, MemoryType, Born
  <2>5. \A i \in SyncIDs : Born(i)' => i \in used'
    BY <1>2, <2>2 DEF LifeInv, IdentityInv
  <2>6. \A d \in Callers : /\ call'[d].pc \in {"ensure", "start"} => call'[d].key \in Keys
                           /\ call'[d].id # NoJob => call'[d].id \in used'
    BY <1>2, <1>4, <1>6 DEF LifeInv, IdentityInv
  <2>7. \A d \in Callers :
          call'[d].id # NoJob /\ Born(call[d].id)' => call'[d].life = starts'
    <3> SUFFICES ASSUME NEW d \in Callers, call'[d].id # NoJob, Born(call[d].id)'
                 PROVE  call'[d].life = starts'
      OBVIOUS
    <3>1. CASE d = c
      BY <1>2, <1>4, <1>6, <3>1
    <3>2. CASE d # c
      <4>1. call'[d] = call[d] /\ call[d].id \in used
        BY <1>6, <3>2 DEF LifeInv, IdentityInv
      <4>2. call[d].id \in SyncIDs \ {id}
        BY <1>1, <4>1 DEF LifeInv, MemoryType
      <4>3. Born(call[d].id)
        BY <1>6, <4>1, <4>2 DEF Born
      <4> QED
        BY <1>2, <4>1, <4>3 DEF LifeInv, IdentityInv
    <3> QED
      BY <3>1, <3>2
  <2> QED
    BY <2>3, <2>4, <2>5, <2>6, <2>7 DEF IdentityInv, Born
<1>11. PagesInv'
  BY <1>1, <1>2, <1>3, <1>4, <1>6 DEF LifeInv, PagesInv, Stored, JobStateRunning,
                                      JobStateCompleted
<1>12. ToldTheTruth'
  BY <1>2, <1>7 DEF LifeInv, ToldTheTruth, Stored
<1> QED
  BY <1>8, <1>9, <1>10, <1>11, <1>12 DEF LifeInv

(* Completed is said only of a job of this process, whose pages are there. *)
LEMMA StatusLifeInv ==
  ASSUME LifeInv, NEW c \in Callers, Status(c)
  PROVE  LifeInv'
<1>1. PICK id \in SyncIDs \cup {NoJob} : id = call[c].id
  BY DEF LifeInv, MemoryType, Call
<1>2. /\ call[c].pc = "status" /\ call[c] \in Call /\ App \in Callers
      /\ UNCHANGED <<manager, proc, go, mode, input, rows, schema, used, starts>>
      /\ Moves(c, Then(c, Outcome(id)))
      /\ told' = IF Outcome(id) = "nil"
                   THEN [told EXCEPT ![c] = @ \cup {<<call[c].life, id>>}] ELSE told
  BY <1>1 DEF Status, LifeInv, MemoryType, Callers
<1>3. /\ Outcome(id) \in {"status", "nil", "err"}
      /\ Outcome(id) = "nil" => id \in byID /\ job[id].state = JobStateCompleted
  BY DEF Outcome, JobStateRunning, JobStateCompleted
<1>4. Outcome(id) = "nil" => Stored(starts, id) /\ call[c].life = starts
  BY <1>1, <1>3 DEF LifeInv, PagesInv, IdentityInv, MemoryType
<1> DEFINE r == [call[c] EXCEPT !.pc = Then(c, Outcome(id))]
<1>5. /\ r \in Call /\ r.id = id /\ r.life = call[c].life /\ r.key = call[c].key
      /\ r.pc \in {"idle", "status", "nil", "err"}
      /\ r.pc = "nil" => Outcome(id) = "nil"
      /\ c # App => r.pc = "idle"
  BY <1>1, <1>2, <1>3 DEF Call, Then
<1>6. call' = [call EXCEPT ![c] = r]
  BY <1>2 DEF Moves
<1> HIDE DEF r
<1>7. call'[c] = r /\ \A d \in Callers \ {c} : call'[d] = call[d]
  BY <1>6 DEF LifeInv, MemoryType
<1>8. Up /\ Up' /\ proc'.exit = "none"
  BY <1>2, CalledWhileUp DEF Up
<1>9. ProcessType' /\ StageInv' /\ DrainInv' /\ ConfigInv'
  <2>1. \A d \in Clients : call[d].pc = "idle" => call'[d].pc = "idle"
    BY <1>2, <1>7 DEF Callers
  <2> QED
    BY <1>2, <2>1, QuietProcess
<1>10. MemoryType' /\ GoneInv'
  BY <1>2, <1>5, <1>6, <1>8 DEF LifeInv, MemoryType, GoneInv, manager
<1>11. IdentityInv'
  BY <1>1, <1>2, <1>5, <1>7 DEF LifeInv, IdentityInv, manager, Born
<1>12. PagesInv'
  BY <1>2, <1>4, <1>5, <1>7 DEF LifeInv, PagesInv, manager, Stored
<1>13. ToldTheTruth'
  <2>1. \A d \in Callers : \A t \in told'[d] : t \in told[d] \/ t = <<starts, id>>
    BY <1>2, <1>4
  <2> QED
    BY <1>2, <1>4, <1>8, <2>1 DEF LifeInv, ToldTheTruth, Stored
<1> QED
  BY <1>9, <1>10, <1>11, <1>12, <1>13 DEF LifeInv

(* A sync goroutine belongs to a process that is there.                    *)
LEMMA SyncsWhileUp ==
  ASSUME LifeInv, NEW id \in SyncIDs, go[id].pc # "none"
  PROVE  Up /\ proc.exit = "none"
BY DEF LifeInv, GoneInv, StageInv

(* A goroutine begins a page, ends one, or gives up.                       *)
LEMMA PageLifeInv ==
  ASSUME LifeInv, NEW id \in SyncIDs, BeginPage(id) \/ CommitPage(id)
  PROVE  LifeInv'
<1>1. /\ go[id].pc \in {"begin", "tx"} /\ go[id] \in SyncGo /\ starts \in Nat
      /\ UNCHANGED <<manager, proc, call, mode, input, schema, used, told, starts>>
  BY DEF BeginPage, CommitPage, durable, LifeInv, MemoryType
<1>2. PICK n \in 1 .. NumPages : n = go[id].page
  BY <1>1 DEF SyncGo
<1>3. Up /\ Up' /\ proc'.exit = "none"
  BY <1>1, SyncsWhileUp DEF Up
<1>4. PICK g \in SyncGo :
        /\ go' = [go EXCEPT ![id] = g] /\ g.pc # "none"
        /\ rows \subseteq rows'
        /\ g.pc = "tx" => g.page = n
        /\ g.pc = "begin" => g.page = n + 1 /\ <<starts, id, n>> \in rows'
        /\ g.pc = "completed" => n = NumPages /\ <<starts, id, n>> \in rows'
  <2>1. CASE BeginPage(id)
    <3>1. PICK pc \in {"tx", "failed"} : go' = [go EXCEPT ![id] = [go[id] EXCEPT !.pc = pc]]
      BY <2>1 DEF BeginPage, Move
    <3>2. /\ [go[id] EXCEPT !.pc = pc] \in SyncGo
          /\ [go[id] EXCEPT !.pc = pc].pc = pc /\ [go[id] EXCEPT !.pc = pc].page = n
      BY <1>1, <1>2 DEF SyncGo
    <3> QED
      BY <2>1, <3>1, <3>2 DEF BeginPage, durable
  <2>2. CASE CommitPage(id) /\ go' = [go EXCEPT ![id] = [go[id] EXCEPT !.pc = "failed"]]
    <3>1. /\ [go[id] EXCEPT !.pc = "failed"] \in SyncGo
          /\ [go[id] EXCEPT !.pc = "failed"].pc = "failed"
      BY <1>1 DEF SyncGo
    <3>2. rows \subseteq rows'
      BY <2>2 DEF CommitPage
    <3> QED
      BY <2>2, <3>1, <3>2
  <2>3. CASE /\ n = NumPages /\ rows' = rows \cup {<<starts, id, n>>}
             /\ go' = [go EXCEPT ![id] = [go[id] EXCEPT !.pc = "completed"]]
    <3>1. /\ [go[id] EXCEPT !.pc = "completed"] \in SyncGo
          /\ [go[id] EXCEPT !.pc = "completed"].pc = "completed"
      BY <1>1 DEF SyncGo
    <3> QED
      BY <2>3, <3>1
  <2>4. CASE /\ n # NumPages /\ rows' = rows \cup {<<starts, id, n>>}
             /\ go' = [go EXCEPT ![id] = [pc |-> "begin", page |-> n + 1]]
    <3>1. [pc |-> "begin", page |-> n + 1] \in SyncGo
      BY <2>4 DEF SyncGo
    <3> QED
      BY <2>4, <3>1
  <2> QED
    BY <1>2, <2>1, <2>2, <2>3, <2>4 DEF CommitPage, LastPage, Page, Move
<1>5. go'[id] = g /\ \A i \in SyncIDs \ {id} : go'[i] = go[i]
  BY <1>4 DEF LifeInv, MemoryType
<1>6. ProcessType' /\ StageInv' /\ DrainInv' /\ ConfigInv'
  BY <1>1, QuietProcess
<1>7. MemoryType' /\ GoneInv' /\ IdentityInv'
  BY <1>1, <1>3, <1>4 DEF LifeInv, MemoryType, GoneInv, IdentityInv, manager, Born
<1>8. \A l, i : Stored(l, i) => Stored(l, i)'
  BY <1>4 DEF Stored
<1>9. ToldTheTruth'
  BY <1>1, <1>3, <1>8 DEF LifeInv, ToldTheTruth
<1>10. \A m \in 1 .. (n - 1) : <<starts, id, m>> \in rows'
  BY <1>1, <1>2, <1>4 DEF LifeInv, PagesInv
<1>11. g.pc = "completed" => Stored(starts, id)'
  BY <1>1, <1>2, <1>4, <1>10 DEF Stored
<1>12. g.pc \in {"begin", "tx"} =>
         \A m \in 1 .. (g.page - 1) : <<starts', id, m>> \in rows'
  BY <1>1, <1>2, <1>4, <1>10
<1>13. PagesInv'
  BY <1>1, <1>4, <1>5, <1>8, <1>11, <1>12 DEF LifeInv, PagesInv, manager
<1> QED
  BY <1>6, <1>7, <1>9, <1>13 DEF LifeInv

(* The goroutine reports its end to the registry, as completed only when   *)
(* all pages are committed.                                                *)
LEMMA FinishSyncLifeInv ==
  ASSUME LifeInv, NEW id \in SyncIDs, FinishSync(id)
  PROVE  LifeInv'
<1>1. /\ go[id].pc \in {"completed", "failed"} /\ App \in Callers
      /\ UNCHANGED <<proc, call, durable, byID, now, mu, snap>>
      /\ go' = [go EXCEPT ![id] = NoSync]
  BY DEF FinishSync, Complete, Fail, Move, Callers
<1>2. /\ job' \in [SyncIDs -> Job] /\ byKey' \in [Keys -> SyncIDs \cup {NoJob}]
      /\ \A k \in Keys : byKey'[k] \in {byKey[k], NoJob}
      /\ \A i \in SyncIDs \ {id} : job'[i] = job[i]
      /\ job'[id].state # JobStateNone <=> job[id].state # JobStateNone
      /\ job'[id].state = JobStateCompleted =>
           job[id].state = JobStateCompleted \/ go[id].pc = "completed"
  <2>1. CASE id \notin byID
    BY <2>1 DEF FinishSync, Complete, Fail, LifeInv, MemoryType
  <2>2. CASE id \in byID
    <3>1. job[id].state # JobStateNone /\ job[id] \in Job /\ now \in Nat
      BY <2>2 DEF LifeInv, IdentityInv, MemoryType, Born
    <3>2. PICK j \in Job : /\ job' = [job EXCEPT ![id] = j]
                           /\ \/ j.state = JobStateCompleted /\ go[id].pc = "completed"
                              \/ j.state = JobStateFailed
                           /\ byKey' = [byKey EXCEPT ![job[id].projectKey] = NoJob]
      <4> DEFINE done == [job[id] EXCEPT !.state = JobStateCompleted, !.finishedAt = now]
                 fail == [job[id] EXCEPT !.state = JobStateFailed, !.errMsg = ErrMsg,
                                         !.finishedAt = now]
      <4>1. /\ done \in Job /\ done.state = JobStateCompleted
            /\ fail \in Job /\ fail.state = JobStateFailed
        BY <3>1 DEF Job, JobStates, JobStateCompleted, JobStateFailed, ErrMsg
      <4>2. /\ byKey' = [byKey EXCEPT ![job[id].projectKey] = NoJob]
            /\ \/ job' = [job EXCEPT ![id] = done] /\ go[id].pc = "completed"
               \/ job' = [job EXCEPT ![id] = fail]
        BY <2>2 DEF FinishSync, Complete, Fail
      <4> HIDE DEF done, fail
      <4> QED
        BY <4>1, <4>2
    <3>3. job'[id] = j /\ \A i \in SyncIDs \ {id} : job'[i] = job[i]
      BY <3>2 DEF LifeInv, MemoryType
    <3>4. job' \in [SyncIDs -> Job]
      BY <3>2 DEF LifeInv, MemoryType
    <3>5. /\ byKey' \in [Keys -> SyncIDs \cup {NoJob}]
          /\ \A k \in Keys : byKey'[k] \in {byKey[k], NoJob}
      BY <3>2 DEF LifeInv, MemoryType
    <3>6. j.state # JobStateNone /\ (j.state = JobStateCompleted => go[id].pc = "completed")
      BY <3>2 DEF JobStateNone, JobStateCompleted, JobStateFailed
    <3> QED
      BY <3>1, <3>3, <3>4, <3>5, <3>6
  <2> QED
    BY <2>1, <2>2
<1>3. Up /\ Up' /\ proc'.exit = "none"
  BY <1>1, SyncsWhileUp DEF Up
<1>4. NoSync \in SyncGo /\ NoSync.pc = "none"
  BY DEF NoSync, SyncGo
<1>5. go'[id].pc = "none" /\ \A i \in SyncIDs \ {id} : go'[i] = go[i]
  BY <1>1, <1>4 DEF LifeInv, MemoryType
<1>6. ProcessType' /\ StageInv' /\ DrainInv' /\ ConfigInv'
  BY <1>1, QuietProcess DEF durable
<1>7. MemoryType' /\ GoneInv'
  BY <1>1, <1>2, <1>3, <1>4 DEF LifeInv, MemoryType, GoneInv, durable
<1>8. IdentityInv'
  <2>1. \A i \in SyncIDs : Born(i)' <=> Born(i)
    BY <1>2 DEF Born
  <2>2. \A i \in byID' : Born(i)'
    BY <1>1, <2>1 DEF LifeInv, IdentityInv, MemoryType
  <2>3. \A k \in Keys : byKey'[k] # NoJob => Born(byKey[k])'
    BY <1>2, <2>1 DEF LifeInv, IdentityInv, MemoryType, Born
  <2>4. \A c \in Callers : call[c].id # NoJob => (Born(call[c].id)' <=> Born(call[c].id))
    BY <1>1, <2>1 DEF LifeInv, MemoryType, Call, Born
  <2> QED
    BY <1>1, <2>1, <2>2, <2>3, <2>4 DEF LifeInv, IdentityInv, durable
<1>9. PagesInv'
  BY <1>1, <1>2, <1>5 DEF LifeInv, PagesInv, Stored, durable
<1>10. ToldTheTruth'
  BY <1>1, <1>3 DEF LifeInv, ToldTheTruth, Stored, durable
<1> QED
  BY <1>6, <1>7, <1>8, <1>9, <1>10 DEF LifeInv

-----------------------------------------------------------------------------
(* Before its first start the process has done nothing.                    *)
LEMMA InitLifeInv == Init => LifeInv
<1> SUFFICES ASSUME Init PROVE LifeInv
  OBVIOUS
<1>1. proc \in Process /\ ~Up /\ proc.exit = "none" /\ ~proc.lis
  BY DEF Init, Off, Process, Mains, Configs, Up
<1>2. ProcessType /\ StageInv /\ DrainInv /\ ConfigInv
  BY <1>1 DEF Init, ProcessType, StageInv, DrainInv, ConfigInv, Up, HookAt
<1>3. /\ NewJob(NoKey, JobStateNone) \in Job /\ NoSync \in SyncGo /\ Idle \in Call
      /\ JobTTL \in Nat
  BY DEF NewJob, Job, JobStates, JobStateNone, NoMsg, NoSync, SyncGo, Idle, Call
<1>4. MemoryType
  BY <1>3 DEF Init, NewManager, MemoryType
<1>5. /\ \A id \in SyncIDs : ~Born(id) /\ go[id].pc = "none" /\ job[id].state = JobStateNone
      /\ \A c \in Callers : call[c].pc = "idle" /\ call[c].id = NoJob
  BY DEF Init, NewManager, NewJob, NoSync, Idle, Born
<1>6. GoneInv /\ IdentityInv
  BY <1>5 DEF Init, NewManager, GoneInv, IdentityInv
<1>7. PagesInv /\ ToldTheTruth
  BY <1>1, <1>5 DEF Init, PagesInv, ToldTheTruth, Callers, JobStateNone, JobStateCompleted
<1> QED
  BY <1>2, <1>4, <1>6, <1>7 DEF LifeInv

(* Every step of the process, its callers and its syncs preserves LifeInv. *)
LEMMA NextLifeInv == LifeInv /\ [Next]_vars => LifeInv'
<1> SUFFICES ASSUME LifeInv, [Next]_vars PROVE LifeInv'
  OBVIOUS
<1>1. CASE Start \/ Crash \/ Signal
  BY <1>1, StartLifeInv, CrashLifeInv
<1>2. CASE Main \/ Connect
  BY <1>2, LoadConfigLifeInv, OpenLifeInv, MigrateLifeInv, MigrateFailsLifeInv,
     BuildLifeInv, ServeLifeInv, RunAppLifeInv, RunEndsLifeInv DEF Main, Connect
<1>3. CASE Close
  BY <1>3, CloseLifeInv
<1>4. ASSUME NEW e \in Endpoints, ObsListens(e) PROVE LifeInv'
  BY <1>4, ObsListensLifeInv
<1>5. ASSUME NEW c \in Clients, DownloadProject(c) \/ GetSyncStatus(c) PROVE LifeInv'
  BY <1>5, RequestLifeInv
<1>6. ASSUME NEW c \in Callers, EnsureProject(c) \/ Caller(c) PROVE LifeInv'
  BY <1>6, EnsureProjectLifeInv, JoinSyncLifeInv, StatusLifeInv, StartSyncLifeInv DEF Caller
<1>7. ASSUME NEW id \in SyncIDs, Sync(id) PROVE LifeInv'
  BY <1>7, PageLifeInv, FinishSyncLifeInv DEF Sync
<1>8. CASE UNCHANGED vars
  <2>1. UNCHANGED <<manager, proc, call, go, durable>>
    BY <1>8 DEF vars
  <2>2. ProcessType' /\ StageInv' /\ DrainInv' /\ ConfigInv'
    BY <2>1, QuietProcess DEF durable
  <2>3. MemoryType' /\ GoneInv' /\ IdentityInv'
    BY <2>1 DEF LifeInv, MemoryType, GoneInv, IdentityInv, manager, durable, Born, Up
  <2>4. PagesInv' /\ ToldTheTruth'
    BY <2>1 DEF LifeInv, PagesInv, ToldTheTruth, manager, durable, Stored
  <2> QED
    BY <2>2, <2>3, <2>4 DEF LifeInv
<1> QED
  BY <1>1, <1>2, <1>3, <1>4, <1>5, <1>6, <1>7, <1>8 DEF Next

(* LifeInv holds in every reachable state.                                 *)
THEOREM LifeInvariance == Spec => []LifeInv
<1>1. Init => LifeInv
  BY InitLifeInv
<1> QED
  BY <1>1, NextLifeInv, PTL DEF Spec

(* Whoever is told that a sync completed finds all its pages stored,       *)
(* whatever crashes and restarts lie between.                              *)
THEOREM CompletedIsDurable == Spec => []ToldTheTruth
BY LifeInvariance, PTL DEF LifeInv

(* The pool is closed only after the last RPC.                             *)
THEOREM RPCsDrainFirst == Spec => []DrainedBeforeClose
<1>1. LifeInv => DrainedBeforeClose
  BY DEF LifeInv, DrainInv, DrainedBeforeClose, HookAt
<1> QED
  BY <1>1, LifeInvariance, PTL

(* A process serves only a migrated schema, and closes what it had opened  *)
(* when it cannot start.                                                   *)
THEOREM StartsSoundly == Spec => []StartupSound
<1>1. LifeInv => StartupSound
  BY DEF LifeInv, StageInv, StartupSound, In
<1> QED
  BY <1>1, LifeInvariance, PTL

(* Environment before file before defaults, with the exceptions that       *)
(* ConfigPrecedence names, and client settings as the file has them, for   *)
(* every file and environment and every width of the integers.             *)
THEOREM PrecedenceHolds == Spec => []ConfigPrecedence
<1>1. LifeInv => ConfigPrecedence
  BY ConfigInvPrecedence DEF LifeInv
<1> QED
  BY <1>1, LifeInvariance, PTL
=============================================================================
