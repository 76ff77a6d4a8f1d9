------------------------------ MODULE Lifecycle ------------------------------
(***************************************************************************)
(* The life of a connector process: "serve" (cli/server/server.go) or      *)
(* "run" (cli/run.go, cmd/internal/app/app.go), from its configuration     *)
(* over the database connection (database/connection.go) and the           *)
(* diagnostic servers (observability/server.go) to its end by itself, by a *)
(* signal or by a crash, and its restart on the same database.             *)
(*                                                                         *)
(* Inside the process run the registry of module Manager, the RPC          *)
(* handlers, and the sync goroutines, each reduced here to the pages it    *)
(* commits (modules SyncService and PageTx have the steps).                *)
(***************************************************************************)
EXTENDS Manager, Config

CONSTANTS
  Inputs,    \* the files and environments the process may find
  App,       \* the goroutine of App.Run
  NumPages,  \* pages of a project
  MaxStarts  \* bound on how often the process is started

ASSUME LifecycleAssumption ==
  /\ App \notin Clients
  /\ NumPages \in Nat \ {0} /\ MaxStarts \in Nat \ {0}
  /\ Inputs \subseteq Sources

VARIABLES
  mode,    \* "serve" or "run"
  input,   \* the configuration file and the environment
  proc,    \* the process: its main goroutine, shutdown hook and resources
  call,    \* call[c]: the RPC of a client, or the App goroutine's progress;
           \* id is the sync it was given, life the start of the process that did
  go,      \* go[id]: the sync goroutines
  rows,    \* the committed pages of the syncs of all starts, durable
  schema,  \* the state golang-migrate keeps in the database, durable
  used,    \* the ids uuid.NewString has ever returned
  told,    \* told[c]: the syncs a caller has been told are completed
  starts   \* how often the process has been started

manager == <<byID, byKey, job, now, mu, snap>>
durable == <<mode, input, rows, schema, used, told, starts>>
vars == <<manager, proc, call, go, durable>>

Callers == Clients \cup {App}

Off == [main |-> "off", exit |-> "none", cfg |-> Empty, lis |-> FALSE, db |-> FALSE,
        grpc |-> "none", obs |-> [e \in Endpoints |-> "off"],
        hook |-> "none", quit |-> FALSE]

Idle == [pc |-> "idle", key |-> NoKey, id |-> NoJob, life |-> 0]

NoSync == [pc |-> "none", page |-> 1]

Init ==
  /\ NewManager
  /\ mode \in {"serve", "run"}
  /\ input \in Inputs
  /\ proc = Off
  /\ call = [c \in Callers |-> Idle]
  /\ go = [id \in SyncIDs |-> NoSync]
  /\ rows = {} /\ schema = "none" /\ used = {}
  /\ told = [c \in Callers |-> {}]
  /\ starts = 0

Up == proc.main \notin {"off", "exited"}
In(pc) == proc.main = pc

-----------------------------------------------------------------------------
(* Whatever ends the process takes its memory with it: the registry, the   *)
(* goroutines, the RPCs.  An open transaction is rolled back by the server.*)
Ends(p) ==
  /\ proc' = p
  /\ byID' = {} /\ byKey' = [k \in Keys |-> NoJob]
  /\ job' = [id \in SyncIDs |-> NewJob(NoKey, JobStateNone)]
  /\ go' = [id \in SyncIDs |-> NoSync]
  /\ call' = [c \in Callers |-> [call[c] EXCEPT !.pc = "idle"]]
  /\ UNCHANGED <<now, mu, snap, durable>>

Exit(p, code) == Ends([p EXCEPT !.main = "exited", !.exit = code])

Becomes(p) == proc' = p /\ UNCHANGED <<manager, call, go, durable>>

Start ==
  /\ ~Up /\ starts < MaxStarts
  /\ proc' = [Off EXCEPT !.main = "config"]
  /\ starts' = starts + 1
  /\ call' = [c \in Callers |-> IF c = App THEN Idle ELSE call[c]]
  /\ UNCHANGED <<manager, go, mode, input, rows, schema, used, told>>

Crash == Up /\ Ends(Off)

(* NewCommand, run and loadConfig; NewRunCmd, which has no listener and    *)
(* refuses an empty --project.                                             *)
LoadConfig ==
  /\ In("config")
  /\ LET loaded == Load(input.file, input.env) IN
     IF loaded.err THEN Exit(proc, "1")
     ELSE \/ Becomes([proc EXCEPT !.cfg = loaded.cfg,
                                  !.main = IF mode = "serve" THEN "listen" ELSE "open"])
          \/ mode = "run" /\ Exit(proc, "1")

Listen ==
  /\ In("listen")
  /\ \/ Becomes([proc EXCEPT !.lis = TRUE, !.main = "open"])
     \/ Exit(proc, "1")

(* startServer closes the listener when NewConnection fails.               *)
ConnectionFails(p) == Exit([p EXCEPT !.lis = FALSE], "1")

(* NewConnection: sql.Open, PingContext, runMigrations                     *)
Open ==
  /\ In("open")
  /\ \/ Becomes([proc EXCEPT !.db = TRUE, !.main = "ping"])
     \/ ConnectionFails(proc)

Ping ==
  /\ In("ping")
  /\ \/ Becomes([proc EXCEPT !.main = "migrate"])
     \/ ConnectionFails([proc EXCEPT !.db = FALSE])

(* External: Up marks the schema dirty while a migration runs, and refuses *)
(* a dirty one; a crash in between leaves it so.                           *)
MigrateUp ==
  /\ In("migrate") /\ schema = "none"
  /\ schema' = "dirty" /\ proc' = [proc EXCEPT !.main = "migrating"]
  /\ UNCHANGED <<manager, call, go, mode, input, rows, used, told, starts>>

Migrated ==
  /\ In("migrating")
  /\ schema' = "current" /\ proc' = [proc EXCEPT !.main = "build"]
  /\ UNCHANGED <<manager, call, go, mode, input, rows, used, told, starts>>

MigrateNoChange ==
  /\ In("migrate") /\ schema = "current"
  /\ Becomes([proc EXCEPT !.main = "build"])

(* Variant: NewConnection goes on although the migrations failed.          *)
MigrateFailsSilently ==
  /\ In("migrate") \/ In("migrating")
  /\ Becomes([proc EXCEPT !.main = "build"])

MigrateFails ==
  /\ In("migrate") \/ In("migrating")
  /\ ConnectionFails([proc EXCEPT !.db = FALSE])

-----------------------------------------------------------------------------
(* startObservability and observability.New: the servers are started in    *)
(* the background, where a failing one is only logged.                     *)
startObservability ==
  [e \in Endpoints |-> IF IsEnabled(proc.cfg.enabled[e]) THEN "starting" ELSE "off"]

BuildServer ==
  /\ In("build") /\ mode = "serve"
  /\ Becomes([proc EXCEPT !.grpc = "built", !.obs = startObservability, !.main = "hook"])

ObsListens(e) ==
  /\ Up /\ proc.obs[e] = "starting"
  /\ \E s \in {"listening", "failed"} : Becomes([proc EXCEPT !.obs[e] = s])

RegisterShutdownHook ==
  /\ In("hook")
  /\ Becomes([proc EXCEPT !.hook = "waiting", !.main = "serve"])

(* Serve of a server that has been stopped before returns an error.        *)
Serve ==
  /\ In("serve")
  /\ IF proc.grpc = "built"
       THEN Becomes([proc EXCEPT !.grpc = "serving", !.main = "serving"])
       ELSE Exit([proc EXCEPT !.lis = FALSE], "1")

(* Serve returns as soon as GracefulStop is done, and the process ends     *)
(* with main, whatever the hook still has to do.                           *)
ServeReturns ==
  /\ In("serving") /\ proc.grpc = "stopped"
  /\ Exit(proc, "0")

(* SIGINT or SIGTERM; before Notify it simply ends the process.  The       *)
(* channel holds one signal, and the hook takes only one.  "run" takes     *)
(* SIGINT from its first line on; SIGTERM ends it like a crash.            *)
Signal ==
  /\ Up /\ ~proc.quit
  /\ IF mode = "serve" /\ proc.hook = "none" THEN Ends(Off)
     ELSE Becomes([proc EXCEPT !.quit = TRUE])

HookAt(h) == Up /\ proc.hook = h

(* Server.Close.  GracefulStop closes the listener if Serve has taken it   *)
(* over, stops accepting, and waits for the RPCs.                          *)
GracefulStop ==
  /\ HookAt("waiting") /\ proc.quit
  /\ Becomes([proc EXCEPT !.hook = "graceful", !.grpc = "stopping",
                          !.lis = @ /\ proc.grpc # "serving"])

(* Variant: the database is closed without waiting for the RPCs.           *)
GracefulStopReturnsEarly ==
  /\ HookAt("graceful")
  /\ Becomes([proc EXCEPT !.hook = "obs"])

GracefulStopReturns ==
  /\ HookAt("graceful")
  /\ \A c \in Clients : call[c].pc = "idle"
  /\ Becomes([proc EXCEPT !.hook = "obs", !.grpc = "stopped"])

ShutdownObservability ==
  /\ HookAt("obs")
  /\ Becomes([proc EXCEPT !.hook = "db",
                !.obs = [e \in Endpoints |-> IF @[e] \in {"starting", "listening"}
                                               THEN "stopped" ELSE @[e]]])

CloseDB ==
  /\ HookAt("db")
  /\ Becomes([proc EXCEPT !.hook = "done", !.db = FALSE])

-----------------------------------------------------------------------------
(* DownloadProject and GetSyncStatus of a client; App.Run of the command   *)
(* line.  A client polls for the id it was given, also after a restart.    *)
Request(c, pc, k) ==
  /\ call' = [call EXCEPT ![c] = [@ EXCEPT !.pc = pc, !.key = k]]
  /\ UNCHANGED <<manager, go, durable>>

Accepting == In("serving") /\ proc.grpc = "serving"

(* Bound: a request is only made while an id is left for it.               *)
IdsLeft == Cardinality(SyncIDs \ used)
             > Cardinality({c \in Callers : call[c].pc \in {"ensure", "start"}})

DownloadProject(c) ==
  /\ Accepting /\ c \in Clients /\ call[c].pc = "idle"
  /\ IdsLeft
  /\ \E k \in Keys : Request(c, "ensure", k)
  /\ UNCHANGED proc

GetSyncStatus(c) ==
  /\ Accepting /\ c \in Clients /\ call[c].pc = "idle" /\ call[c].id # NoJob
  /\ Request(c, "status", call[c].key)
  /\ UNCHANGED proc

RunApp ==
  /\ In("build") /\ mode = "run" /\ IdsLeft
  /\ proc' = [proc EXCEPT !.main = "select"]
  /\ \E k \in Keys : Request(App, "ensure", k)

Moves(c, pc) == call' = [call EXCEPT ![c].pc = pc]

Given(c, pc, id) ==
  call' = [call EXCEPT ![c] = [@ EXCEPT !.pc = pc, !.id = id, !.life = starts]]

(* A client's call is over with its answer; the App goroutine polls on.    *)
Then(c, pc) == IF c = App THEN pc ELSE "idle"

(* ensureProject, whose insert needs the database                          *)
EnsureProject(c) ==
  /\ call[c].pc = "ensure"
  /\ \/ proc.db /\ Moves(c, "start")
     \/ Moves(c, Then(c, "err"))
  /\ UNCHANGED <<manager, proc, go, durable>>

(* Variant: ids are counted anew by each process.                          *)
FreshInProcess(id) == ~Born(id)

(* uuid.NewString: no id is handed out twice, by any process.              *)
Fresh(id) == id \notin used

(* manager.Start, and the goroutine of a new sync                          *)
StartSync(c, id) ==
  /\ call[c].pc = "start"
  /\ Fresh(id)
  /\ StartNew(call[c].key, id)
  /\ go' = [go EXCEPT ![id] = [pc |-> "begin", page |-> 1]]
  /\ used' = used \cup {id}
  /\ Given(c, Then(c, "status"), id)
  /\ UNCHANGED <<proc, mode, input, rows, schema, told, starts>>

JoinSync(c) ==
  /\ call[c].pc = "start"
  /\ StartExisting(call[c].key)
  /\ Given(c, Then(c, "status"), byKey[call[c].key])
  /\ UNCHANGED <<proc, go, durable>>

(* Variant: the case of a failed job is missing.                           *)
OutcomeWithoutFailed(id) ==
  CASE id \in byID /\ job[id].state = JobStateCompleted -> "nil"
    [] id \in byID -> "status"
    [] OTHER -> "err"

(* The switch of waitForSync: poll again, nil when completed, an error for *)
(* a job that failed or has disappeared.                                   *)
Outcome(id) ==
  CASE id \in byID /\ job[id].state = JobStateRunning -> "status"
    [] id \in byID /\ job[id].state = JobStateCompleted -> "nil"
    [] OTHER -> "err"

(* manager.Status, for GetSyncStatus or one tick of waitForSync            *)
Status(c) ==
  /\ call[c].pc = "status"
  /\ LET id == call[c].id IN
     /\ Moves(c, Then(c, Outcome(id)))
     /\ told' = IF Outcome(id) = "nil"
                  THEN [told EXCEPT ![c] = @ \cup {<<call[c].life, id>>}] ELSE told
  /\ UNCHANGED <<manager, proc, go, mode, input, rows, schema, used, starts>>

(* The select of NewRunCmd, then the deferred Close.  An interrupted run   *)
(* returns nil, and so ends with status 0 like one that has completed.     *)
RunInterrupted ==
  /\ In("select") /\ proc.quit
  /\ Exit([proc EXCEPT !.db = FALSE], "0")

RunReturns ==
  /\ In("select")
  /\ \/ call[App].pc = "nil" /\ Exit([proc EXCEPT !.db = FALSE], "0")
     \/ call[App].pc = "err" /\ Exit([proc EXCEPT !.db = FALSE], "1")

-----------------------------------------------------------------------------
(* The sync goroutine, detached from the call that started it.  Nothing    *)
(* waits for it.  A closed pool begins no transaction, but lets an open    *)
(* one end.                                                                *)
Move(id, s) == go' = [go EXCEPT ![id] = s]

BeginPage(id) ==
  /\ go[id].pc = "begin"
  /\ \/ proc.db /\ Move(id, [go[id] EXCEPT !.pc = "tx"])
     \/ Move(id, [go[id] EXCEPT !.pc = "failed"])
  /\ UNCHANGED <<manager, proc, call, durable>>

LastPage(id) == go[id].page = NumPages

Page(id) == <<starts, id, go[id].page>>

CommitPage(id) ==
  /\ go[id].pc = "tx"
  /\ \/ /\ rows' = rows \cup {Page(id)}
        /\ Move(id, IF LastPage(id) THEN [go[id] EXCEPT !.pc = "completed"]
                    ELSE [pc |-> "begin", page |-> go[id].page + 1])
     \/ /\ rows' \in {rows, rows \cup {Page(id)}}
        /\ Move(id, [go[id] EXCEPT !.pc = "failed"])
  /\ UNCHANGED <<manager, proc, call, mode, input, schema, used, told, starts>>

FinishSync(id) ==
  /\ \/ go[id].pc = "completed" /\ Complete(id)
     \/ go[id].pc = "failed" /\ Fail(id)
  /\ Move(id, NoSync)
  /\ UNCHANGED <<proc, call, durable>>

-----------------------------------------------------------------------------
(* The main goroutine, but for its waiting for PostgreSQL                  *)
Main == \/ LoadConfig \/ Listen \/ Open
        \/ BuildServer \/ RegisterShutdownHook \/ Serve \/ ServeReturns
        \/ RunApp \/ RunInterrupted \/ RunReturns

Connect == \/ Ping \/ MigrateUp \/ Migrated \/ MigrateNoChange \/ MigrateFails

Close == \/ GracefulStop \/ GracefulStopReturns
         \/ ShutdownObservability \/ CloseDB

(* A call, but for its waiting for Jira in ensureProject                   *)
Caller(c) == \/ JoinSync(c) \/ Status(c)
             \/ \E id \in SyncIDs : StartSync(c, id)

Sync(id) == BeginPage(id) \/ CommitPage(id) \/ FinishSync(id)

Next == \/ Start \/ Crash \/ Signal \/ Main \/ Connect \/ Close
        \/ \E e \in Endpoints : ObsListens(e)
        \/ \E c \in Clients : DownloadProject(c) \/ GetSyncStatus(c)
        \/ \E c \in Callers : EnsureProject(c) \/ Caller(c)
        \/ \E id \in SyncIDs : Sync(id)

(* The goroutines of the process keep running; it is enough that some call *)
(* and some sync goes on.  A sync has its own timeout, but Connect and     *)
(* EnsureProject are not obliged to return: they run on a context that     *)
(* need never end, and a Jira call may be told to try again for ever       *)
(* (JiraClient!EndsWithContext).                                           *)
Fairness == /\ WF_vars(Main) /\ WF_vars(Close)
            /\ WF_vars(\E c \in Callers : Caller(c))
            /\ WF_vars(\E id \in SyncIDs : Sync(id))

Spec == Init /\ [][Next]_vars /\ Fairness

-----------------------------------------------------------------------------
Stored(life, id) == \A n \in 1 .. NumPages : <<life, id, n>> \in rows

(* Whoever has been told that a sync completed, by GetSyncStatus or by the *)
(* exit status of "run", finds all its pages in the database, whatever     *)
(* crashes and restarts lie between: an id from before a restart is        *)
(* unknown afterwards, and never stands for another sync.  The exit status *)
(* speaks only of a run that was not interrupted: an interrupted one ends  *)
(* with 0 too, whatever it has stored.                                     *)
ToldTheTruth ==
  /\ \A c \in Callers : \A t \in told[c] : Stored(t[1], t[2])
  /\ mode = "run" /\ proc.exit = "0" /\ ~proc.quit => Stored(starts, call[App].id)

(* Close waits for the RPCs before it closes the database: no handler is   *)
(* left that would run into the closed pool.                               *)
DrainedBeforeClose ==
  HookAt("done") => \A c \in Clients : call[c].pc = "idle"

(* A process serves or syncs only on a fully migrated schema, and one that *)
(* cannot start has closed the pool and the listener it had opened.        *)
StartupSound ==
  /\ In("serving") \/ In("select") => schema = "current"
  /\ proc.exit = "1" /\ proc.hook = "none" => ~proc.lis /\ ~proc.db

FirstSet(s, candidates) ==
  LET set == {n \in DOMAIN candidates : candidates[n] # s}
  IN IF set = {} THEN s ELSE candidates[CHOOSE n \in set : \A m \in set : n <= m]

(* A text setting comes from the environment before the file before the    *)
(* defaults, and so does the port, but for a DB_PORT that is no number:    *)
(* the default then hides the file's port too (a DB_PORT of 0 is taken as  *)
(* it is).  The Jira client has the file's page size cut to what Jira      *)
(* allows, its rate, and its delays as long as they fit a Duration, or the *)
(* defaults where the file has nothing positive; a longer delay overflows, *)
(* and nothing is said of it.  A process starts exactly when the sources   *)
(* can be read and together name the Jira server.                          *)
ConfigPrecedence ==
  LET file == Unmarshal(input.file)
      env  == input.env
      wanted(s) == FirstSet(Unset, <<env.text[s], file.text[s],
                     IF s \in DOMAIN DefaultText THEN DefaultText[s] ELSE Unset>>)
      wantedPort == IF env.port.set
                      THEN IF env.port.parses THEN env.port.n ELSE DefaultDBPort
                      ELSE IF file.port # 0 THEN file.port ELSE DefaultDBPort
      number(s) == IF file.number[s] > 0 THEN file.number[s] ELSE DefaultNumber[s]
      client == New(proc.cfg.number)
      allowed == minAllowedResults .. maxAllowedResults
  IN /\ Up /\ ~In("config") =>
          /\ \A s \in TextSettings : proc.cfg.text[s] = wanted(s)
          /\ proc.cfg.port = wantedPort
          /\ client.maxResults \in allowed
          /\ number("maxResults") \in allowed => client.maxResults = number("maxResults")
          /\ client.rateLimitPerSec = number("rateLimitPerSec")
          /\ \A s \in {"minRetryDelay", "maxRetryDelay"} :
               number(s) * Millisecond < HalfRange => client[s] = number(s) * Millisecond
     /\ In("config") =>
          Load(input.file, input.env).err =
            ~(/\ input.file.read \in {"ok", "missing"}
              /\ wanted("JIRA_BASE_URL") # Unset)

Connecting == proc.main \in {"ping", "migrate", "migrating"}

(* A signal, once the hook is there to take it, ends the server, provided  *)
(* that no RPC waits for Jira for ever: GracefulStop waits for it.  A      *)
(* command-line sync ends on a signal whatever Jira does, and by itself    *)
(* unless its ensureProject hangs, provided that PostgreSQL answers while  *)
(* it starts.                                                              *)
ShutdownCompletes ==
  /\ (\A c \in Clients : []<>(call[c].pc # "ensure")) =>
       ((mode = "serve" /\ Up /\ proc.quit) ~> ~Up)
  /\ []<>~Connecting => ((mode = "run" /\ Up /\ proc.quit) ~> ~Up)
  /\ []<>~Connecting /\ []<>(call[App].pc # "ensure") =>
       ((mode = "run" /\ Up) ~> ~Up)

(* "Shutdown gracefully stops every diagnostic server": a process that     *)
(* ends by a signal has gone through the whole of Server.Close.            *)
DiagnosticServersStopped ==
  mode = "serve" /\ proc.exit = "0" =>
    \A e \in Endpoints : proc.obs[e] \notin {"starting", "listening"}
=============================================================================
