----------------------------- MODULE SyncService -----------------------------
(***************************************************************************)
(* internal/service/sync/sync.go: DownloadProject calls that start or join *)
(* a sync, and the detached goroutine of each started sync, which copies a *)
(* project from Jira to PostgreSQL page by page.  The goroutines drive the *)
(* registry of module Manager; Jira changes under their feet; the database *)
(* may fail at every statement; the job's timeout may fire at any moment.  *)
(* Fetching one page is a single step with the answers that module         *)
(* PageFetch allows (module FetchPage shows the steps).                    *)
(***************************************************************************)
EXTENDS Manager, Sequences, SequencesExt, PageFetch

CONSTANTS
  Callers,      \* gRPC handler goroutines
  Issues,       \* issue identities
  Listing,      \* the projects of Jira, in the order it lists them
  ProjectsLimit,\* defaultProjectsLimit
  InitialJira,  \* the issues of each project, in search order
  PageSize,     \* defaultPageSize
  MaxTime,      \* bound on the clock
  MaxDeletes    \* bound on issues deleted from Jira

ASSUME SyncAssumption ==
  /\ Listing \in Seq(Keys) /\ ProjectsLimit \in Nat \ {0}
  /\ IsFiniteSet(Issues)
  /\ InitialJira \in [Keys -> Seq(Issues)]
  /\ \A k \in Keys : IsInjective(InitialJira[k])
  /\ PageSize \in Nat \ {0}
  /\ MaxTime \in Nat /\ MaxDeletes \in Nat

VARIABLES
  jira,         \* external: the issues of each project, in search order
  deleted,      \* external: the issues deleted from Jira
  projectRows,  \* committed rows of raw.project
  issueRows,    \* committed rows of raw.issue
  rpc,          \* the DownloadProject call of each caller
  go,           \* the goroutine of each sync: its pc and locals
  ctxDone,      \* syncCtx of each sync has expired
  mtr,          \* the sync metrics
  hist          \* history: what each sync should have copied, what it did

manager == <<byID, byKey, job, now, mu, snap>>
outside == <<jira, deleted>>
database == <<projectRows, issueRows>>
vars == <<manager, outside, database, rpc, go, ctxDone, mtr, hist>>

Idle == [pc |-> "idle", key |-> NoKey, id |-> NoJob, status |-> ""]

Init ==
  /\ NewManager
  /\ jira = InitialJira
  /\ deleted = {}
  /\ projectRows = {} /\ issueRows = {}
  /\ rpc = [r \in Callers |-> Idle]
  /\ go = [id \in SyncIDs |->
             [pc |-> "none", err |-> "nil", startAt |-> 0, total |-> 0,
              totalSet |-> FALSE, page |-> {}, issues |-> {}, tx |-> {}]]
  /\ ctxDone = [id \in SyncIDs |-> FALSE]
  /\ mtr = [SyncStarted |-> 0, SyncActive |-> 0, SyncCompleted |-> 0,
            SyncFailed |-> 0, SyncIssuesProcessed |-> 0]
  /\ hist = [id \in SyncIDs |->
               [present |-> {}, disturbed |-> FALSE, skipped |-> {},
                upserts |-> 0]]

-----------------------------------------------------------------------------
(* Jira.  A new issue may appear anywhere in the search order; present     *)
(* keeps, per running sync, the issues that were there from its first      *)
(* search on.                                                              *)
CreateIssue(k) ==
  /\ \E i \in Issues \ (deleted \cup UNION {ToSet(jira[p]) : p \in Keys}),
        n \in 1..(Len(jira[k]) + 1) :
       jira' = [jira EXCEPT ![k] = InsertAt(@, n, i)]
  /\ UNCHANGED <<manager, deleted, database, rpc, go, ctxDone, mtr, hist>>

DeleteIssue(k) ==
  /\ Cardinality(deleted) < MaxDeletes
  /\ \E n \in 1..Len(jira[k]) :
       /\ jira' = [jira EXCEPT ![k] = RemoveAt(@, n)]
       /\ deleted' = deleted \cup {jira[k][n]}
       /\ hist' = [id \in SyncIDs |->
                     IF byKey[k] = id
                       THEN [hist[id] EXCEPT !.present = @ \ {jira[k][n]},
                                             !.disturbed = TRUE]
                       ELSE hist[id]]
  /\ UNCHANGED <<manager, database, rpc, go, ctxDone, mtr>>

(* The answers to a search at startAt: Jira may cap the page below the     *)
(* requested size, down to an empty page.                                  *)
Pages(k, startAt) ==
  {SubSeq(jira[k], startAt + 1, startAt + n) :
     n \in {m \in 0..PageSize : startAt + m <= Len(jira[k]) \/ m = 0}}

-----------------------------------------------------------------------------
(* DownloadProject and SyncProject.                                        *)
Reply(r, id, status) ==
  rpc' = [rpc EXCEPT ![r].pc = "idle", ![r].id = id, ![r].status = status]

(* Bound: no request goes ahead unless an id is left for it.               *)
IdsLeft == Cardinality({id \in SyncIDs : ~Born(id)})
             > Cardinality({r \in Callers : rpc[r].pc \in {"ensure", "start"}})

DownloadProject(r) ==
  /\ rpc[r].pc = "idle"
  /\ \E k \in Keys \cup {NoKey} :
       /\ k = NoKey \/ IdsLeft
       /\ rpc' = [rpc EXCEPT ![r] =
                    IF k = NoKey THEN [Idle EXCEPT !.status = "InvalidArgument"]
                    ELSE [Idle EXCEPT !.pc = "ensure", !.key = k]]
  /\ UNCHANGED <<manager, outside, database, go, ctxDone, mtr, hist>>

(* The row of a project that is there already is left as it is.            *)
InsertProject(k) == projectRows' = projectRows \cup {k}

(* toGRPCError: ErrProjectNotFound, a cancelled request, anything else.    *)
GRPCErrors == {"NotFound", "Canceled", "Internal"}

(* The answers to GetProjects: all projects as a bare list, or the first   *)
(* page of them, no longer than the limit.                                 *)
GetProjects == {ToSet(Listing),
                {Listing[n] : n \in {m \in DOMAIN Listing : m <= ProjectsLimit}}}

(* ensureProject: the key is looked up in Jira's answer and its row        *)
(* inserted.  The insert may have taken place although it returns an error.*)
EnsureProject(r) ==
  /\ rpc[r].pc = "ensure"
  /\ \/ /\ \E projects \in GetProjects : rpc[r].key \notin projects
        /\ Reply(r, NoJob, "NotFound")
        /\ UNCHANGED projectRows
     \/ /\ \E status \in GRPCErrors \ {"NotFound"} : Reply(r, NoJob, status)
        /\ \/ UNCHANGED projectRows
           \/ rpc[r].key \in ToSet(Listing) /\ InsertProject(rpc[r].key)
     \/ /\ \E projects \in GetProjects : rpc[r].key \in projects
        /\ InsertProject(rpc[r].key)
        /\ rpc' = [rpc EXCEPT ![r].pc = "start"]
  /\ UNCHANGED <<manager, outside, issueRows, go, ctxDone, mtr, hist>>

JoinSync(r) ==
  /\ rpc[r].pc = "start"
  /\ StartExisting(rpc[r].key)
  /\ Reply(r, byKey[rpc[r].key], "already_running")
  /\ UNCHANGED <<outside, database, go, ctxDone, mtr, hist>>

StartSync(r, id) ==
  /\ rpc[r].pc = "start"
  /\ StartNew(rpc[r].key, id)
  /\ rpc' = [rpc EXCEPT ![r].pc = "launch", ![r].id = id]
  /\ go' = [go EXCEPT ![id].pc = "launch"]
  /\ UNCHANGED <<outside, database, ctxDone, mtr, hist>>

(* A call of the metrics is one step, also where it updates two of them.   *)
SyncJobStarted == mtr' = [mtr EXCEPT !.SyncStarted = @ + 1, !.SyncActive = @ + 1]

(* SyncJobStarted, go func, and the answer "running".                      *)
LaunchSync(r) ==
  /\ rpc[r].pc = "launch"
  /\ SyncJobStarted
  /\ go' = [go EXCEPT ![rpc[r].id].pc = "search"]
  /\ Reply(r, rpc[r].id, "running")
  /\ UNCHANGED <<manager, outside, database, ctxDone, hist>>

-----------------------------------------------------------------------------
(* runSync.                                                                *)
At(id, pc) == go[id].pc = pc
Return(id, err) == go' = [go EXCEPT ![id].pc = "finish", ![id].err = err]

(* Variant: the statements run under a context of their own.               *)
CtxIgnored(id) == TRUE

(* The statements of a sync carry syncCtx, and fail once it is done.       *)
CtxAlive(id) == ~ctxDone[id]

(* The check of ctx.Done and SearchIssues; an answer with issues leads to  *)
(* processPage, through SetTotal the first time.                           *)
SearchIssues(id) ==
  /\ At(id, "search")
  /\ CtxAlive(id)
  /\ LET k == job[id].projectKey IN
     /\ \E page \in Pages(k, go[id].startAt) :
          go' = [go EXCEPT
                   ![id].pc = IF go[id].totalSet THEN "answer" ELSE "setTotal",
                   ![id].total = Len(jira[k]),
                   ![id].page = ToSet(page),
                   ![id].issues = {}, ![id].tx = {}]
     /\ hist' = IF go[id].totalSet THEN hist
                ELSE [hist EXCEPT ![id].present = ToSet(jira[k]),
                                  ![id].disturbed = FALSE]
  /\ UNCHANGED <<manager, outside, database, rpc, ctxDone, mtr>>

SearchFails(id) ==
  /\ At(id, "search")
  /\ Return(id, "err")
  /\ UNCHANGED <<manager, outside, database, rpc, ctxDone, mtr, hist>>

SetTotalLookup(id) ==
  /\ At(id, "setTotal")
  /\ go' = [go EXCEPT ![id].totalSet = TRUE,
                      ![id].pc = IF Lookup(id) THEN "storeTotal" ELSE "answer"]
  /\ UNCHANGED <<manager, outside, database, rpc, ctxDone, mtr, hist>>

SetTotalStore(id) ==
  /\ At(id, "storeTotal")
  /\ StoreTotal(id, go[id].total)
  /\ go' = [go EXCEPT ![id].pc = "answer"]
  /\ UNCHANGED <<outside, database, rpc, ctxDone, mtr, hist>>

(* The end of the loop body: leave, or ask for the next page.              *)
LastPage(id) == go[id].startAt + Cardinality(go[id].page) >= go[id].total

(* Variant: the next page starts a full page size further.                 *)
NextPageFixedStride(id) ==
  go' = [go EXCEPT ![id].pc = IF LastPage(id) THEN "finish" ELSE "search",
                   ![id].startAt = IF LastPage(id) THEN @ ELSE @ + PageSize]

NextPage(id) ==
  go' = [go EXCEPT ![id].pc = IF LastPage(id) THEN "finish" ELSE "search",
                   ![id].startAt = IF LastPage(id) THEN @
                                   ELSE @ + Cardinality(go[id].page)]

EmptyPage(id) ==
  /\ At(id, "answer")
  /\ go[id].page = {}
  /\ NextPage(id)
  /\ UNCHANGED <<manager, outside, database, rpc, ctxDone, mtr, hist>>

(* fetchPageIssues; issues whose own fetch failed are skipped.             *)
FetchPageIssues(id) ==
  /\ At(id, "answer")
  /\ go[id].page # {}
  /\ \E failed \in SUBSET go[id].page :
     \E r \in PageResults(go[id].page, failed, ctxDone[id]) :
       /\ go' = [go EXCEPT ![id].pc = IF r.err = "nil" THEN "begin" ELSE "finish",
                           ![id].err = r.err,
                           ![id].issues = r.issues]
       /\ hist' = [hist EXCEPT ![id].skipped = @ \cup failed]
  /\ UNCHANGED <<manager, outside, database, rpc, ctxDone, mtr>>

-----------------------------------------------------------------------------
(* commitPage and WithTransaction.                                         *)
BeginTx(id) ==
  /\ At(id, "begin")
  /\ \/ CtxAlive(id) /\ go' = [go EXCEPT ![id].pc = "insert"]
     \/ Return(id, "err")
  /\ UNCHANGED <<manager, outside, database, rpc, ctxDone, mtr, hist>>

(* insertProcessedIssue; on an error the transaction is rolled back.       *)
InsertProcessedIssue(id) ==
  /\ At(id, "insert")
  /\ go[id].tx # go[id].issues
  /\ \/ /\ CtxAlive(id)
        /\ \E i \in go[id].issues \ go[id].tx :
             go' = [go EXCEPT ![id].pc = "count", ![id].tx = @ \cup {i}]
     \/ Return(id, "err")
  /\ UNCHANGED <<manager, outside, database, rpc, ctxDone, mtr, hist>>

IncIssuesProcessed == mtr' = [mtr EXCEPT !.SyncIssuesProcessed = @ + 1]

(* manager.IncrProcessed and mtr.IncIssuesProcessed, inside the still open *)
(* transaction.                                                            *)
IncrProcessedLookup(id) ==
  /\ At(id, "count")
  /\ go' = [go EXCEPT ![id].pc = IF Lookup(id) THEN "add" ELSE "insert"]
  /\ IF Lookup(id) THEN UNCHANGED mtr ELSE IncIssuesProcessed
  /\ UNCHANGED <<manager, outside, database, rpc, ctxDone, hist>>

IncrProcessedAdd(id) ==
  /\ At(id, "add")
  /\ AddProcessed(id)
  /\ IncIssuesProcessed
  /\ go' = [go EXCEPT ![id].pc = "insert"]
  /\ UNCHANGED <<outside, database, rpc, ctxDone, hist>>

(* Commit: it may fail, and it may fail after the server has committed.    *)
ReadyToCommit(id) == At(id, "insert") /\ go[id].tx = go[id].issues

Persist(id) ==
  /\ issueRows' = issueRows \cup go[id].tx
  /\ hist' = [hist EXCEPT ![id].upserts = @ + Cardinality(go[id].tx)]

(* Variant: the error of Commit is dropped.                                *)
CommitErrorDropped(id) ==
  /\ ReadyToCommit(id)
  /\ \/ CtxAlive(id) /\ Persist(id)
     \/ UNCHANGED <<issueRows, hist>>
  /\ NextPage(id)
  /\ UNCHANGED <<manager, outside, projectRows, rpc, ctxDone, mtr>>

Commit(id) ==
  /\ ReadyToCommit(id)
  /\ \/ CtxAlive(id) /\ Persist(id) /\ NextPage(id)
     \/ CtxAlive(id) /\ Persist(id) /\ Return(id, "err")
     \/ UNCHANGED <<issueRows, hist>> /\ Return(id, "err")
  /\ UNCHANGED <<manager, outside, projectRows, rpc, ctxDone, mtr>>

-----------------------------------------------------------------------------
(* Variant: no return after Fail, so Complete follows.                     *)
FailSyncFallsThrough(id) ==
  /\ At(id, "finish")
  /\ go[id].err = "err"
  /\ Fail(id)
  /\ go' = [go EXCEPT ![id].err = "nil"]
  /\ UNCHANGED <<outside, database, rpc, ctxDone, mtr, hist>>

(* The end of the goroutine: Fail or Complete, then SyncJobFinished.       *)
FailSync(id) ==
  /\ At(id, "finish")
  /\ go[id].err = "err"
  /\ Fail(id)
  /\ go' = [go EXCEPT ![id].pc = "metrics"]
  /\ UNCHANGED <<outside, database, rpc, ctxDone, mtr, hist>>

CompleteSync(id) ==
  /\ At(id, "finish")
  /\ go[id].err = "nil"
  /\ Complete(id)
  /\ go' = [go EXCEPT ![id].pc = "metrics"]
  /\ UNCHANGED <<outside, database, rpc, ctxDone, mtr, hist>>

(* Variant: a failed sync does not lower the gauge.                        *)
SyncJobFinishedKeepsGauge(id) ==
  /\ At(id, "metrics")
  /\ mtr' = IF go[id].err = "err"
              THEN [mtr EXCEPT !.SyncFailed = @ + 1]
              ELSE [mtr EXCEPT !.SyncCompleted = @ + 1, !.SyncActive = @ - 1]
  /\ go' = [go EXCEPT ![id].pc = "exited"]
  /\ UNCHANGED <<manager, outside, database, rpc, ctxDone, hist>>

SyncJobFinished(id) ==
  /\ At(id, "metrics")
  /\ mtr' = IF go[id].err = "err"
              THEN [mtr EXCEPT !.SyncFailed = @ + 1, !.SyncActive = @ - 1]
              ELSE [mtr EXCEPT !.SyncCompleted = @ + 1, !.SyncActive = @ - 1]
  /\ go' = [go EXCEPT ![id].pc = "exited"]
  /\ UNCHANGED <<manager, outside, database, rpc, ctxDone, hist>>

(* Variant: the detached context has no deadline.                          *)
NoTimeout(id) == FALSE

(* context.WithTimeout: syncTimeout runs out.                              *)
Timeout(id) ==
  /\ go[id].pc \notin {"none", "launch", "metrics", "exited"}
  /\ ~ctxDone[id]
  /\ ctxDone' = [ctxDone EXCEPT ![id] = TRUE]
  /\ UNCHANGED <<manager, outside, database, rpc, go, mtr, hist>>

Clock == /\ now < MaxTime
         /\ Tick
         /\ UNCHANGED <<outside, database, rpc, go, ctxDone, mtr, hist>>

-----------------------------------------------------------------------------
Handler(r) == \/ EnsureProject(r) \/ JoinSync(r) \/ LaunchSync(r)
              \/ \E id \in SyncIDs : StartSync(r, id)

Sync(id) == \/ SearchIssues(id) \/ SearchFails(id)
            \/ SetTotalLookup(id) \/ SetTotalStore(id)
            \/ EmptyPage(id) \/ FetchPageIssues(id)
            \/ BeginTx(id) \/ InsertProcessedIssue(id)
            \/ IncrProcessedLookup(id) \/ IncrProcessedAdd(id) \/ Commit(id)
            \/ FailSync(id) \/ CompleteSync(id) \/ SyncJobFinished(id)

Next == \/ \E r \in Callers : DownloadProject(r) \/ Handler(r)
        \/ \E id \in SyncIDs : Sync(id) \/ Timeout(id)
        \/ \E k \in ToSet(Listing) : CreateIssue(k) \/ DeleteIssue(k)
        \/ Clock

(* Handlers and goroutines keep running (Jira and the database answer or   *)
(* fail: every call carries a context), and the timer of a sync fires.     *)
Fairness == /\ \A r \in Callers : WF_vars(Handler(r))
            /\ \A id \in SyncIDs : WF_vars(Sync(id)) /\ WF_vars(Timeout(id))

Safety == Init /\ [][Next]_vars
Spec == Safety /\ Fairness

-----------------------------------------------------------------------------
(* The goroutines that still write to the database for a project.          *)
Writers(k) == {id \in SyncIDs : /\ job[id].projectKey = k
                                /\ go[id].pc \notin {"none", "metrics", "exited"}}

(* One sync per project, whatever the calls do: two goroutines never copy  *)
(* the same project at the same time, the project's row is there before    *)
(* its sync starts, and an accepted call got the id of a sync of its own   *)
(* project.                                                                *)
OneSyncPerProject ==
  /\ \A k \in Keys : /\ Cardinality(Writers(k)) <= 1
                     /\ Writers(k) # {} => k \in projectRows
  /\ \A r \in Callers : rpc[r].status \in {"running", "already_running"} =>
                           job[rpc[r].id].projectKey = rpc[r].key

Covered(id) == hist[id].present \ hist[id].skipped \subseteq issueRows

(* A completed sync has stored every issue that was in the project from    *)
(* its first search to its end, but for those whose own fetch failed, as   *)
(* long as nothing was deleted meanwhile: neither issues created between   *)
(* two pages, nor capped pages, nor a timeout that truncates a page make   *)
(* it skip one.                                                            *)
CompletedCovers ==
  \A id \in SyncIDs :
    job[id].state = JobStateCompleted /\ ~hist[id].disturbed => Covered(id)

(* The processed count of a completed sync is the number of issues its     *)
(* transactions committed; a failed one may only have counted too many.    *)
ProcessedMatchesCommits ==
  \A id \in SyncIDs :
    /\ job[id].state = JobStateCompleted => job[id].processed = hist[id].upserts
    /\ job[id].state = JobStateFailed => job[id].processed >= hist[id].upserts

Count(S) == Cardinality({id \in SyncIDs : S[id]})

(* The metrics tell the same story as the registry: jobs_active counts the *)
(* goroutines between launch and end, and the started, completed and       *)
(* failed counters add up with the states of the jobs, on every path.      *)
(* (A scrape in the middle of a metrics call is not covered.)              *)
MetricsAgree ==
  /\ mtr.SyncActive = Count([id \in SyncIDs |->
                                go[id].pc \notin {"none", "launch", "exited"}])
  /\ mtr.SyncStarted = mtr.SyncActive + mtr.SyncCompleted + mtr.SyncFailed
  /\ mtr.SyncCompleted = Count([id \in SyncIDs |->
        job[id].state = JobStateCompleted /\ At(id, "exited")])
  /\ mtr.SyncFailed = Count([id \in SyncIDs |->
        job[id].state = JobStateFailed /\ At(id, "exited")])

(* The database only ever gains whole pages: a page that lost issues to a  *)
(* timeout (the fetch returns it without an error) is never committed.     *)
WholePagesOnly ==
  [][issueRows' # issueRows =>
       \E id \in SyncIDs : /\ ReadyToCommit(id)
                           /\ go[id].page \ hist[id].skipped \subseteq issueRows']_vars

(* Every started sync ends, even if Jira keeps answering with empty pages: *)
(* the timeout sees to that, so its key can be synced again.               *)
EverySyncEnds ==
  \A id \in SyncIDs :
    job[id].state = JobStateRunning ~> job[id].state \in Terminal

Runner(id) ==
  CASE go[id].pc = "none" -> "none"
    [] go[id].pc \in {"metrics", "exited"} -> "exited"
    [] go[id].pc = "storeTotal" -> "total"
    [] go[id].pc = "add" -> "incr"
    [] OTHER -> IF go[id].totalSet THEN "counting" ELSE "fresh"

(* The calls of IncrProcessed: the one on its way is not counted yet.      *)
Calls(id) == job[id].processed + (IF At(id, "add") THEN 1 ELSE 0)

Registry == INSTANCE ManagerSpec WITH
  MaxTotal <- Cardinality(Issues),
  MaxProcessed <- Cardinality(Issues),
  runner <- [id \in SyncIDs |-> Runner(id)],
  calls <- [id \in SyncIDs |-> Calls(id)]

(* sync.go keeps the contract under which ManagerSpec is verified: only    *)
(* the goroutine of a started job updates it, it sets the total before it  *)
(* counts, and it calls Complete or Fail exactly once.                     *)
KeepsManagerContract == Registry!Spec

-----------------------------------------------------------------------------
(* "runSync fetches all issues for a project page by page": a completed    *)
(* sync has stored every issue that was in the project all along and whose *)
(* fetch did not fail, whatever else happened in Jira.                     *)
FetchesAllIssues ==
  \A id \in SyncIDs : job[id].state = JobStateCompleted => Covered(id)

SumUpserts == MapThenSumSet(LAMBDA id : hist[id].upserts, SyncIDs)

(* "IncIssuesProcessed counts one persisted issue": no more issues are     *)
(* counted than the database has accepted.                                 *)
CountsPersistedIssues ==
  (\A id \in SyncIDs : go[id].pc \in {"none", "exited"}) =>
    mtr.SyncIssuesProcessed = SumUpserts

(* "ErrProjectNotFound is returned when the project key does not exist in  *)
(* Jira": no caller is told so of a project that does.                     *)
NotFoundMeansAbsent ==
  \A r \in Callers : rpc[r].status = "NotFound" => rpc[r].key \notin ToSet(Listing)
=============================================================================
