-------------------------- MODULE SyncServiceProofs --------------------------
(***************************************************************************)
(* Proofs about the sync service, for any number of callers, keys, syncs   *)
(* and issues, any page size and any bounds.                               *)
(*                                                                         *)
(* That two goroutines never copy one project needs that the registry and  *)
(* the goroutines agree on who runs; that the gauge is right needs that a  *)
(* sync is launched by one caller only; that the processed count of a sync *)
(* is right needs the count of the open transaction at every program       *)
(* point.  SyncInv collects these facts.                                   *)
(***************************************************************************)
EXTENDS SyncService, FiniteSetTheorems, TLAPS

Working == {"launch", "search", "setTotal", "storeTotal", "answer", "begin",
            "insert", "count", "add", "finish"}
InPage  == {"begin", "insert", "count", "add"}
Statuses == {"", "InvalidArgument", "running", "already_running"} \cup GRPCErrors

Call == [pc : {"idle", "ensure", "start", "launch"}, key : Keys \cup {NoKey},
         id : SyncIDs \cup {NoJob}, status : Statuses]

Goroutine == [pc : {"none", "metrics", "exited"} \cup Working,
              err : {"nil", "err"}, startAt : Nat, total : Nat,
              totalSet : BOOLEAN, page : SUBSET Issues, issues : SUBSET Issues,
              tx : SUBSET Issues]

Metrics == [SyncStarted : Int, SyncActive : Int, SyncCompleted : Int,
            SyncFailed : Int, SyncIssuesProcessed : Int]

History == [present : SUBSET Issues, disturbed : BOOLEAN,
            skipped : SUBSET Issues, upserts : Nat]

RegistryType == /\ byID \subseteq SyncIDs
                /\ byKey \in [Keys -> SyncIDs \cup {NoJob}]
                /\ job \in [SyncIDs -> Job]
                /\ now \in Nat
                /\ mu = Free

(* Every variable keeps its type; nobody polls, so the lock is free.       *)
SyncType == /\ RegistryType
            /\ jira \in [Keys -> Seq(Issues)] /\ deleted \subseteq Issues
            /\ projectRows \subseteq Keys /\ issueRows \subseteq Issues
            /\ rpc \in [Callers -> Call]
            /\ go \in [SyncIDs -> Goroutine]
            /\ ctxDone \in [SyncIDs -> BOOLEAN]
            /\ mtr \in Metrics
            /\ hist \in [SyncIDs -> History]

(* The registry and the goroutine of a sync agree on where it is, and the  *)
(* error it ends with decides its final state.                             *)
JobMatches(id) ==
  /\ job[id].state = JobStateNone <=> At(id, "none")
  /\ job[id].state = JobStateRunning <=> go[id].pc \in Working
  /\ go[id].pc \in Working => id \in byID
  /\ ~At(id, "none") => job[id].projectKey \in projectRows
  /\ \A k \in Keys : byKey[k] = id <=> /\ go[id].pc \in Working
                                       /\ job[id].projectKey = k
  /\ go[id].pc \in {"metrics", "exited"} =>
       job[id].state = IF go[id].err = "err" THEN JobStateFailed
                                             ELSE JobStateCompleted
  /\ go[id].err = "err" => go[id].pc \in {"finish", "metrics", "exited"}

(* Only the caller that started a sync launches it, and what a caller was  *)
(* told is about a sync of its own project.                                *)
CallSound(r) ==
  /\ rpc[r].pc # "idle" => rpc[r].key \in Keys /\ rpc[r].status = ""
  /\ rpc[r].pc \in {"start", "launch"} => rpc[r].key \in projectRows
  /\ rpc[r].pc = "launch" =>
       /\ rpc[r].id \in SyncIDs
       /\ At(rpc[r].id, "launch")
       /\ job[rpc[r].id].projectKey = rpc[r].key
       /\ \A q \in Callers : rpc[q].pc = "launch" /\ rpc[q].id = rpc[r].id => q = r
  /\ rpc[r].status \in {"running", "already_running"} =>
       /\ rpc[r].id \in SyncIDs
       /\ Born(rpc[r].id)
       /\ job[rpc[r].id].projectKey = rpc[r].key

(* The locals of a page: what is in the transaction was fetched, what was  *)
(* fetched is on the page, and while the context lives nothing is missing  *)
(* but the issues whose own fetch failed.                                  *)
PageSound(id) ==
  /\ IsFiniteSet(go[id].page)
  /\ go[id].issues \subseteq go[id].page
  /\ go[id].tx \subseteq go[id].issues
  /\ go[id].pc \in {"none", "launch", "setTotal", "storeTotal", "answer", "begin"} =>
       go[id].tx = {}
  /\ go[id].pc \in InPage /\ ~ctxDone[id] =>
       go[id].page \ hist[id].skipped \subseteq go[id].issues

(* The processed count is what was committed and, inside a transaction,    *)
(* what it holds, but for the issue that is just being counted.            *)
CountSound(id) ==
  /\ go[id].pc \in {"none", "launch"} => hist[id].upserts = 0
  /\ go[id].pc \in {"none", "launch", "search", "setTotal", "storeTotal",
                    "answer", "begin"} =>
       job[id].processed = hist[id].upserts
  /\ At(id, "insert") =>
       job[id].processed = hist[id].upserts + Cardinality(go[id].tx)
  /\ go[id].pc \in {"count", "add"} =>
       job[id].processed + 1 = hist[id].upserts + Cardinality(go[id].tx)
  /\ go[id].pc \in {"finish", "metrics", "exited"} =>
       IF go[id].err = "nil" THEN job[id].processed = hist[id].upserts
                             ELSE job[id].processed >= hist[id].upserts

JobInv   == \A id \in SyncIDs : JobMatches(id)
CallInv  == \A r \in Callers : CallSound(r)
PageInv  == \A id \in SyncIDs : PageSound(id)
CountInv == \A id \in SyncIDs : CountSound(id)

(* The goroutines the metrics count.                                       *)
Started   == {id \in SyncIDs : ~At(id, "none")}
Active    == {id \in SyncIDs : go[id].pc \notin {"none", "launch", "exited"}}
Ended(s)  == {id \in SyncIDs : job[id].state = s /\ At(id, "exited")}

MetricsInv ==
  /\ IsFiniteSet(Started)
  /\ mtr.SyncActive = Cardinality(Active)
  /\ mtr.SyncCompleted = Cardinality(Ended(JobStateCompleted))
  /\ mtr.SyncFailed = Cardinality(Ended(JobStateFailed))
  /\ mtr.SyncStarted = mtr.SyncActive + mtr.SyncCompleted + mtr.SyncFailed

SyncInv == /\ SyncType
           /\ JobInv
           /\ CallInv
           /\ PageInv
           /\ CountInv
           /\ MetricsInv

-----------------------------------------------------------------------------
USE ManagerAssumption, SyncAssumption
USE DEF JobStateNone, JobStateRunning, JobStateCompleted, JobStateFailed,
        JobStates, Terminal, At

(* Nothing is registered, nobody calls and nothing runs at the start.      *)
LEMMA InitSync == Init => SyncInv
<1> SUFFICES ASSUME Init PROVE SyncInv
  OBVIOUS
<1> USE DEF Init, NewManager
<1>1. SyncType
  <2>1. RegistryType
    BY DEF RegistryType, Job, NewJob, NoKey, NoMsg, ErrMsg
  <2>2. rpc \in [Callers -> Call]
    BY DEF Call, Idle, Statuses, NoKey
  <2>3. go \in [SyncIDs -> Goroutine]
    BY DEF Goroutine
  <2>4. mtr \in Metrics
    BY DEF Metrics
  <2>5. hist \in [SyncIDs -> History]
    BY DEF History
  <2>6. QED
    BY <2>1, <2>2, <2>3, <2>4, <2>5 DEF SyncType
<1>2. JobInv
  BY DEF JobInv, JobMatches, NewJob, Working
<1>3. CallInv
  BY DEF CallInv, CallSound, Idle
<1>4. PageInv
  BY FS_EmptySet DEF PageInv, PageSound, InPage
<1>5. CountInv
  BY DEF CountInv, CountSound, NewJob
<1>6. MetricsInv
  <2>1. Started = {} /\ Active = {} /\ Ended(JobStateCompleted) = {}
          /\ Ended(JobStateFailed) = {}
    BY DEF Started, Active, Ended
  <2>2. IsFiniteSet({}) /\ Cardinality({}) = 0
    BY FS_EmptySet
  <2>3. /\ mtr.SyncStarted = 0 /\ mtr.SyncActive = 0
        /\ mtr.SyncCompleted = 0 /\ mtr.SyncFailed = 0
    OBVIOUS
  <2> HIDE DEF Init, NewManager
  <2>4. IsFiniteSet(Started)
    BY <2>1, <2>2
  <2>5. Cardinality(Active) = 0
    BY <2>1, <2>2
  <2>6. Cardinality(Ended(JobStateCompleted)) = 0 /\ Cardinality(Ended(JobStateFailed)) = 0
    BY <2>1, <2>2
  <2>7. QED
    BY <2>3, <2>4, <2>5, <2>6 DEF MetricsInv
<1>7. QED
  BY <1>1, <1>2, <1>3, <1>4, <1>5, <1>6 DEF SyncInv

-----------------------------------------------------------------------------
(* A step of one goroutine between its launch and its end: the other syncs *)
(* are untouched, so are the callers and the metrics.                      *)
LEMMA OthersKept ==
  ASSUME SyncInv, NEW id,
         \A j \in SyncIDs : j # id => /\ go'[j] = go[j] /\ job'[j] = job[j]
                                      /\ hist'[j] = hist[j]
                                      /\ ctxDone'[j] = ctxDone[j]
                                      /\ go[j].pc \in Working /\ j \in byID =>
                                           j \in byID',
         \A k \in Keys : byKey'[k] # byKey[k] => /\ byKey[k] \in {id, NoJob}
                                                 /\ byKey'[k] \in {id, NoJob},
         projectRows \subseteq projectRows'
  PROVE  \A j \in SyncIDs : j # id => /\ JobMatches(j)'
                                      /\ PageSound(j)'
                                      /\ CountSound(j)'
<1> SUFFICES ASSUME NEW j \in SyncIDs, j # id
             PROVE  JobMatches(j)' /\ PageSound(j)' /\ CountSound(j)'
  OBVIOUS
<1>1. JobMatches(j) /\ PageSound(j) /\ CountSound(j)
  BY DEF SyncInv, JobInv, PageInv, CountInv
<1>2. \A k \in Keys : byKey'[k] = j <=> byKey[k] = j
  OBVIOUS
<1>3. JobMatches(j)'
  BY <1>1, <1>2 DEF JobMatches, Born, Working
<1>4. PageSound(j)' /\ CountSound(j)'
  BY <1>1 DEF PageSound, CountSound
<1>5. QED
  BY <1>3, <1>4

(* The calls stay sound while no job they point to changes its key or      *)
(* leaves its launch.                                                      *)
LEMMA CallsKept ==
  ASSUME SyncInv, UNCHANGED rpc,
         projectRows \subseteq projectRows',
         \A j \in SyncIDs : /\ At(j, "launch") => At(j, "launch")'
                            /\ Born(j) => /\ Born(j)'
                                          /\ job'[j].projectKey = job[j].projectKey
  PROVE  CallInv'
<1> SUFFICES ASSUME NEW r \in Callers PROVE CallSound(r)'
  BY DEF CallInv
<1>1. CallSound(r) /\ JobInv
  BY DEF SyncInv, CallInv
<1>2. rpc[r].pc = "launch" => Born(rpc[r].id)
  BY <1>1 DEF CallSound, JobInv, JobMatches, Born
<1>3. QED
  BY <1>1, <1>2 DEF CallSound

(* The metrics stay right while nobody is started, launched or ended.      *)
LEMMA MetricsKept ==
  ASSUME SyncInv,
         mtr'.SyncStarted = mtr.SyncStarted, mtr'.SyncActive = mtr.SyncActive,
         mtr'.SyncCompleted = mtr.SyncCompleted, mtr'.SyncFailed = mtr.SyncFailed,
         \A j \in SyncIDs : /\ At(j, "none") <=> At(j, "none")'
                            /\ At(j, "launch") <=> At(j, "launch")'
                            /\ At(j, "exited") <=> At(j, "exited")'
                            /\ At(j, "exited") => job'[j].state = job[j].state
  PROVE  MetricsInv'
<1>1. MetricsInv
  BY DEF SyncInv
<1>2. /\ Started' = Started
      /\ Active' = Active
      /\ Ended(JobStateCompleted)' = Ended(JobStateCompleted)
      /\ Ended(JobStateFailed)' = Ended(JobStateFailed)
  BY DEF Started, Active, Ended
<1>3. QED
  BY <1>1, <1>2 DEF MetricsInv

(* A step of one goroutine needs to be looked at for that goroutine only.  *)
LEMMA GoroutineStep ==
  ASSUME SyncInv, SyncType', NEW id \in SyncIDs,
         go[id].pc \in Working \ {"launch"},
         go'[id].pc \in (Working \ {"launch"}) \cup {"metrics"},
         \A j \in SyncIDs : j # id => /\ go'[j] = go[j] /\ job'[j] = job[j]
                                      /\ hist'[j] = hist[j]
                                      /\ ctxDone'[j] = ctxDone[j],
         \A k \in Keys : byKey'[k] # byKey[k] => byKey[k] = id /\ byKey'[k] = NoJob,
         UNCHANGED <<byID, projectRows, rpc>>,
         mtr'.SyncStarted = mtr.SyncStarted, mtr'.SyncActive = mtr.SyncActive,
         mtr'.SyncCompleted = mtr.SyncCompleted, mtr'.SyncFailed = mtr.SyncFailed,
         job'[id].projectKey = job[id].projectKey,
         JobMatches(id)', PageSound(id)', CountSound(id)'
  PROVE  SyncInv'
<1>1. \A j \in SyncIDs : j # id => JobMatches(j)' /\ PageSound(j)' /\ CountSound(j)'
  BY OthersKept
<1>2. JobInv' /\ PageInv' /\ CountInv'
  BY <1>1 DEF JobInv, PageInv, CountInv
<1>3. Born(id) /\ Born(id)'
  BY DEF SyncInv, JobInv, JobMatches, Born, Working
<1>4. ~At(id, "none") /\ ~At(id, "launch") /\ ~At(id, "exited")
  BY DEF Working
<1>5. (~At(id, "none") /\ ~At(id, "launch") /\ ~At(id, "exited"))'
  BY DEF Working
<1>6. CallInv'
  <2>1. \A j \in SyncIDs : /\ At(j, "launch") => At(j, "launch")'
                           /\ Born(j) => /\ Born(j)'
                                         /\ job'[j].projectKey = job[j].projectKey
    BY <1>3, <1>4 DEF Born
  <2>2. QED
    BY <2>1, CallsKept
<1>7. MetricsInv'
  <2>1. \A j \in SyncIDs : /\ At(j, "none") <=> At(j, "none")'
                           /\ At(j, "launch") <=> At(j, "launch")'
                           /\ At(j, "exited") <=> At(j, "exited")'
                           /\ At(j, "exited") => job'[j].state = job[j].state
    BY <1>4, <1>5
  <2>2. QED
    BY <2>1, MetricsKept
<1>8. QED
  BY <1>2, <1>6, <1>7 DEF SyncInv

-----------------------------------------------------------------------------
(* The elements of a sequence are a finite set, no larger than its length. *)
LEMMA ToSetFinite ==
  ASSUME NEW S, NEW s \in Seq(S)
  PROVE  /\ ToSet(s) \subseteq S
         /\ IsFiniteSet(ToSet(s))
         /\ Cardinality(ToSet(s)) <= Len(s)
<1>1. DOMAIN s = 1..Len(s) /\ Len(s) \in Nat
  OBVIOUS
<1>2. s \in [DOMAIN s -> ToSet(s)] /\ ToSet(s) \subseteq S
  BY <1>1 DEF ToSet
<1>3. s \in Surjection(DOMAIN s, ToSet(s))
  BY <1>2 DEF Surjection, ToSet
<1>4. IsFiniteSet(1..Len(s)) /\ Cardinality(1..Len(s)) = Len(s)
  <2>1. \A a, b \in Int : /\ IsFiniteSet(a..b)
                          /\ Cardinality(a..b) = IF a > b THEN 0 ELSE b - a + 1
    BY FS_Interval
  <2>2. ASSUME NEW b \in Nat PROVE IsFiniteSet(1..b) /\ Cardinality(1..b) = b
    <3>1. /\ IsFiniteSet(1..b)
          /\ Cardinality(1..b) = IF 1 > b THEN 0 ELSE b - 1 + 1
      BY <2>1
    <3>2. (IF 1 > b THEN 0 ELSE b - 1 + 1) = b
      OBVIOUS
    <3>3. QED
      BY <3>1, <3>2
  <2>3. QED
    BY <1>1, <2>2
<1>5. QED
  BY <1>1, <1>2, <1>3, <1>4, FS_Surjection

(* The m places of a sequence behind the first n.                          *)
Places(s, n, m) == {s[i] : i \in (n + 1)..(n + m)}

(* A search answers with the issues at the next m places, m being 0 or     *)
(* within the project.                                                     *)
LEMMA SearchAnswer ==
  ASSUME NEW k, jira[k] \in Seq(Issues), NEW n \in Nat, NEW page \in Pages(k, n)
  PROVE  /\ ToSet(page) \subseteq Issues
         /\ IsFiniteSet(ToSet(page))
         /\ \E m \in Nat :
              /\ m = 0 \/ n + m <= Len(jira[k])
              /\ Cardinality(ToSet(page)) <= m
              /\ ToSet(page) = Places(jira[k], n, m)
<1>1. PICK m \in 0..PageSize : /\ n + m <= Len(jira[k]) \/ m = 0
                               /\ page = SubSeq(jira[k], n + 1, n + m)
  BY DEF Pages
<1>2. m \in Nat /\ Len(jira[k]) \in Nat
  BY <1>1
<1>3. /\ page \in Seq(Issues) /\ Len(page) = m
      /\ \A i \in 1..m : page[i] = jira[k][n + i]
  <2>1. CASE m = 0
    BY <1>1, <1>2, <2>1
  <2>2. CASE m # 0
    BY <1>1, <1>2, <2>2
  <2>3. QED
    BY <2>1, <2>2
<1>4. ToSet(page) = Places(jira[k], n, m)
  <2>1. ASSUME NEW x \in ToSet(page) PROVE x \in Places(jira[k], n, m)
    <3>1. PICK i \in 1..m : x = page[i]
      BY <1>3 DEF ToSet
    <3>2. n + i \in (n + 1)..(n + m)
      BY <1>2, <3>1
    <3>3. QED
      BY <1>3, <3>1, <3>2 DEF Places
  <2>2. ASSUME NEW i \in (n + 1)..(n + m) PROVE jira[k][i] \in ToSet(page)
    <3>1. i - n \in 1..m /\ n + (i - n) = i
      BY <1>2
    <3>2. page[i - n] = jira[k][i]
      BY <1>3, <3>1
    <3>3. DOMAIN page = 1..m
      BY <1>3
    <3>4. QED
      BY <3>1, <3>2, <3>3 DEF ToSet
  <2>3. QED
    BY <2>1, <2>2 DEF Places
<1>5. QED
  BY <1>1, <1>2, <1>3, <1>4, ToSetFinite

-----------------------------------------------------------------------------
(* The locals of a sync have their types, whatever step comes next.        *)
LEMMA SyncTypes ==
  ASSUME SyncInv, NEW id \in SyncIDs
  PROVE  /\ go[id] \in Goroutine /\ job[id] \in Job /\ hist[id] \in History
         /\ ctxDone[id] \in BOOLEAN
         /\ JobMatches(id) /\ PageSound(id) /\ CountSound(id)
BY DEF SyncInv, SyncType, RegistryType, JobInv, PageInv, CountInv

(* A step that only moves the goroutine along and changes its locals.      *)
LEMMA LocalStep ==
  ASSUME SyncInv, NEW id \in SyncIDs,
         go[id].pc \in Working \ {"launch"},
         go' \in [SyncIDs -> Goroutine],
         \A j \in SyncIDs : j # id => go'[j] = go[j],
         go'[id].pc \in Working \ {"launch"},
         go'[id].err = "err" => go'[id].pc = "finish",
         UNCHANGED <<manager, outside, database, rpc, ctxDone, mtr>>,
         hist' \in [SyncIDs -> History],
         \A j \in SyncIDs : j # id => hist'[j] = hist[j],
         PageSound(id)', CountSound(id)'
  PROVE  SyncInv'
<1> USE DEF manager, outside, database
<1>1. SyncType'
  BY DEF SyncInv, SyncType, RegistryType
<1>2. JobMatches(id)'
  BY SyncTypes DEF JobMatches, Working
<1>3. QED
  BY <1>1, <1>2, GoroutineStep

(* A search answer replaces the page and clears what was fetched before.   *)
LEMMA SearchIssuesSync ==
  ASSUME SyncInv, NEW id \in SyncIDs, SearchIssues(id)
  PROVE  SyncInv'
<1> DEFINE k == job[id].projectKey
<1>1. /\ go[id] \in Goroutine /\ hist[id] \in History
      /\ JobMatches(id) /\ CountSound(id) /\ At(id, "search")
  BY SyncTypes DEF SearchIssues
<1>2. jira[k] \in Seq(Issues)
  BY <1>1 DEF SyncInv, SyncType, JobMatches
<1>3. PICK page \in Pages(k, go[id].startAt) :
          go' = [go EXCEPT
                   ![id].pc = IF go[id].totalSet THEN "answer" ELSE "setTotal",
                   ![id].total = Len(jira[k]),
                   ![id].page = ToSet(page),
                   ![id].issues = {}, ![id].tx = {}]
  BY DEF SearchIssues
<1>4. ToSet(page) \subseteq Issues /\ IsFiniteSet(ToSet(page))
  BY <1>1, <1>2, <1>3, SearchAnswer DEF Goroutine
<1>5. /\ go'[id] = [go[id] EXCEPT
                      !.pc = IF go[id].totalSet THEN "answer" ELSE "setTotal",
                      !.total = Len(jira[k]), !.page = ToSet(page),
                      !.issues = {}, !.tx = {}]
      /\ go' \in [SyncIDs -> Goroutine]
      /\ \A j \in SyncIDs : j # id => go'[j] = go[j]
  <2>1. go \in [SyncIDs -> Goroutine] /\ Len(jira[k]) \in Nat
    BY <1>2 DEF SyncInv, SyncType
  <2>2. /\ go'[id] = [go[id] EXCEPT
                        !.pc = IF go[id].totalSet THEN "answer" ELSE "setTotal",
                        !.total = Len(jira[k]), !.page = ToSet(page),
                        !.issues = {}, !.tx = {}]
        /\ \A j \in SyncIDs : j # id => go'[j] = go[j]
        /\ DOMAIN go' = SyncIDs /\ go' = [j \in SyncIDs |-> go'[j]]
    BY <1>3, <2>1 DEF Goroutine
  <2> HIDE DEF k
  <2>3. go'[id] \in Goroutine
    BY <1>1, <1>4, <2>1, <2>2, ZenonT(60) DEF Goroutine, Working
  <2>4. QED
    BY <2>1, <2>2, <2>3
<1>6. /\ hist' \in [SyncIDs -> History]
      /\ hist'[id].upserts = hist[id].upserts
      /\ \A j \in SyncIDs : j # id => hist'[j] = hist[j]
  <2>1. ToSet(jira[k]) \subseteq Issues
    BY <1>2, ToSetFinite
  <2>2. QED
    BY <1>1, <2>1 DEF SearchIssues, History, SyncInv, SyncType
<1>7. PageSound(id)'
  BY <1>1, <1>4, <1>5 DEF PageSound, InPage, Goroutine
<1>8. CountSound(id)'
  BY <1>1, <1>5, <1>6 DEF CountSound, SearchIssues, manager
<1>9. QED
  BY <1>1, <1>5, <1>6, <1>7, <1>8, LocalStep, ZenonT(60)
     DEF SearchIssues, Goroutine, Working, JobMatches

(* An error on the way leads to Fail, and leaves what is counted and       *)
(* stored.                                                                 *)
LEMMA ReturnSync ==
  ASSUME SyncInv, NEW id \in SyncIDs, Return(id, "err"),
         go[id].pc \in {"search", "begin", "insert"},
         UNCHANGED <<manager, outside, database, rpc, ctxDone, mtr, hist>>
  PROVE  SyncInv'
<1>1. /\ go[id] \in Goroutine /\ hist[id] \in History /\ job[id] \in Job
      /\ PageSound(id) /\ CountSound(id)
  BY SyncTypes
<1>2. /\ go'[id] = [go[id] EXCEPT !.pc = "finish", !.err = "err"]
      /\ go' \in [SyncIDs -> Goroutine]
      /\ \A j \in SyncIDs : j # id => go'[j] = go[j]
  BY <1>1 DEF Return, Goroutine, Working, SyncInv, SyncType
<1>3. PageSound(id)'
  BY <1>1, <1>2 DEF PageSound, InPage, Goroutine
<1>4. Cardinality(go[id].tx) \in Nat
  BY <1>1, FS_Subset, FS_CardinalityType DEF PageSound
<1>5. CountSound(id)'
  BY <1>1, <1>2, <1>4, SMTT(30) DEF CountSound, Goroutine, manager, Job, History
<1>6. QED
  BY <1>1, <1>2, <1>3, <1>5, LocalStep
     DEF Goroutine, Working, SyncInv, SyncType

(* A search that fails is such an error.                                   *)
LEMMA SearchFailsSync ==
  ASSUME SyncInv, NEW id \in SyncIDs, SearchFails(id)
  PROVE  SyncInv'
BY ReturnSync DEF SearchFails

(* The lookup of SetTotal changes the goroutine only.                      *)
LEMMA SetTotalLookupSync ==
  ASSUME SyncInv, NEW id \in SyncIDs, SetTotalLookup(id)
  PROVE  SyncInv'
<1>1. /\ go[id] \in Goroutine /\ JobMatches(id) /\ PageSound(id) /\ CountSound(id)
      /\ At(id, "setTotal")
  BY SyncTypes DEF SetTotalLookup
<1>2. PICK pc \in {"storeTotal", "answer"} :
        /\ go'[id] = [go[id] EXCEPT !.totalSet = TRUE, !.pc = pc]
        /\ go' \in [SyncIDs -> Goroutine]
        /\ \A j \in SyncIDs : j # id => go'[j] = go[j]
  BY <1>1 DEF SetTotalLookup, Goroutine, Working, SyncInv, SyncType
<1>3. PageSound(id)'
  BY <1>1, <1>2 DEF PageSound, InPage, Goroutine
<1>4. CountSound(id)'
  BY <1>1, <1>2 DEF CountSound, Goroutine, SetTotalLookup, manager
<1>5. go'[id].pc \in Working \ {"launch"} /\ go'[id].err # "err"
  BY <1>1, <1>2 DEF Goroutine, Working, JobMatches
<1>6. QED
  BY <1>1, <1>2, <1>3, <1>4, <1>5, LocalStep
     DEF SetTotalLookup, Working, SyncInv, SyncType

(* The store of SetTotal leaves the counters alone.                        *)
LEMMA SetTotalStoreSync ==
  ASSUME SyncInv, NEW id \in SyncIDs, SetTotalStore(id)
  PROVE  SyncInv'
<1>1. /\ go[id] \in Goroutine /\ job[id] \in Job
      /\ JobMatches(id) /\ PageSound(id) /\ CountSound(id)
      /\ At(id, "storeTotal")
  BY SyncTypes DEF SetTotalStore
<1>2. /\ go'[id] = [go[id] EXCEPT !.pc = "answer"]
      /\ go' \in [SyncIDs -> Goroutine]
      /\ \A j \in SyncIDs : j # id => go'[j] = go[j]
  BY <1>1 DEF SetTotalStore, Goroutine, Working, SyncInv, SyncType
<1>3. /\ job'[id] = [job[id] EXCEPT !.total = go[id].total]
      /\ job' \in [SyncIDs -> Job]
      /\ \A j \in SyncIDs : j # id => job'[j] = job[j]
  BY <1>1 DEF SetTotalStore, StoreTotal, Job, Goroutine, SyncInv, SyncType, RegistryType
<1>4. SyncType'
  BY <1>2, <1>3 DEF SyncInv, SyncType, RegistryType, SetTotalStore, StoreTotal,
                    outside, database
<1>5. JobMatches(id)'
  BY <1>1, <1>2, <1>3 DEF JobMatches, Working, SetTotalStore, StoreTotal, Job,
                          Goroutine, database
<1>6. PageSound(id)'
  BY <1>1, <1>2 DEF PageSound, InPage, Goroutine
<1>7. CountSound(id)'
  BY <1>1, <1>2, <1>3 DEF CountSound, Goroutine, SetTotalStore, Job
<1>8. QED
  BY <1>1, <1>2, <1>3, <1>4, <1>5, <1>6, <1>7, GoroutineStep
     DEF SetTotalStore, StoreTotal, Goroutine, Working, Job, database

(* The end of the loop body, reached with everything counted.              *)
LEMMA NextPageLocals ==
  ASSUME SyncInv, NEW id \in SyncIDs, NextPage(id)
  PROVE  /\ \E pc \in {"finish", "search"}, n \in Nat :
              go'[id] = [go[id] EXCEPT !.pc = pc, !.startAt = n]
         /\ go' \in [SyncIDs -> Goroutine]
         /\ \A j \in SyncIDs : j # id => go'[j] = go[j]
<1>1. go[id] \in Goroutine /\ PageSound(id) /\ go \in [SyncIDs -> Goroutine]
  BY SyncTypes DEF SyncInv, SyncType
<1>2. Cardinality(go[id].page) \in Nat
  BY <1>1, FS_CardinalityType DEF PageSound
<1>3. PICK pc \in {"finish", "search"}, n \in Nat :
        go' = [go EXCEPT ![id].pc = pc, ![id].startAt = n]
  <2>1. CASE LastPage(id)
    <3>1. go' = [go EXCEPT ![id].pc = "finish", ![id].startAt = go[id].startAt]
      BY <1>1, <2>1 DEF NextPage
    <3>2. QED
      BY <1>1, <3>1 DEF Goroutine
  <2>2. CASE ~LastPage(id)
    <3>1. go' = [go EXCEPT ![id].pc = "search",
                           ![id].startAt = go[id].startAt + Cardinality(go[id].page)]
      BY <1>1, <2>2 DEF NextPage
    <3>2. go[id].startAt + Cardinality(go[id].page) \in Nat
      BY <1>1, <1>2 DEF Goroutine
    <3>3. QED
      BY <3>1, <3>2
  <2>3. QED
    BY <2>1, <2>2
<1>4. QED
  BY <1>1, <1>3 DEF Goroutine, Working

(* A page without issues opens no transaction.                             *)
LEMMA EmptyPageSync ==
  ASSUME SyncInv, NEW id \in SyncIDs, EmptyPage(id)
  PROVE  SyncInv'
<1>1. /\ go[id] \in Goroutine /\ JobMatches(id) /\ PageSound(id) /\ CountSound(id)
      /\ At(id, "answer")
  BY SyncTypes DEF EmptyPage
<1>2. PICK pc \in {"finish", "search"}, n \in Nat :
        /\ go'[id] = [go[id] EXCEPT !.pc = pc, !.startAt = n]
        /\ go' \in [SyncIDs -> Goroutine]
        /\ \A j \in SyncIDs : j # id => go'[j] = go[j]
  BY NextPageLocals DEF EmptyPage
<1>3. PageSound(id)'
  BY <1>1, <1>2 DEF PageSound, InPage, Goroutine
<1>4. CountSound(id)'
  BY <1>1, <1>2 DEF CountSound, Goroutine, EmptyPage, manager, JobMatches
<1>5. QED
  BY <1>1, <1>2, <1>3, <1>4, LocalStep
     DEF EmptyPage, Goroutine, Working, JobMatches, SyncInv, SyncType

(* What is fetched is on the page, and nothing is missing while the        *)
(* context lives.                                                          *)
LEMMA FetchPageIssuesSync ==
  ASSUME SyncInv, NEW id \in SyncIDs, FetchPageIssues(id)
  PROVE  SyncInv'
<1>1. /\ go[id] \in Goroutine /\ hist[id] \in History /\ ctxDone[id] \in BOOLEAN
      /\ JobMatches(id) /\ PageSound(id) /\ CountSound(id) /\ At(id, "answer")
  BY SyncTypes DEF FetchPageIssues
<1> DEFINE Answer(failed, r) ==
        /\ go' = [go EXCEPT ![id].pc = IF r.err = "nil" THEN "begin" ELSE "finish",
                            ![id].err = r.err,
                            ![id].issues = r.issues]
        /\ hist' = [hist EXCEPT ![id].skipped = @ \cup failed]
<1>f. PICK failed \in SUBSET go[id].page :
        \E r \in PageResults(go[id].page, failed, ctxDone[id]) : Answer(failed, r)
  BY DEF FetchPageIssues
<1>2. PICK r \in PageResults(go[id].page, failed, ctxDone[id]) : Answer(failed, r)
  BY <1>f
<1>3. /\ r.err \in {"nil", "err"} /\ r.issues \subseteq go[id].page
      /\ ~ctxDone[id] => r.issues = go[id].page \ failed
  BY <1>1, <1>2 DEF PageResults
<1>4. /\ go'[id] = [go[id] EXCEPT !.pc = IF r.err = "nil" THEN "begin" ELSE "finish",
                                  !.err = r.err, !.issues = r.issues]
      /\ go' \in [SyncIDs -> Goroutine]
      /\ \A j \in SyncIDs : j # id => go'[j] = go[j]
  <2>1. go \in [SyncIDs -> Goroutine] /\ r.issues \subseteq Issues
    BY <1>1, <1>3 DEF SyncInv, SyncType, Goroutine
  <2>2. QED
    BY <1>1, <1>2, <1>3, <2>1 DEF Goroutine, Working
<1>5. /\ hist' \in [SyncIDs -> History]
      /\ hist'[id].upserts = hist[id].upserts
      /\ hist'[id].skipped = hist[id].skipped \cup failed
      /\ \A j \in SyncIDs : j # id => hist'[j] = hist[j]
  <2>1. hist \in [SyncIDs -> History] /\ failed \subseteq Issues
    BY <1>1, <1>2 DEF SyncInv, SyncType, Goroutine
  <2>2. QED
    BY <1>1, <1>2, <2>1 DEF History
<1>6. PageSound(id)'
  BY <1>1, <1>3, <1>4, <1>5 DEF PageSound, InPage, Goroutine, FetchPageIssues
<1>7. CountSound(id)'
  <2>1. UNCHANGED job /\ job[id].processed = hist[id].upserts /\ job[id] \in Job
    BY <1>1, SyncTypes DEF CountSound, FetchPageIssues, manager
  <2>2. QED
    BY <1>1, <1>4, <1>5, <2>1 DEF CountSound, Goroutine, Job
<1>8. QED
  BY <1>1, <1>3, <1>4, <1>5, <1>6, <1>7, LocalStep
     DEF FetchPageIssues, Goroutine, Working, JobMatches

-----------------------------------------------------------------------------
(* A transaction begins empty.                                             *)
LEMMA BeginTxSync ==
  ASSUME SyncInv, NEW id \in SyncIDs, BeginTx(id)
  PROVE  SyncInv'
<1>1. /\ go[id] \in Goroutine /\ JobMatches(id) /\ PageSound(id) /\ CountSound(id)
      /\ At(id, "begin")
  BY SyncTypes DEF BeginTx
<1>2. CASE Return(id, "err")
  BY <1>1, <1>2, ReturnSync DEF BeginTx
<1>3. CASE CtxAlive(id) /\ go' = [go EXCEPT ![id].pc = "insert"]
  <2>1. /\ go'[id] = [go[id] EXCEPT !.pc = "insert"]
        /\ go' \in [SyncIDs -> Goroutine]
        /\ \A j \in SyncIDs : j # id => go'[j] = go[j]
    BY <1>1, <1>3 DEF Goroutine, Working, SyncInv, SyncType
  <2>2. PageSound(id)'
    BY <1>1, <2>1 DEF PageSound, InPage, Goroutine, BeginTx
  <2>3. CountSound(id)'
    <3>1. UNCHANGED <<job, hist>> /\ go[id].tx = {} /\ go'[id].tx = {}
            /\ go'[id].pc = "insert" /\ job[id].processed = hist[id].upserts
      BY <1>1, <2>1 DEF PageSound, CountSound, BeginTx, manager, Goroutine
    <3>2. Cardinality({}) = 0 /\ hist[id].upserts \in Nat
      BY FS_EmptySet, SyncTypes DEF History
    <3>3. QED
      BY <3>1, <3>2 DEF CountSound
  <2>4. go'[id].pc \in Working \ {"launch"} /\ go'[id].err # "err"
    BY <1>1, <2>1 DEF Goroutine, Working, JobMatches
  <2>5. QED
    BY <1>1, <2>1, <2>2, <2>3, <2>4, LocalStep
       DEF BeginTx, Working, SyncInv, SyncType
<1>4. QED
  BY <1>2, <1>3 DEF BeginTx

(* An inserted issue is new to the transaction and not counted yet.        *)
LEMMA InsertProcessedIssueSync ==
  ASSUME SyncInv, NEW id \in SyncIDs, InsertProcessedIssue(id)
  PROVE  SyncInv'
<1>1. /\ go[id] \in Goroutine /\ JobMatches(id) /\ PageSound(id) /\ CountSound(id)
      /\ At(id, "insert")
  BY SyncTypes DEF InsertProcessedIssue
<1>2. CASE Return(id, "err")
  BY <1>1, <1>2, ReturnSync DEF InsertProcessedIssue
<1>3. CASE \E i \in go[id].issues \ go[id].tx :
             go' = [go EXCEPT ![id].pc = "count", ![id].tx = @ \cup {i}]
  <2>1. PICK i \in go[id].issues \ go[id].tx :
               go' = [go EXCEPT ![id].pc = "count", ![id].tx = @ \cup {i}]
    BY <1>3
  <2>2. /\ go'[id] = [go[id] EXCEPT !.pc = "count", !.tx = @ \cup {i}]
        /\ go' \in [SyncIDs -> Goroutine]
        /\ \A j \in SyncIDs : j # id => go'[j] = go[j]
    <3>1. go \in [SyncIDs -> Goroutine] /\ go[id].tx \cup {i} \subseteq Issues
      BY <1>1 DEF Goroutine, SyncInv, SyncType
    <3>2. QED
      BY <1>1, <2>1, <3>1 DEF Goroutine, Working
  <2>3. PageSound(id)'
    BY <1>1, <2>2 DEF PageSound, InPage, Goroutine, InsertProcessedIssue
  <2>4. CountSound(id)'
    <3>1. /\ UNCHANGED <<job, hist>>
          /\ go'[id].pc = "count" /\ go'[id].tx = go[id].tx \cup {i}
          /\ job[id].processed = hist[id].upserts + Cardinality(go[id].tx)
      BY <1>1, <2>2 DEF CountSound, InsertProcessedIssue, manager, Goroutine
    <3>2. IsFiniteSet(go[id].tx) /\ Cardinality(go[id].tx) \in Nat
      BY <1>1, FS_Subset, FS_CardinalityType DEF PageSound
    <3>3. Cardinality(go[id].tx \cup {i}) = Cardinality(go[id].tx) + 1
      BY <2>1, <3>2, FS_AddElement
    <3>4. hist[id].upserts \in Nat
      BY SyncTypes DEF History
    <3>5. Cardinality(go'[id].tx) = Cardinality(go[id].tx) + 1
      BY <3>1, <3>3
    <3>6. /\ job'[id].processed = hist[id].upserts + Cardinality(go[id].tx)
          /\ hist'[id].upserts = hist[id].upserts
      BY <3>1
    <3>7. job'[id].processed + 1 = hist'[id].upserts + Cardinality(go'[id].tx)
      BY <3>2, <3>4, <3>5, <3>6
    <3>8. QED
      BY <3>1, <3>7 DEF CountSound
  <2>5. go'[id].pc \in Working \ {"launch"} /\ go'[id].err # "err"
    BY <1>1, <2>2 DEF Goroutine, Working, JobMatches
  <2>6. QED
    BY <1>1, <2>2, <2>3, <2>4, <2>5, LocalStep
       DEF InsertProcessedIssue, Working, SyncInv, SyncType
<1>4. QED
  BY <1>2, <1>3 DEF InsertProcessedIssue

(* The job of a running sync is found: it was not evicted.                 *)
LEMMA IncrProcessedLookupSync ==
  ASSUME SyncInv, NEW id \in SyncIDs, IncrProcessedLookup(id)
  PROVE  SyncInv'
<1>1. /\ go[id] \in Goroutine /\ JobMatches(id) /\ PageSound(id) /\ CountSound(id)
      /\ At(id, "count")
  BY SyncTypes DEF IncrProcessedLookup
<1>2. Lookup(id)
  BY <1>1 DEF Lookup, JobMatches, Working, SyncInv, SyncType, RegistryType
<1>3. /\ go'[id] = [go[id] EXCEPT !.pc = "add"]
      /\ go' \in [SyncIDs -> Goroutine]
      /\ \A j \in SyncIDs : j # id => go'[j] = go[j]
  BY <1>1, <1>2 DEF IncrProcessedLookup, Goroutine, Working, SyncInv, SyncType
<1>4. PageSound(id)'
  BY <1>1, <1>3 DEF PageSound, InPage, Goroutine, IncrProcessedLookup
<1>5. CountSound(id)'
  BY <1>1, <1>3 DEF CountSound, Goroutine, IncrProcessedLookup, manager
<1>6. go'[id].pc \in Working \ {"launch"} /\ go'[id].err # "err"
  BY <1>1, <1>3 DEF Goroutine, Working, JobMatches
<1>7. QED
  BY <1>1, <1>2, <1>3, <1>4, <1>5, <1>6, LocalStep
     DEF IncrProcessedLookup, Working, SyncInv, SyncType

(* The count catches up with the transaction.                              *)
LEMMA IncrProcessedAddSync ==
  ASSUME SyncInv, NEW id \in SyncIDs, IncrProcessedAdd(id)
  PROVE  SyncInv'
<1>1. /\ go[id] \in Goroutine /\ job[id] \in Job /\ hist[id] \in History
      /\ JobMatches(id) /\ PageSound(id) /\ CountSound(id)
      /\ At(id, "add")
  BY SyncTypes DEF IncrProcessedAdd
<1>2. /\ go'[id] = [go[id] EXCEPT !.pc = "insert"]
      /\ go' \in [SyncIDs -> Goroutine]
      /\ \A j \in SyncIDs : j # id => go'[j] = go[j]
  BY <1>1 DEF IncrProcessedAdd, Goroutine, Working, SyncInv, SyncType
<1>3. /\ job'[id] = [job[id] EXCEPT !.processed = job[id].processed + 1]
      /\ job' \in [SyncIDs -> Job]
      /\ \A j \in SyncIDs : j # id => job'[j] = job[j]
  <2>1. job \in [SyncIDs -> Job] /\ job[id].processed + 1 \in Nat
    BY <1>1 DEF Job, SyncInv, SyncType, RegistryType
  <2>2. job' = [job EXCEPT ![id] = [job[id] EXCEPT !.processed = job[id].processed + 1]]
    BY DEF IncrProcessedAdd, AddProcessed
  <2>3. [job[id] EXCEPT !.processed = job[id].processed + 1] \in Job
    BY <1>1, <2>1 DEF Job
  <2>4. QED
    BY <2>1, <2>2, <2>3
<1>4. /\ mtr' \in Metrics
      /\ mtr'.SyncStarted = mtr.SyncStarted /\ mtr'.SyncActive = mtr.SyncActive
      /\ mtr'.SyncCompleted = mtr.SyncCompleted /\ mtr'.SyncFailed = mtr.SyncFailed
  <2>1. mtr \in Metrics
    BY DEF SyncInv, SyncType
  <2>2. mtr' = [mtr EXCEPT !.SyncIssuesProcessed = mtr.SyncIssuesProcessed + 1]
    BY DEF IncrProcessedAdd, IncIssuesProcessed
  <2>3. QED
    BY <2>1, <2>2 DEF Metrics
<1>5. SyncType'
  BY <1>2, <1>3, <1>4 DEF SyncInv, SyncType, RegistryType, IncrProcessedAdd,
                          AddProcessed, outside, database
<1>6. JobMatches(id)'
  BY <1>1, <1>2, <1>3 DEF JobMatches, Working, IncrProcessedAdd, AddProcessed,
                          Job, Goroutine, database
<1>7. PageSound(id)'
  BY <1>1, <1>2 DEF PageSound, InPage, Goroutine, IncrProcessedAdd
<1>8. CountSound(id)'
  BY <1>1, <1>2, <1>3 DEF CountSound, Goroutine, IncrProcessedAdd, Job
<1>9. QED
  BY <1>1, <1>2, <1>3, <1>4, <1>5, <1>6, <1>7, <1>8, GoroutineStep
     DEF IncrProcessedAdd, AddProcessed, Goroutine, Working, Job, database

(* A commit that took place, whatever runSync is told about it.            *)
LEMMA PersistLocals ==
  ASSUME SyncInv, NEW id \in SyncIDs, Persist(id), ReadyToCommit(id)
  PROVE  /\ hist' \in [SyncIDs -> History]
         /\ hist'[id].upserts = job[id].processed
         /\ hist'[id].skipped = hist[id].skipped
         /\ \A j \in SyncIDs : j # id => hist'[j] = hist[j]
         /\ issueRows' \subseteq Issues
<1>1. /\ go[id] \in Goroutine /\ hist[id] \in History
      /\ PageSound(id) /\ CountSound(id) /\ hist \in [SyncIDs -> History]
  BY SyncTypes DEF SyncInv, SyncType
<1>2. Cardinality(go[id].tx) \in Nat
  BY <1>1, FS_Subset, FS_CardinalityType DEF PageSound
<1>3. hist[id].upserts + Cardinality(go[id].tx) = job[id].processed
  BY <1>1 DEF CountSound, ReadyToCommit
<1>4. issueRows' \subseteq Issues
  BY <1>1 DEF Persist, Goroutine, SyncInv, SyncType
<1>5. hist' = [hist EXCEPT ![id].upserts = job[id].processed]
  BY <1>3 DEF Persist
<1>6. job[id].processed \in Nat
  BY SyncTypes DEF Job
<1>7. QED
  BY <1>1, <1>4, <1>5, <1>6 DEF History

(* A commit turns what the transaction holds into what is committed.       *)
LEMMA CommitSync ==
  ASSUME SyncInv, NEW id \in SyncIDs, Commit(id)
  PROVE  SyncInv'
<1>1. /\ go[id] \in Goroutine /\ job[id] \in Job /\ hist[id] \in History
      /\ JobMatches(id) /\ PageSound(id) /\ CountSound(id)
      /\ At(id, "insert") /\ ReadyToCommit(id)
  BY SyncTypes DEF Commit, ReadyToCommit
<1>2. CASE UNCHANGED <<issueRows, hist>> /\ Return(id, "err")
  BY <1>1, <1>2, ReturnSync DEF Commit, database
<1>3. CASE Persist(id) /\ (NextPage(id) \/ Return(id, "err"))
  <2>1. /\ hist' \in [SyncIDs -> History]
        /\ hist'[id].upserts = job[id].processed
        /\ \A j \in SyncIDs : j # id => hist'[j] = hist[j]
        /\ issueRows' \subseteq Issues
    BY <1>1, <1>3, PersistLocals
  <2>2. PICK pc \in {"finish", "search"}, n \in Nat, e \in {"nil", "err"} :
          /\ go'[id] = [go[id] EXCEPT !.pc = pc, !.startAt = n, !.err = e]
          /\ e = "err" => pc = "finish"
    <3>1. CASE NextPage(id)
      <4>1. PICK pc \in {"finish", "search"}, n \in Nat :
              go'[id] = [go[id] EXCEPT !.pc = pc, !.startAt = n]
        BY <3>1, NextPageLocals
      <4>2. go[id].err = "nil"
        BY <1>1 DEF JobMatches, Goroutine
      <4>3. go'[id] = [go[id] EXCEPT !.pc = pc, !.startAt = n, !.err = "nil"]
        BY <1>1, <4>1, <4>2 DEF Goroutine
      <4>4. QED
        BY <4>3
    <3>2. CASE Return(id, "err")
      <4>1. go'[id] = [go[id] EXCEPT !.pc = "finish", !.startAt = go[id].startAt,
                                     !.err = "err"]
        BY <1>1, <3>2 DEF Return, Goroutine, SyncInv, SyncType
      <4>2. go[id].startAt \in Nat
        BY <1>1 DEF Goroutine
      <4>3. QED
        BY <4>1, <4>2
    <3>3. QED
      BY <1>3, <3>1, <3>2
  <2>3. /\ go' \in [SyncIDs -> Goroutine]
        /\ \A j \in SyncIDs : j # id => go'[j] = go[j]
    <3>1. CASE NextPage(id)
      BY <3>1, NextPageLocals
    <3>2. CASE Return(id, "err")
      BY <1>1, <3>2 DEF Return, Goroutine, Working, SyncInv, SyncType
    <3>3. QED
      BY <1>3, <3>1, <3>2
  <2>4. UNCHANGED <<manager, jira, deleted, projectRows, rpc, ctxDone, mtr>>
    BY DEF Commit, outside
  <2>5. SyncType'
    BY <2>1, <2>3, <2>4 DEF SyncInv, SyncType, RegistryType, manager
  <2>6. JobMatches(id)'
    BY <1>1, <2>2, <2>4 DEF JobMatches, Working, Goroutine, manager
  <2>7. PageSound(id)'
    BY <1>1, <2>2 DEF PageSound, InPage, Goroutine
  <2>8. CountSound(id)'
    BY <1>1, <2>1, <2>2, <2>4 DEF CountSound, Goroutine, Job, manager
  <2>9. QED
    BY <1>1, <2>1, <2>2, <2>3, <2>4, <2>5, <2>6, <2>7, <2>8, GoroutineStep
       DEF Goroutine, Working, manager
<1>4. QED
  BY <1>2, <1>3 DEF Commit

-----------------------------------------------------------------------------
(* Complete and Fail: the job is found, so the step ends it and frees its  *)
(* key.                                                                    *)
LEMMA EndSync ==
  ASSUME SyncInv, NEW id \in SyncIDs, FailSync(id) \/ CompleteSync(id)
  PROVE  SyncInv'
<1>1. /\ go[id] \in Goroutine /\ job[id] \in Job /\ hist[id] \in History
      /\ JobMatches(id) /\ PageSound(id) /\ CountSound(id) /\ At(id, "finish")
      /\ job \in [SyncIDs -> Job] /\ now \in Nat
      /\ byKey \in [Keys -> SyncIDs \cup {NoJob}] /\ projectRows \subseteq Keys
  BY SyncTypes DEF FailSync, CompleteSync, SyncInv, SyncType, RegistryType
<1>2. id \in byID /\ job[id].projectKey \in Keys
  BY <1>1 DEF JobMatches, Working
<1>3. PICK m \in {NoMsg, ErrMsg} :
        job' = [job EXCEPT ![id] =
                  [@ EXCEPT !.state = IF go[id].err = "err" THEN JobStateFailed
                                                            ELSE JobStateCompleted,
                            !.errMsg = m,
                            !.finishedAt = now]]
  <2>1. CASE FailSync(id)
    BY <1>2, <2>1 DEF FailSync, Fail
  <2>2. CASE CompleteSync(id)
    <3>1. job' = [job EXCEPT ![id] = [job[id] EXCEPT !.state = JobStateCompleted,
                                                     !.errMsg = job[id].errMsg,
                                                     !.finishedAt = now]]
      BY <1>1, <1>2, <2>2 DEF CompleteSync, Complete, Job
    <3>2. job[id].errMsg \in {NoMsg, ErrMsg}
      BY <1>1 DEF Job
    <3>3. go[id].err # "err"
      BY <2>2 DEF CompleteSync
    <3>4. QED
      BY <3>1, <3>2, <3>3
  <2>3. QED
    BY <2>1, <2>2
<1>4. /\ byKey' = [byKey EXCEPT ![job[id].projectKey] = NoJob]
      /\ go' = [go EXCEPT ![id].pc = "metrics"]
      /\ UNCHANGED <<byID, now, mu, jira, deleted, projectRows, issueRows, rpc,
                     ctxDone, mtr, hist>>
  BY <1>2 DEF FailSync, CompleteSync, Fail, Complete, outside, database
<1>5. /\ go'[id] = [go[id] EXCEPT !.pc = "metrics"]
      /\ go' \in [SyncIDs -> Goroutine]
      /\ \A j \in SyncIDs : j # id => go'[j] = go[j]
  BY <1>1, <1>4 DEF Goroutine, Working, SyncInv, SyncType
<1>6. /\ job'[id].state = IF go[id].err = "err" THEN JobStateFailed
                                                ELSE JobStateCompleted
      /\ job'[id].projectKey = job[id].projectKey
      /\ job'[id].processed = job[id].processed
      /\ job' \in [SyncIDs -> Job]
      /\ \A j \in SyncIDs : j # id => job'[j] = job[j]
  BY <1>1, <1>3 DEF Job
<1>7. SyncType'
  BY <1>1, <1>4, <1>5, <1>6 DEF SyncInv, SyncType, RegistryType
<1>8. JobMatches(id)'
  <2>1. \A k \in Keys : byKey'[k] # id
    BY <1>1, <1>2, <1>4 DEF JobMatches
  <2>2. QED
    BY <1>1, <1>4, <1>5, <1>6, <2>1 DEF JobMatches, Working, Goroutine
<1>9. PageSound(id)' /\ CountSound(id)'
  BY <1>1, <1>4, <1>5, <1>6 DEF PageSound, InPage, CountSound, Goroutine
<1>10. \A k \in Keys : byKey'[k] # byKey[k] => byKey[k] = id /\ byKey'[k] = NoJob
  BY <1>1, <1>4 DEF JobMatches, Working
<1>11. QED
  BY <1>1, <1>4, <1>5, <1>6, <1>7, <1>8, <1>9, <1>10, GoroutineStep, SMTT(30)
     DEF Goroutine, Working

(* The goroutine leaves the gauge and enters the counter of its end.       *)
LEMMA SyncJobFinishedSync ==
  ASSUME SyncInv, NEW id \in SyncIDs, SyncJobFinished(id)
  PROVE  SyncInv'
<1>1. /\ go[id] \in Goroutine /\ JobMatches(id) /\ PageSound(id) /\ CountSound(id)
      /\ At(id, "metrics") /\ mtr \in Metrics
  BY SyncTypes DEF SyncJobFinished, SyncInv, SyncType
<1>2. /\ go'[id] = [go[id] EXCEPT !.pc = "exited"]
      /\ go' \in [SyncIDs -> Goroutine]
      /\ \A j \in SyncIDs : j # id => go'[j] = go[j]
  BY <1>1 DEF SyncJobFinished, Goroutine, SyncInv, SyncType
<1>3. /\ UNCHANGED <<byID, byKey, job, now, mu, jira, deleted, projectRows,
                     issueRows, rpc, ctxDone, hist>>
  BY DEF SyncJobFinished, manager, outside, database
<1>4. SyncType'
  <2>1. mtr' \in Metrics
    <3>1. PICK a, c, f \in Int :
            mtr' = [mtr EXCEPT !.SyncActive = a, !.SyncCompleted = c, !.SyncFailed = f]
      <4>1. /\ mtr.SyncActive - 1 \in Int
            /\ mtr.SyncCompleted \in Int /\ mtr.SyncCompleted + 1 \in Int
            /\ mtr.SyncFailed \in Int /\ mtr.SyncFailed + 1 \in Int
        BY <1>1 DEF Metrics
      <4>2. CASE go[id].err = "err"
        <5>1. mtr' = [mtr EXCEPT !.SyncActive = mtr.SyncActive - 1,
                                 !.SyncCompleted = mtr.SyncCompleted,
                                 !.SyncFailed = mtr.SyncFailed + 1]
          BY <1>1, <4>2 DEF SyncJobFinished, Metrics
        <5>2. QED
          BY <4>1, <5>1
      <4>3. CASE go[id].err # "err"
        <5>1. mtr' = [mtr EXCEPT !.SyncActive = mtr.SyncActive - 1,
                                 !.SyncCompleted = mtr.SyncCompleted + 1,
                                 !.SyncFailed = mtr.SyncFailed]
          BY <1>1, <4>3 DEF SyncJobFinished, Metrics
        <5>2. QED
          BY <4>1, <5>1
      <4>4. QED
        BY <4>2, <4>3
    <3>2. QED
      BY <1>1, <3>1 DEF Metrics
  <2>2. QED
    BY <1>2, <1>3, <2>1 DEF SyncInv, SyncType, RegistryType
<1>5. JobMatches(id)'
  BY <1>1, <1>2, <1>3 DEF JobMatches, Working, Goroutine
<1>6. PageSound(id)' /\ CountSound(id)'
  BY <1>1, <1>2, <1>3 DEF PageSound, InPage, CountSound, Goroutine
<1>7. JobInv' /\ PageInv' /\ CountInv'
  <2>1. \A j \in SyncIDs : j # id => JobMatches(j)' /\ PageSound(j)' /\ CountSound(j)'
    BY <1>2, <1>3, OthersKept
  <2>2. QED
    BY <1>5, <1>6, <2>1 DEF JobInv, PageInv, CountInv
<1>8. CallInv'
  BY <1>1, <1>2, <1>3, CallsKept DEF Born
<1>9. MetricsInv'
  <2>1. MetricsInv
    BY DEF SyncInv
  <2>a. /\ go[id].pc = "metrics" /\ go'[id].pc = "exited"
        /\ \A j \in SyncIDs : j # id => go'[j].pc = go[j].pc
    BY <1>1, <1>2 DEF Goroutine
  <2>2. /\ Started' = Started
        /\ Active' = Active \ {id} /\ id \in Active
        /\ id \notin Ended(JobStateCompleted) /\ id \notin Ended(JobStateFailed)
    BY <2>a DEF Started, Active, Ended
  <2>b. job[id].state = IF go[id].err = "err" THEN JobStateFailed ELSE JobStateCompleted
    BY <1>1 DEF JobMatches
  <2>3. /\ IsFiniteSet(Active) /\ IsFiniteSet(Ended(JobStateCompleted))
        /\ IsFiniteSet(Ended(JobStateFailed))
    <3>1. /\ Active \in SUBSET Started /\ Ended(JobStateCompleted) \in SUBSET Started
          /\ Ended(JobStateFailed) \in SUBSET Started
      BY DEF Active, Ended, Started
    <3>2. QED
      BY <2>1, <3>1, FS_Subset DEF MetricsInv
  <2>4. Cardinality(Active') = Cardinality(Active) - 1
    BY <2>2, <2>3, FS_RemoveElement
  <2>5. /\ mtr.SyncActive \in Int /\ mtr.SyncCompleted \in Int
        /\ mtr.SyncFailed \in Int /\ mtr.SyncStarted \in Int
    BY <1>1 DEF Metrics
  <2>6. CASE go[id].err = "err"
    <3>1. /\ Ended(JobStateFailed)' = Ended(JobStateFailed) \cup {id}
          /\ Ended(JobStateCompleted)' = Ended(JobStateCompleted)
      BY <1>3, <2>a, <2>b, <2>6 DEF Ended
    <3>2. Cardinality(Ended(JobStateFailed)') = Cardinality(Ended(JobStateFailed)) + 1
      BY <2>2, <2>3, <3>1, FS_AddElement
    <3>3. /\ mtr'.SyncFailed = mtr.SyncFailed + 1 /\ mtr'.SyncActive = mtr.SyncActive - 1
          /\ mtr'.SyncCompleted = mtr.SyncCompleted /\ mtr'.SyncStarted = mtr.SyncStarted
      BY <1>1, <2>6 DEF SyncJobFinished, Metrics
    <3>4. QED
      BY <2>1, <2>2, <2>4, <2>5, <3>1, <3>2, <3>3 DEF MetricsInv
  <2>7. CASE go[id].err # "err"
    <3>1. /\ Ended(JobStateCompleted)' = Ended(JobStateCompleted) \cup {id}
          /\ Ended(JobStateFailed)' = Ended(JobStateFailed)
      BY <1>3, <2>a, <2>b, <2>7, SMTT(30) DEF Ended
    <3>2. Cardinality(Ended(JobStateCompleted)')
            = Cardinality(Ended(JobStateCompleted)) + 1
      BY <2>2, <2>3, <3>1, FS_AddElement
    <3>3. /\ mtr'.SyncCompleted = mtr.SyncCompleted + 1
          /\ mtr'.SyncActive = mtr.SyncActive - 1
          /\ mtr'.SyncFailed = mtr.SyncFailed /\ mtr'.SyncStarted = mtr.SyncStarted
      BY <1>1, <2>7 DEF SyncJobFinished, Metrics
    <3>4. QED
      BY <2>1, <2>2, <2>4, <2>5, <3>1, <3>2, <3>3 DEF MetricsInv
  <2>8. QED
    BY <2>6, <2>7
<1>10. QED
  BY <1>4, <1>7, <1>8, <1>9 DEF SyncInv

(* The timeout only takes away what PageSound promises of a living context.*)
LEMMA TimeoutSync ==
  ASSUME SyncInv, NEW id \in SyncIDs, Timeout(id)
  PROVE  SyncInv'
<1>1. /\ go[id] \in Goroutine /\ JobMatches(id) /\ PageSound(id) /\ CountSound(id)
      /\ ctxDone \in [SyncIDs -> BOOLEAN]
  BY SyncTypes DEF SyncInv, SyncType
<1>2. /\ ctxDone'[id] = TRUE /\ ctxDone' \in [SyncIDs -> BOOLEAN]
      /\ \A j \in SyncIDs : j # id => ctxDone'[j] = ctxDone[j]
  BY <1>1 DEF Timeout
<1>3. /\ UNCHANGED <<byID, byKey, job, now, mu, jira, deleted, projectRows,
                     issueRows, rpc, go, mtr, hist>>
      /\ go[id].pc \in Working \ {"launch"}
  BY <1>1 DEF Timeout, manager, outside, database, Goroutine
<1>4. SyncType'
  BY <1>2, <1>3 DEF SyncInv, SyncType, RegistryType
<1>5. JobMatches(id)' /\ PageSound(id)' /\ CountSound(id)'
  BY <1>1, <1>2, <1>3 DEF JobMatches, PageSound, CountSound
<1>6. QED
  BY <1>2, <1>3, <1>4, <1>5, GoroutineStep

-----------------------------------------------------------------------------
(* A step that leaves the goroutines and the metrics alone.                *)
LEMMA QuietStep ==
  ASSUME SyncInv, SyncType', CallInv',
         UNCHANGED <<byKey, job, go, ctxDone, mtr>>,
         \A j \in SyncIDs : /\ hist'[j].skipped = hist[j].skipped
                            /\ hist'[j].upserts = hist[j].upserts
                            /\ go[j].pc \in Working /\ j \in byID => j \in byID',
         projectRows \subseteq projectRows'
  PROVE  SyncInv'
<1>1. JobInv' /\ PageInv' /\ CountInv'
  <2> SUFFICES ASSUME NEW j \in SyncIDs
               PROVE  JobMatches(j)' /\ PageSound(j)' /\ CountSound(j)'
    BY DEF JobInv, PageInv, CountInv
  <2>1. JobMatches(j) /\ PageSound(j) /\ CountSound(j)
    BY SyncTypes
  <2>2. QED
    BY <2>1 DEF JobMatches, PageSound, CountSound
<1>2. MetricsInv'
  BY MetricsKept
<1>3. QED
  BY <1>1, <1>2 DEF SyncInv

(* A request only changes its own call.                                    *)
LEMMA DownloadProjectSync ==
  ASSUME SyncInv, NEW r \in Callers, DownloadProject(r)
  PROVE  SyncInv'
<1> USE DEF manager, outside, database
<1>1. rpc \in [Callers -> Call] /\ CallInv
  BY DEF SyncInv, SyncType
<1>2. PICK c \in Call : /\ rpc' = [rpc EXCEPT ![r] = c]
                        /\ c.pc \in {"idle", "ensure"}
                        /\ c.pc = "ensure" => c.key \in Keys /\ c.status = ""
                        /\ c.status \notin {"running", "already_running"}
  <2>1. PICK k \in Keys \cup {NoKey} :
          rpc' = [rpc EXCEPT ![r] =
                    IF k = NoKey THEN [Idle EXCEPT !.status = "InvalidArgument"]
                    ELSE [Idle EXCEPT !.pc = "ensure", !.key = k]]
    BY DEF DownloadProject
  <2>2. CASE k = NoKey
    <3> DEFINE c == [Idle EXCEPT !.status = "InvalidArgument"]
    <3>1. c \in Call /\ c.pc = "idle" /\ c.status = "InvalidArgument"
      BY DEF Call, Idle, Statuses, NoKey
    <3>2. QED
      BY <2>1, <2>2, <3>1
  <2>3. CASE k # NoKey
    <3> DEFINE c == [Idle EXCEPT !.pc = "ensure", !.key = k]
    <3>1. c \in Call /\ c.pc = "ensure" /\ c.key \in Keys /\ c.status = ""
      BY <2>3 DEF Call, Idle, Statuses, NoKey
    <3>2. QED
      BY <2>1, <2>3, <3>1
  <2>4. QED
    BY <2>2, <2>3
<1>3. SyncType'
  BY <1>1, <1>2 DEF SyncInv, SyncType, RegistryType, DownloadProject
<1>4. CallInv'
  <2> SUFFICES ASSUME NEW q \in Callers PROVE CallSound(q)'
    BY DEF CallInv
  <2>1. UNCHANGED <<projectRows, job, go>> /\ CallSound(q)
    BY DEF DownloadProject, SyncInv, CallInv
  <2>2. CASE q = r
    BY <1>1, <1>2, <2>1, <2>2 DEF CallSound
  <2>3. CASE q # r
    BY <1>1, <1>2, <2>1, <2>3 DEF CallSound, Born
  <2>4. QED
    BY <2>2, <2>3
<1>5. QED
  BY <1>3, <1>4, QuietStep DEF DownloadProject

(* ensureProject lets a call go on only when the row of its project is     *)
(* there.                                                                  *)
LEMMA EnsureProjectSync ==
  ASSUME SyncInv, NEW r \in Callers, EnsureProject(r)
  PROVE  SyncInv'
<1> USE DEF manager, outside
<1>1. rpc \in [Callers -> Call] /\ CallInv /\ CallSound(r) /\ rpc[r] \in Call
      /\ rpc[r].pc = "ensure" /\ rpc[r].key \in Keys /\ projectRows \subseteq Keys
  BY DEF SyncInv, SyncType, CallInv, CallSound, EnsureProject
<1>2. projectRows \subseteq projectRows' /\ projectRows' \subseteq Keys
  BY <1>1 DEF EnsureProject, InsertProject
<1>3. PICK c \in Call : /\ rpc' = [rpc EXCEPT ![r] = c]
                        /\ c.pc \in {"idle", "start"}
                        /\ c.pc = "start" => /\ c.key \in Keys /\ c.status = ""
                                             /\ c.key \in projectRows'
                        /\ c.status \notin {"running", "already_running"}
  <2>1. CASE \E status \in GRPCErrors : Reply(r, NoJob, status)
    <3>1. PICK status \in GRPCErrors :
            rpc' = [rpc EXCEPT ![r] = [rpc[r] EXCEPT !.pc = "idle", !.id = NoJob,
                                                     !.status = status]]
      BY <1>1, <2>1 DEF Reply, Call
    <3>2. [rpc[r] EXCEPT !.pc = "idle", !.id = NoJob, !.status = status] \in Call
      BY <1>1 DEF Call, Statuses
    <3>3. status \notin {"running", "already_running"}
      BY DEF GRPCErrors
    <3>4. QED
      BY <1>1, <3>1, <3>2, <3>3 DEF Call
  <2>2. CASE InsertProject(rpc[r].key) /\ rpc' = [rpc EXCEPT ![r].pc = "start"]
    <3>1. rpc' = [rpc EXCEPT ![r] = [rpc[r] EXCEPT !.pc = "start"]]
      BY <1>1, <2>2 DEF Call
    <3>2. [rpc[r] EXCEPT !.pc = "start"] \in Call
      BY <1>1 DEF Call
    <3>3. rpc[r].key \in projectRows' /\ rpc[r].status = ""
      BY <1>1, <2>2 DEF InsertProject, CallSound
    <3>4. QED
      BY <1>1, <3>1, <3>2, <3>3 DEF Call
  <2>3. "NotFound" \in GRPCErrors
    BY DEF GRPCErrors
  <2>4. QED
    BY <2>1, <2>2, <2>3 DEF EnsureProject
<1>4. SyncType'
  BY <1>1, <1>2, <1>3 DEF SyncInv, SyncType, RegistryType, EnsureProject
<1>5. CallInv'
  <2> SUFFICES ASSUME NEW q \in Callers PROVE CallSound(q)'
    BY DEF CallInv
  <2>1. UNCHANGED <<job, go>> /\ CallSound(q)
    BY <1>1 DEF EnsureProject, CallInv
  <2>2. CASE q = r
    BY <1>1, <1>3, <2>1, <2>2 DEF CallSound
  <2>3. CASE q # r
    BY <1>1, <1>2, <1>3, <2>1, <2>3 DEF CallSound, Born
  <2>4. QED
    BY <2>2, <2>3
<1>6. QED
  BY <1>2, <1>4, <1>5, QuietStep DEF EnsureProject

(* Eviction never takes a running job.                                     *)
LEMMA EvictionKeepsRunning ==
  ASSUME SyncInv, NEW j \in SyncIDs, go[j].pc \in Working
  PROVE  j \in evictExpiredLocked
<1>1. JobMatches(j)
  BY SyncTypes
<1>2. QED
  BY <1>1 DEF JobMatches, evictExpiredLocked, Expired

(* A call that joins gets the id of the running sync of its key.           *)
LEMMA JoinSyncSync ==
  ASSUME SyncInv, NEW r \in Callers, JoinSync(r)
  PROVE  SyncInv'
<1> USE DEF outside, database
<1> DEFINE id == byKey[rpc[r].key]
<1>1. rpc \in [Callers -> Call] /\ CallInv /\ CallSound(r) /\ rpc[r] \in Call
      /\ rpc[r].pc = "start" /\ rpc[r].key \in Keys
  BY DEF SyncInv, SyncType, CallInv, CallSound, JoinSync
<1>2. /\ UNCHANGED <<byKey, job, now, mu, go, projectRows>>
      /\ byID' = evictExpiredLocked
  BY DEF JoinSync, StartExisting
<1>3. id \in SyncIDs /\ job[id].projectKey = rpc[r].key /\ Born(id)
  <2>1. id \in SyncIDs
    BY <1>1 DEF JoinSync, StartExisting, SyncInv, SyncType, RegistryType
  <2>2. JobMatches(id)
    BY <2>1, SyncTypes
  <2>3. QED
    BY <1>1, <2>1, <2>2 DEF JobMatches, Born
<1>4. /\ rpc' = [rpc EXCEPT ![r] = [rpc[r] EXCEPT !.pc = "idle", !.id = id,
                                                  !.status = "already_running"]]
      /\ [rpc[r] EXCEPT !.pc = "idle", !.id = id, !.status = "already_running"] \in Call
  BY <1>1, <1>3 DEF JoinSync, Reply, Call, Statuses
<1>5. SyncType'
  BY <1>1, <1>2, <1>4 DEF SyncInv, SyncType, RegistryType, JoinSync, evictExpiredLocked
<1>6. CallInv'
  <2> SUFFICES ASSUME NEW q \in Callers PROVE CallSound(q)'
    BY DEF CallInv
  <2>1. CallSound(q)
    BY <1>1 DEF CallInv
  <2> HIDE DEF id
  <2>2. CASE q = r
    <3>1. /\ rpc'[r].pc = "idle" /\ rpc'[r].id = id /\ rpc'[r].key = rpc[r].key
      BY <1>1, <1>4 DEF Call
    <3>2. QED
      BY <1>2, <1>3, <2>2, <3>1 DEF CallSound, Born
  <2>3. CASE q # r
    <3>1. /\ rpc'[q] = rpc[q]
          /\ \A p \in Callers : rpc'[p].pc = "launch" =>
                                  rpc[p].pc = "launch" /\ rpc'[p].id = rpc[p].id
      BY <1>1, <1>4, <2>3 DEF Call
    <3>2. QED
      BY <1>2, <2>1, <3>1 DEF CallSound, Born
  <2>4. QED
    BY <2>2, <2>3
<1>7. QED
  BY <1>2, <1>5, <1>6, QuietStep, EvictionKeepsRunning DEF JoinSync

(* A new job gets the free key, and one caller that will launch it.        *)
LEMMA StartSyncSync ==
  ASSUME SyncInv, NEW r \in Callers, NEW id \in SyncIDs, StartSync(r, id)
  PROVE  SyncInv'
<1> DEFINE k == rpc[r].key
<1>1. /\ rpc \in [Callers -> Call] /\ CallInv /\ CallSound(r) /\ rpc[r] \in Call
      /\ rpc[r].pc = "start" /\ k \in Keys /\ k \in projectRows
      /\ byKey[k] = NoJob /\ ~Born(id)
  BY DEF SyncInv, SyncType, CallInv, CallSound, StartSync, StartNew
<1>2. /\ go[id] \in Goroutine /\ go \in [SyncIDs -> Goroutine] /\ hist[id] \in History
      /\ job \in [SyncIDs -> Job] /\ byKey \in [Keys -> SyncIDs \cup {NoJob}]
      /\ JobMatches(id) /\ PageSound(id) /\ CountSound(id) /\ At(id, "none")
  BY <1>1, SyncTypes DEF SyncInv, SyncType, RegistryType, JobMatches, Born
<1>3. /\ byID' = evictExpiredLocked \cup {id}
      /\ byKey' = [byKey EXCEPT ![k] = id]
      /\ job' = [job EXCEPT ![id] = NewJob(k, JobStateRunning)]
      /\ go' = [go EXCEPT ![id].pc = "launch"]
      /\ rpc' = [rpc EXCEPT ![r].pc = "launch", ![r].id = id]
      /\ UNCHANGED <<now, mu, jira, deleted, projectRows, issueRows, ctxDone, mtr, hist>>
  BY DEF StartSync, StartNew, outside, database
<1> HIDE DEF k
<1>4. /\ go'[id] = [go[id] EXCEPT !.pc = "launch"]
      /\ go' \in [SyncIDs -> Goroutine]
      /\ \A j \in SyncIDs : j # id => go'[j] = go[j]
  BY <1>2, <1>3 DEF Goroutine, Working
<1>5. /\ job'[id] = NewJob(k, JobStateRunning)
      /\ job' \in [SyncIDs -> Job]
      /\ \A j \in SyncIDs : j # id => job'[j] = job[j]
  BY <1>1, <1>2, <1>3 DEF Job, NewJob, NoMsg
<1>6. /\ rpc'[r] = [rpc[r] EXCEPT !.pc = "launch", !.id = id]
      /\ rpc' \in [Callers -> Call]
      /\ \A q \in Callers : q # r => rpc'[q] = rpc[q]
  BY <1>1, <1>3 DEF Call
<1>7. SyncType'
  BY <1>1, <1>2, <1>3, <1>4, <1>5, <1>6
     DEF SyncInv, SyncType, RegistryType, evictExpiredLocked
<1>8. JobMatches(id)'
  <2>1. job'[id].state = JobStateRunning /\ job'[id].projectKey = k
    BY <1>5 DEF NewJob
  <2>2. go'[id].pc = "launch" /\ go'[id].err = "nil"
    BY <1>2, <1>4 DEF Goroutine, JobMatches
  <2>3. \A p \in Keys : byKey'[p] = id <=> p = k
    BY <1>1, <1>2, <1>3 DEF JobMatches, Working
  <2>4. QED
    BY <1>1, <1>3, <2>1, <2>2, <2>3 DEF JobMatches, Working
<1>9. PageSound(id)'
  BY <1>2, <1>4 DEF PageSound, InPage, Goroutine
<1>10. CountSound(id)'
  BY <1>2, <1>3, <1>4, <1>5 DEF CountSound, Goroutine, NewJob
<1>11. JobInv' /\ PageInv' /\ CountInv'
  <2>1. \A j \in SyncIDs : go[j].pc \in Working => j \in byID'
    BY <1>3, EvictionKeepsRunning
  <2>2. \A p \in Keys : byKey'[p] # byKey[p] => /\ byKey[p] \in {id, NoJob}
                                                /\ byKey'[p] \in {id, NoJob}
    BY <1>1, <1>2, <1>3
  <2>3. \A j \in SyncIDs : j # id => JobMatches(j)' /\ PageSound(j)' /\ CountSound(j)'
    BY <1>3, <1>4, <1>5, <2>1, <2>2, OthersKept
  <2>4. QED
    BY <1>8, <1>9, <1>10, <2>3 DEF JobInv, PageInv, CountInv
<1>12. CallInv'
  <2> SUFFICES ASSUME NEW q \in Callers PROVE CallSound(q)'
    BY DEF CallInv
  <2>1. CallSound(q)
    BY <1>1 DEF CallInv
  <2>2. rpc'[r].pc = "launch" /\ rpc'[r].id = id /\ rpc'[r].key = k /\ rpc'[r].status = ""
    BY <1>1, <1>6 DEF Call, CallSound, k
  <2>3. \A p \in Callers : p # r /\ rpc[p].pc = "launch" => rpc[p].id # id
    BY <1>1, <1>2 DEF CallInv, CallSound
  <2>4. CASE q = r
    <3>1. At(id, "launch")' /\ job'[id].projectKey = k
      BY <1>2, <1>4, <1>5 DEF Goroutine, NewJob
    <3>2. \A p \in Callers : rpc'[p].pc = "launch" /\ rpc'[p].id = id => p = r
      BY <1>6, <2>3
    <3>3. QED
      BY <1>1, <1>3, <2>2, <2>4, <3>1, <3>2 DEF CallSound
  <2>5. CASE q # r
    <3>1. rpc'[q] = rpc[q]
      BY <1>6, <2>5
    <3>2. rpc[q].pc = "launch" => rpc[q].id # id
      BY <2>3, <2>5
    <3>3. rpc[q].status \in {"running", "already_running"} => rpc[q].id # id
      BY <1>1, <2>1 DEF CallSound
    <3>4. \A p \in Callers : rpc'[p].pc = "launch" /\ rpc'[p].id # id =>
                               rpc[p].pc = "launch" /\ rpc'[p].id = rpc[p].id
      BY <1>6, <2>2
    <3>5. rpc[q].pc = "launch" =>
            /\ go'[rpc[q].id].pc = "launch" /\ job'[rpc[q].id].projectKey = rpc[q].key
            /\ \A p \in Callers : rpc'[p].pc = "launch" /\ rpc'[p].id = rpc[q].id => p = q
      BY <1>4, <1>5, <2>1, <3>2, <3>4 DEF CallSound
    <3>6. rpc[q].status \in {"running", "already_running"} =>
            /\ job'[rpc[q].id].state # JobStateNone
            /\ job'[rpc[q].id].projectKey = rpc[q].key
      <4>1. SUFFICES ASSUME rpc[q].status \in {"running", "already_running"}
                     PROVE  /\ job'[rpc[q].id].state # JobStateNone
                            /\ job'[rpc[q].id].projectKey = rpc[q].key
        OBVIOUS
      <4>2. /\ rpc[q].id \in SyncIDs /\ job[rpc[q].id].state # JobStateNone
            /\ job[rpc[q].id].projectKey = rpc[q].key
        BY <2>1, <4>1 DEF CallSound, Born
      <4>3. job'[rpc[q].id] = job[rpc[q].id]
        BY <1>5, <3>3, <4>1, <4>2
      <4>4. QED
        BY <4>2, <4>3
    <3>7. UNCHANGED projectRows
      BY <1>3
    <3>8. QED
      BY <2>1, <3>1, <3>5, <3>6, <3>7 DEF CallSound, Born
  <2>6. QED
    BY <2>4, <2>5
<1>13. MetricsInv'
  <2>1. MetricsInv
    BY DEF SyncInv
  <2>2. go[id].pc = "none" /\ go'[id].pc = "launch"
    BY <1>2, <1>4 DEF Goroutine
  <2>3. /\ Started' = Started \cup {id} /\ Active' = Active
        /\ Ended(JobStateCompleted)' = Ended(JobStateCompleted)
        /\ Ended(JobStateFailed)' = Ended(JobStateFailed)
    BY <1>4, <1>5, <2>2, ZenonT(60) DEF Started, Active, Ended
  <2>4. IsFiniteSet(Started \cup {id})
    BY <2>1, FS_AddElement DEF MetricsInv
  <2>5. QED
    BY <1>3, <2>1, <2>3, <2>4 DEF MetricsInv
<1>14. QED
  BY <1>7, <1>11, <1>12, <1>13 DEF SyncInv

(* The caller that started the sync launches it, once.                     *)
LEMMA LaunchSyncSync ==
  ASSUME SyncInv, NEW r \in Callers, LaunchSync(r)
  PROVE  SyncInv'
<1>1. /\ rpc \in [Callers -> Call] /\ CallInv /\ CallSound(r) /\ rpc[r] \in Call
      /\ rpc[r].pc = "launch" /\ go \in [SyncIDs -> Goroutine] /\ mtr \in Metrics
  BY DEF SyncInv, SyncType, CallInv, LaunchSync
<1>2. PICK id \in SyncIDs : id = rpc[r].id
  BY <1>1 DEF CallSound
<1>3. /\ go[id] \in Goroutine /\ At(id, "launch") /\ hist[id] \in History
      /\ JobMatches(id) /\ PageSound(id) /\ CountSound(id)
  BY <1>1, <1>2, SyncTypes DEF CallSound
<1>4. UNCHANGED <<byID, byKey, job, now, mu, jira, deleted, projectRows, issueRows,
                  ctxDone, hist>>
  BY DEF LaunchSync, manager, outside, database
<1>5. /\ go'[id] = [go[id] EXCEPT !.pc = "search"]
      /\ go' \in [SyncIDs -> Goroutine]
      /\ \A j \in SyncIDs : j # id => go'[j] = go[j]
  BY <1>1, <1>2, <1>3 DEF LaunchSync, Goroutine, Working
<1>6. /\ rpc'[r] = [rpc[r] EXCEPT !.pc = "idle", !.id = id, !.status = "running"]
      /\ rpc' \in [Callers -> Call]
      /\ \A q \in Callers : q # r => rpc'[q] = rpc[q]
  BY <1>1, <1>2 DEF LaunchSync, Reply, Call, Statuses
<1>7. mtr' \in Metrics
  <2>1. mtr' = [mtr EXCEPT !.SyncStarted = mtr.SyncStarted + 1,
                           !.SyncActive = mtr.SyncActive + 1]
    BY DEF LaunchSync, SyncJobStarted
  <2>2. mtr.SyncStarted + 1 \in Int /\ mtr.SyncActive + 1 \in Int
    BY <1>1 DEF Metrics
  <2>3. QED
    BY <1>1, <2>1, <2>2 DEF Metrics
<1>8. SyncType'
  BY <1>4, <1>5, <1>6, <1>7 DEF SyncInv, SyncType, RegistryType
<1>9. JobMatches(id)' /\ PageSound(id)' /\ CountSound(id)'
  BY <1>3, <1>4, <1>5 DEF JobMatches, PageSound, CountSound, Working, InPage, Goroutine
<1>10. JobInv' /\ PageInv' /\ CountInv'
  <2>1. \A j \in SyncIDs : j # id => JobMatches(j)' /\ PageSound(j)' /\ CountSound(j)'
    BY <1>4, <1>5, OthersKept
  <2>2. QED
    BY <1>9, <2>1 DEF JobInv, PageInv, CountInv
<1>11. CallInv'
  <2> SUFFICES ASSUME NEW q \in Callers PROVE CallSound(q)'
    BY DEF CallInv
  <2>1. CallSound(q)
    BY <1>1 DEF CallInv
  <2>2. CASE q = r
    <3>1. rpc'[r].pc = "idle" /\ rpc'[r].id = id /\ rpc'[r].key = rpc[r].key
      BY <1>1, <1>6 DEF Call
    <3>2. Born(id)
      BY <1>3 DEF JobMatches, Born
    <3>3. QED
      BY <1>1, <1>2, <1>4, <2>2, <3>1, <3>2 DEF CallSound, Born
  <2>3. CASE q # r
    <3>1. rpc'[q] = rpc[q]
      BY <1>6, <2>3
    <3>2. rpc[q].pc = "launch" => rpc[q].id # id
      BY <1>1, <1>2, <2>1, <2>3 DEF CallSound
    <3>3. \A p \in Callers : rpc'[p].pc = "launch" =>
                               rpc[p].pc = "launch" /\ rpc'[p].id = rpc[p].id
      BY <1>1, <1>6 DEF Call
    <3>4. QED
      BY <1>4, <1>5, <2>1, <3>1, <3>2, <3>3, ZenonT(60) DEF CallSound, Born
  <2>4. QED
    BY <2>2, <2>3
<1>12. MetricsInv'
  <2>1. MetricsInv
    BY DEF SyncInv
  <2>2. /\ go[id].pc = "launch" /\ go'[id].pc = "search"
        /\ \A j \in SyncIDs : j # id => go'[j].pc = go[j].pc
    BY <1>3, <1>5 DEF Goroutine
  <2>3. /\ Started' = Started /\ Active' = Active \cup {id} /\ id \notin Active
        /\ Ended(JobStateCompleted)' = Ended(JobStateCompleted)
        /\ Ended(JobStateFailed)' = Ended(JobStateFailed)
    BY <1>4, <2>2 DEF Started, Active, Ended
  <2>4. IsFiniteSet(Active)
    <3>1. Active \in SUBSET Started
      BY DEF Active, Started
    <3>2. QED
      BY <2>1, <3>1, FS_Subset DEF MetricsInv
  <2>5. Cardinality(Active') = Cardinality(Active) + 1
    BY <2>3, <2>4, FS_AddElement
  <2>6. /\ mtr'.SyncStarted = mtr.SyncStarted + 1 /\ mtr'.SyncActive = mtr.SyncActive + 1
        /\ mtr'.SyncCompleted = mtr.SyncCompleted /\ mtr'.SyncFailed = mtr.SyncFailed
        /\ mtr.SyncActive \in Int /\ mtr.SyncCompleted \in Int /\ mtr.SyncFailed \in Int
    BY <1>1 DEF LaunchSync, SyncJobStarted, Metrics
  <2>7. QED
    BY <2>1, <2>3, <2>5, <2>6 DEF MetricsInv
<1>13. QED
  BY <1>8, <1>10, <1>11, <1>12 DEF SyncInv

-----------------------------------------------------------------------------
(* Length and elements of a concatenation.                                 *)
LEMMA ConcatShape ==
  ASSUME NEW S, NEW a \in Seq(S), NEW b \in Seq(S)
  PROVE  /\ a \o b \in Seq(S) /\ Len(a \o b) = Len(a) + Len(b)
         /\ \A i \in 1..(Len(a) + Len(b)) :
              (a \o b)[i] = IF i <= Len(a) THEN a[i] ELSE b[i - Len(a)]
OBVIOUS

(* What inserting into and removing from a search order does to positions. *)
LEMMA InsertAtShifts ==
  ASSUME NEW S, NEW s \in Seq(S), NEW e \in S, NEW n \in 1..(Len(s) + 1)
  PROVE  /\ InsertAt(s, n, e) \in Seq(S)
         /\ Len(InsertAt(s, n, e)) = Len(s) + 1
         /\ \A i \in 1..(Len(s) + 1) :
              InsertAt(s, n, e)[i] = IF i < n THEN s[i]
                                     ELSE IF i = n THEN e ELSE s[i - 1]
<1>1. Len(s) \in Nat /\ n \in Nat /\ 1 <= n /\ n <= Len(s) + 1
  OBVIOUS
<1> DEFINE a == SubSeq(s, 1, n - 1)
           b == SubSeq(s, n, Len(s))
<1>2. /\ a \in Seq(S) /\ Len(a) = n - 1
      /\ \A i \in 1..(n - 1) : a[i] = s[i]
  BY <1>1
<1>3. /\ b \in Seq(S) /\ Len(b) = Len(s) + 1 - n
      /\ \A i \in 1..(Len(s) + 1 - n) : b[i] = s[n - 1 + i]
  BY <1>1
<1> HIDE DEF a, b
<1>4. /\ a \o <<e>> \in Seq(S) /\ Len(a \o <<e>>) = n
      /\ \A i \in 1..n : (a \o <<e>>)[i] = IF i < n THEN s[i] ELSE e
  <2>1. <<e>> \in Seq(S) /\ Len(<<e>>) = 1 /\ <<e>>[1] = e /\ a \in Seq(S)
    BY <1>2
  <2>2. /\ a \o <<e>> \in Seq(S) /\ Len(a \o <<e>>) = Len(a) + Len(<<e>>)
        /\ \A i \in 1..(Len(a) + Len(<<e>>)) :
             (a \o <<e>>)[i] = IF i <= Len(a) THEN a[i] ELSE <<e>>[i - Len(a)]
    BY <2>1, ConcatShape
  <2> DEFINE d == a \o <<e>>
             x == <<e>>
  <2> HIDE DEF d, x
  <2>3. /\ d \in Seq(S) /\ Len(d) = n
        /\ \A i \in 1..n : d[i] = IF i <= n - 1 THEN a[i] ELSE x[i - (n - 1)]
        /\ x[1] = e
    BY <1>1, <1>2, <2>1, <2>2 DEF d, x
  <2>4. \A i \in 1..n : d[i] = IF i < n THEN s[i] ELSE e
    BY <1>1, <1>2, <2>3
  <2>5. QED
    BY <2>3, <2>4 DEF d
<1>5. InsertAt(s, n, e) = (a \o <<e>>) \o b
  BY DEF InsertAt, a, b
<1> DEFINE c == a \o <<e>>
<1> HIDE DEF c
<1>6. /\ c \in Seq(S) /\ Len(c) = n
      /\ \A i \in 1..n : c[i] = IF i < n THEN s[i] ELSE e
      /\ InsertAt(s, n, e) = c \o b
  BY <1>4, <1>5 DEF c
<1>7. /\ c \o b \in Seq(S) /\ Len(c \o b) = Len(s) + 1
      /\ \A i \in 1..(Len(s) + 1) : (c \o b)[i] = IF i <= n THEN c[i] ELSE b[i - n]
  <2>1. c \in Seq(S) /\ b \in Seq(S) /\ Len(c) = n /\ Len(b) = Len(s) + 1 - n
    BY <1>3, <1>6
  <2>2. Len(c) + Len(b) = Len(s) + 1
    BY <1>1, <2>1
  <2>3. /\ c \o b \in Seq(S) /\ Len(c \o b) = Len(c) + Len(b)
        /\ \A i \in 1..(Len(c) + Len(b)) :
             (c \o b)[i] = IF i <= Len(c) THEN c[i] ELSE b[i - Len(c)]
    BY <2>1, ConcatShape
  <2>4. QED
    BY <2>1, <2>2, <2>3
<1>8. \A i \in 1..(Len(s) + 1) : i > n => b[i - n] = s[i - 1]
  <2> TAKE i \in 1..(Len(s) + 1)
  <2> HAVE i > n
  <2>1. i - n \in 1..(Len(s) + 1 - n) /\ n - 1 + (i - n) = i - 1
    BY <1>1
  <2>2. QED
    BY <1>3, <2>1
<1>9. QED
  BY <1>1, <1>6, <1>7, <1>8

(* Length and elements after a removal.                                    *)
LEMMA RemoveAtShifts ==
  ASSUME NEW S, NEW s \in Seq(S), NEW n \in 1..Len(s)
  PROVE  /\ RemoveAt(s, n) \in Seq(S)
         /\ Len(RemoveAt(s, n)) = Len(s) - 1
         /\ \A i \in 1..(Len(s) - 1) :
              RemoveAt(s, n)[i] = IF i < n THEN s[i] ELSE s[i + 1]
<1>1. Len(s) \in Nat /\ n \in Nat /\ 1 <= n /\ n <= Len(s)
  OBVIOUS
<1> DEFINE a == SubSeq(s, 1, n - 1)
           b == SubSeq(s, n + 1, Len(s))
<1>2. /\ a \in Seq(S) /\ Len(a) = n - 1
      /\ \A i \in 1..(n - 1) : a[i] = s[i]
  BY <1>1
<1>3. /\ b \in Seq(S) /\ Len(b) = Len(s) - n
      /\ \A i \in 1..(Len(s) - n) : b[i] = s[n + i]
  BY <1>1
<1>4. RemoveAt(s, n) = a \o b
  BY DEF RemoveAt
<1> HIDE DEF a, b
<1>5. /\ a \o b \in Seq(S) /\ Len(a \o b) = Len(s) - 1
      /\ \A i \in 1..(Len(s) - 1) : (a \o b)[i] = IF i < n THEN a[i] ELSE b[i - (n - 1)]
  <2>1. a \in Seq(S) /\ b \in Seq(S) /\ Len(a) = n - 1 /\ Len(b) = Len(s) - n
    BY <1>2, <1>3
  <2>2. /\ a \o b \in Seq(S) /\ Len(a \o b) = Len(a) + Len(b)
        /\ \A i \in 1..(Len(a) + Len(b)) :
             (a \o b)[i] = IF i <= Len(a) THEN a[i] ELSE b[i - Len(a)]
    BY <2>1, ConcatShape
  <2>3. Len(a) + Len(b) = Len(s) - 1
    BY <1>1, <2>1
  <2>4. QED
    BY <1>1, <2>1, <2>2, <2>3
<1>6. \A i \in 1..(Len(s) - 1) : i >= n => b[i - (n - 1)] = s[i + 1]
  <2> TAKE i \in 1..(Len(s) - 1)
  <2> HAVE i >= n
  <2>1. i - (n - 1) \in 1..(Len(s) - n) /\ n + (i - (n - 1)) = i + 1
    BY <1>1
  <2>2. QED
    BY <1>3, <2>1
<1>7. QED
  BY <1>1, <1>2, <1>4, <1>5, <1>6

(* A new issue in Jira changes nothing the service holds.                  *)
LEMMA CreateIssueSync ==
  ASSUME SyncInv, NEW k \in Keys, CreateIssue(k)
  PROVE  SyncInv'
<1> USE DEF manager, database
<1>1. jira' \in [Keys -> Seq(Issues)]
  <2>1. jira \in [Keys -> Seq(Issues)] /\ jira[k] \in Seq(Issues)
    BY DEF SyncInv, SyncType
  <2>2. PICK i \in Issues, n \in 1..(Len(jira[k]) + 1) :
               jira' = [jira EXCEPT ![k] = InsertAt(@, n, i)]
    BY DEF CreateIssue
  <2>3. InsertAt(jira[k], n, i) \in Seq(Issues)
    BY <2>1, InsertAtShifts
  <2>4. QED
    BY <2>1, <2>2, <2>3
<1>2. SyncType'
  BY <1>1 DEF SyncInv, SyncType, RegistryType, CreateIssue
<1>3. CallInv'
  BY DEF CreateIssue, SyncInv, CallInv, CallSound, Born
<1>4. QED
  BY <1>2, <1>3, QuietStep DEF CreateIssue

(* A deletion changes the history of the running sync only.                *)
LEMMA DeleteIssueSync ==
  ASSUME SyncInv, NEW k \in Keys, DeleteIssue(k)
  PROVE  SyncInv'
<1> USE DEF manager, database
<1>1. jira \in [Keys -> Seq(Issues)] /\ jira[k] \in Seq(Issues)
      /\ hist \in [SyncIDs -> History] /\ deleted \subseteq Issues
  BY DEF SyncInv, SyncType
<1>2. PICK n \in 1..Len(jira[k]) :
        /\ jira' = [jira EXCEPT ![k] = RemoveAt(@, n)]
        /\ deleted' = deleted \cup {jira[k][n]}
        /\ hist' = [id \in SyncIDs |->
                      IF byKey[k] = id
                        THEN [hist[id] EXCEPT !.present = @ \ {jira[k][n]},
                                              !.disturbed = TRUE]
                        ELSE hist[id]]
  BY DEF DeleteIssue
<1>3. jira[k][n] \in Issues /\ RemoveAt(jira[k], n) \in Seq(Issues)
  <2>1. jira[k][n] \in Issues
    BY <1>1
  <2>2. RemoveAt(jira[k], n) \in Seq(Issues)
    BY <1>1, RemoveAtShifts
  <2>3. QED
    BY <2>1, <2>2
<1>4. jira' \in [Keys -> Seq(Issues)] /\ deleted' \subseteq Issues
  BY <1>1, <1>2, <1>3
<1>5. /\ hist' \in [SyncIDs -> History]
      /\ \A j \in SyncIDs : /\ hist'[j].skipped = hist[j].skipped
                            /\ hist'[j].upserts = hist[j].upserts
  BY <1>1, <1>2, <1>3, ZenonT(60) DEF History
<1>6. SyncType'
  BY <1>4, <1>5 DEF SyncInv, SyncType, RegistryType, DeleteIssue
<1>7. CallInv'
  BY DEF DeleteIssue, SyncInv, CallInv, CallSound, Born
<1>8. QED
  BY <1>5, <1>6, <1>7, QuietStep DEF DeleteIssue

(* The clock changes nothing the invariant speaks of.                      *)
LEMMA ClockSync ==
  ASSUME SyncInv, Clock
  PROVE  SyncInv'
<1> USE DEF outside, database, registry
<1>1. SyncType'
  BY DEF SyncInv, SyncType, RegistryType, Clock, Tick
<1>2. CallInv'
  BY DEF Clock, Tick, SyncInv, CallInv, CallSound, Born
<1>3. QED
  BY <1>1, <1>2, QuietStep DEF Clock, Tick

(* Neither does a stuttering step.                                         *)
LEMMA StutterSync ==
  ASSUME SyncInv, UNCHANGED vars
  PROVE  SyncInv'
<1> USE DEF vars, manager, outside, database
<1>1. SyncType'
  BY DEF SyncInv, SyncType, RegistryType
<1>2. CallInv'
  BY DEF SyncInv, CallInv, CallSound, Born
<1>3. QED
  BY <1>1, <1>2, QuietStep

-----------------------------------------------------------------------------
(* One step per action.                                                    *)
LEMMA NextSync == SyncInv /\ [Next]_vars => SyncInv'
<1> SUFFICES ASSUME SyncInv, [Next]_vars PROVE SyncInv'
  OBVIOUS
<1>1. CASE UNCHANGED vars
  BY <1>1, StutterSync
<1>2. ASSUME NEW r \in Callers, DownloadProject(r) \/ Handler(r) PROVE SyncInv'
  BY <1>2, DownloadProjectSync, EnsureProjectSync, JoinSyncSync, LaunchSyncSync,
     StartSyncSync DEF Handler
<1>3. ASSUME NEW id \in SyncIDs, Sync(id) PROVE SyncInv'
  BY <1>3, SearchIssuesSync, SearchFailsSync, SetTotalLookupSync, SetTotalStoreSync,
     EmptyPageSync, FetchPageIssuesSync, BeginTxSync, InsertProcessedIssueSync,
     IncrProcessedLookupSync, IncrProcessedAddSync, CommitSync, EndSync,
     SyncJobFinishedSync DEF Sync
<1>4. ASSUME NEW id \in SyncIDs, Timeout(id) PROVE SyncInv'
  BY <1>4, TimeoutSync
<1>5. ASSUME NEW k \in ToSet(Listing), CreateIssue(k) \/ DeleteIssue(k) PROVE SyncInv'
  <2>1. k \in Keys
    BY ToSetFinite
  <2>2. QED
    BY <1>5, <2>1, CreateIssueSync, DeleteIssueSync
<1>6. CASE Clock
  BY <1>6, ClockSync
<1>7. QED
  BY <1>1, <1>2, <1>3, <1>4, <1>5, <1>6 DEF Next

(* SyncInv holds in every reachable state.                                 *)
THEOREM SyncInvariance == Safety => []SyncInv
<1>1. Init => SyncInv
  BY InitSync
<1>2. SyncInv /\ [Next]_vars => SyncInv'
  BY NextSync
<1>3. QED
  BY <1>1, <1>2, PTL DEF Safety

(* However calls, goroutines, timeouts and evictions interleave, two       *)
(* goroutines never copy one project at the same time, a project's row is  *)
(* there before its sync starts, and DownloadProject answers with the id   *)
(* of a sync of the requested project.                                     *)
THEOREM NoTwoSyncsOfOneProject == Safety => []OneSyncPerProject
<1>1. SyncInv => OneSyncPerProject
  <2> SUFFICES ASSUME SyncInv PROVE OneSyncPerProject
    OBVIOUS
  <2>1. ASSUME NEW k \in Keys
        PROVE  /\ Cardinality(Writers(k)) <= 1
               /\ Writers(k) # {} => k \in projectRows
    <3>1. \A id \in Writers(k) : byKey[k] = id /\ k \in projectRows
      BY DEF Writers, SyncInv, JobInv, JobMatches, SyncType, Goroutine
    <3>2. Writers(k) \in SUBSET {byKey[k]}
      BY <3>1
    <3>3. /\ Cardinality(Writers(k)) <= Cardinality({byKey[k]})
          /\ Cardinality({byKey[k]}) = 1
      BY <3>2, FS_Singleton, FS_Subset
    <3>4. QED
      BY <3>1, <3>3
  <2>2. ASSUME NEW r \in Callers, rpc[r].status \in {"running", "already_running"}
        PROVE  job[rpc[r].id].projectKey = rpc[r].key
    BY <2>2 DEF SyncInv, CallInv, CallSound
  <2>3. QED
    BY <2>1, <2>2 DEF OneSyncPerProject
<1>2. QED
  BY <1>1, SyncInvariance, PTL

(* The processed count that Status reports for a completed sync is the     *)
(* number of issues its transactions committed, although it is counted     *)
(* inside transactions that may still fail; a failed sync counts at least  *)
(* as many.                                                                *)
THEOREM ProcessedIsCommitted == Safety => []ProcessedMatchesCommits
<1>1. SyncInv => ProcessedMatchesCommits
  <2> SUFFICES ASSUME SyncInv, NEW id \in SyncIDs
               PROVE  /\ job[id].state = JobStateCompleted =>
                           job[id].processed = hist[id].upserts
                      /\ job[id].state = JobStateFailed =>
                           job[id].processed >= hist[id].upserts
    BY DEF ProcessedMatchesCommits
  <2>1. /\ JobMatches(id) /\ CountSound(id) /\ go[id] \in Goroutine
        /\ job[id] \in Job /\ hist[id] \in History
    BY SyncTypes
  <2>2. job[id].state \in Terminal => go[id].pc \in {"metrics", "exited"}
    BY <2>1 DEF JobMatches, Goroutine
  <2>3. job[id].processed = hist[id].upserts => job[id].processed >= hist[id].upserts
    BY <2>1 DEF Job, History
  <2>4. QED
    BY <2>1, <2>2, <2>3 DEF JobMatches, CountSound, Goroutine
<1>2. QED
  BY <1>1, SyncInvariance, PTL

(* The gauge and the counters agree with the goroutines and the registry,  *)
(* on every path through runSync.                                          *)
THEOREM MetricsTellTheTruth == Safety => []MetricsAgree
<1>1. SyncInv => MetricsAgree
  <2> SUFFICES ASSUME SyncInv PROVE MetricsAgree
    OBVIOUS
  <2>1. MetricsInv
    BY DEF SyncInv
  <2>2. /\ {id \in SyncIDs : [j \in SyncIDs |->
              go[j].pc \notin {"none", "launch", "exited"}][id]} = Active
        /\ {id \in SyncIDs : [j \in SyncIDs |->
              job[j].state = JobStateCompleted /\ At(j, "exited")][id]}
             = Ended(JobStateCompleted)
        /\ {id \in SyncIDs : [j \in SyncIDs |->
              job[j].state = JobStateFailed /\ At(j, "exited")][id]}
             = Ended(JobStateFailed)
    BY DEF Active, Ended
  <2>3. QED
    BY <2>1, <2>2 DEF MetricsAgree, Count, MetricsInv
<1>2. QED
  BY <1>1, SyncInvariance, PTL

(* The database only gains whole pages: a page that lost issues to a       *)
(* timeout reaches commitPage without an error, yet is never committed.    *)
THEOREM OnlyWholePages == Safety => WholePagesOnly
<1>1. ASSUME SyncInv, [Next]_vars, issueRows' # issueRows
      PROVE  \E id \in SyncIDs :
               /\ ReadyToCommit(id)
               /\ go[id].page \ hist[id].skipped \subseteq issueRows'
  <2>1. PICK id \in SyncIDs : Commit(id)
    BY <1>1, ZenonT(60) DEF Next, vars, manager, outside, database, Handler, Sync, DownloadProject,
       EnsureProject, JoinSync, StartSync, LaunchSync, SearchIssues, SearchFails,
       SetTotalLookup, SetTotalStore, EmptyPage, FetchPageIssues, BeginTx,
       InsertProcessedIssue, IncrProcessedLookup, IncrProcessedAdd, FailSync,
       CompleteSync, SyncJobFinished, Timeout, CreateIssue, DeleteIssue, Clock
  <2>2. ReadyToCommit(id) /\ CtxAlive(id) /\ Persist(id)
    BY <1>1, <2>1 DEF Commit
  <2>3. PageSound(id)
    BY <1>1, SyncTypes
  <2>4. QED
    BY <2>2, <2>3 DEF PageSound, InPage, ReadyToCommit, CtxAlive, Persist
<1>2. QED
  BY <1>1, SyncInvariance, PTL DEF Safety, WholePagesOnly

-----------------------------------------------------------------------------
(***************************************************************************)
(* What a completed sync has copied, and that sync.go keeps the contract   *)
(* the registry relies on.                                                 *)
(*                                                                         *)
(* Completeness is about positions.  Between two pages the issues that     *)
(* were there from the start can only move to the right, so those at or    *)
(* before startAt have been on a page; the page just read reaches to       *)
(* startAt plus its size; and when runSync leaves the loop, nothing that   *)
(* was there from the start lay behind the last page when it was read.     *)
(* That last fact cannot be told from positions later on, so it is a part  *)
(* of the invariant of its own.                                            *)
(***************************************************************************)
OnPage == {"setTotal", "storeTotal", "answer"} \cup InPage

(* Where the loop is, and what the first answer has settled.               *)
LoopSound(id) ==
  /\ go[id].pc \in {"none", "launch", "setTotal"} => ~go[id].totalSet
  /\ go[id].pc \in {"storeTotal", "answer"} \cup InPage => go[id].totalSet
  /\ At(id, "finish") /\ go[id].err = "nil" => go[id].totalSet
  /\ ~go[id].totalSet => go[id].startAt = 0
  /\ At(id, "none") => hist[id].present = {}
  /\ go[id].pc \in InPage => go[id].page # {} /\ job[id].total > 0
  /\ At(id, "search") /\ go[id].totalSet => job[id].total > 0
  /\ At(id, "answer") => job[id].total > 0 \/ go[id].total = 0
  /\ go[id].pc \in OnPage /\ go[id].page # {} =>
       /\ go[id].total > 0
       /\ go[id].startAt + Cardinality(go[id].page) <= Cardinality(Issues)
  /\ go[id].total <= Cardinality(Issues)
  /\ go[id].pc \in Working \ {"finish"} => hist[id].upserts <= go[id].startAt

(* The issues in P that lie at or before the n-th place of the search      *)
(* order s are in S.                                                       *)
Seen(s, n, P, S) == \A i \in 1..Len(s) : i <= n /\ s[i] \in P => s[i] \in S

(* What the sync has dealt with: stored, or left out on purpose.           *)
Done(id) == issueRows \cup hist[id].skipped

Search(id) == jira[job[id].projectKey]

CoverSound(id) ==
  /\ go[id].pc \in Working => hist[id].present \subseteq ToSet(Search(id))
  /\ go[id].pc \in Working /\ ~hist[id].disturbed =>
       Seen(Search(id), go[id].startAt, hist[id].present, Done(id))
  /\ go[id].pc \in OnPage /\ ~hist[id].disturbed =>
       /\ Seen(Search(id), go[id].startAt + Cardinality(go[id].page),
               hist[id].present, Done(id) \cup go[id].page)
       /\ LastPage(id) => hist[id].present \subseteq Done(id) \cup go[id].page
  /\ go[id].pc \in {"finish", "metrics", "exited"} /\ go[id].err = "nil"
       /\ ~hist[id].disturbed => hist[id].present \subseteq Done(id)

(* An issue is at one place of the search order.                           *)
JiraInv  == \A k \in Keys : IsInjective(jira[k])
LoopInv  == \A id \in SyncIDs : LoopSound(id)
CoverInv == \A id \in SyncIDs : CoverSound(id)

ContractInv == /\ SyncInv
               /\ JiraInv
               /\ LoopInv
               /\ CoverInv

-----------------------------------------------------------------------------
(* Fewer places are seen, and more has been seen, all the same.            *)
LEMMA SeenMore ==
  ASSUME NEW s, NEW m \in Int, NEW n \in Int, NEW P, NEW S, NEW T,
         Seen(s, n, P, S), m <= n, Len(s) \in Nat, S \subseteq T
  PROVE  Seen(s, m, P, T)
BY DEF Seen

(* Nothing is missed once the places seen reach the end.                   *)
LEMMA SeenToTheEnd ==
  ASSUME NEW s \in Seq(Issues), NEW n \in Int, NEW P, NEW S,
         Seen(s, n, P, S), P \subseteq ToSet(s), Len(s) <= n
  PROVE  P \subseteq S
<1> SUFFICES ASSUME NEW x \in P PROVE x \in S
  OBVIOUS
<1>1. PICK i \in DOMAIN s : s[i] = x
  BY DEF ToSet
<1>2. i \in 1..Len(s) /\ i <= n
  BY <1>1
<1>3. QED
  BY <1>1, <1>2 DEF Seen

(* The next m places are on the page.                                      *)
LEMMA SeenNextPage ==
  ASSUME NEW s, Len(s) \in Nat, NEW n \in Nat, NEW m \in Nat, NEW c \in Int,
         NEW P, NEW S, Seen(s, n, P, S), c <= m
  PROVE  Seen(s, n + c, P, S \cup Places(s, n, m))
<1> SUFFICES ASSUME NEW i \in 1..Len(s), i <= n + c, s[i] \in P
             PROVE  s[i] \in S \cup Places(s, n, m)
  BY DEF Seen
<1>1. CASE i <= n
  BY <1>1 DEF Seen
<1>2. CASE i > n
  <2>1. i \in (n + 1)..(n + m)
    BY <1>2
  <2>2. QED
    BY <2>1 DEF Places
<1>3. QED
  BY <1>1, <1>2

(* An issue that appears pushes the others to the right only.              *)
LEMMA SeenInsert ==
  ASSUME NEW s \in Seq(Issues), NEW p \in 1..(Len(s) + 1), NEW e \in Issues,
         NEW n \in Int, NEW P, NEW S, Seen(s, n, P, S), e \notin P
  PROVE  Seen(InsertAt(s, p, e), n, P, S)
<1> DEFINE t == InsertAt(s, p, e)
<1>1. /\ Len(t) = Len(s) + 1
      /\ \A i \in 1..(Len(s) + 1) : t[i] = IF i < p THEN s[i]
                                           ELSE IF i = p THEN e ELSE s[i - 1]
  BY InsertAtShifts
<1>2. Len(s) \in Nat /\ p \in Nat /\ 1 <= p /\ p <= Len(s) + 1
  OBVIOUS
<1> HIDE DEF t
<1> SUFFICES ASSUME NEW i \in 1..(Len(s) + 1), i <= n, t[i] \in P PROVE t[i] \in S
  BY <1>1 DEF Seen, t
<1>3. CASE i < p
  <2>1. i \in 1..Len(s) /\ t[i] = s[i]
    BY <1>1, <1>2, <1>3
  <2>2. QED
    BY <2>1 DEF Seen
<1>4. CASE i = p
  BY <1>1, <1>2, <1>4
<1>5. CASE i > p
  <2>1. i - 1 \in 1..Len(s) /\ i - 1 <= n /\ t[i] = s[i - 1]
    BY <1>1, <1>2, <1>5
  <2>2. QED
    BY <2>1 DEF Seen
<1>6. QED
  BY <1>2, <1>3, <1>4, <1>5

(* The elements after an insertion and after a removal.                    *)
LEMMA InsertAtElements ==
  ASSUME NEW s \in Seq(Issues), NEW p \in 1..(Len(s) + 1), NEW e \in Issues
  PROVE  ToSet(s) \subseteq ToSet(InsertAt(s, p, e))
<1> DEFINE t == InsertAt(s, p, e)
<1>1. /\ t \in Seq(Issues) /\ Len(t) = Len(s) + 1
      /\ \A i \in 1..(Len(s) + 1) : t[i] = IF i < p THEN s[i]
                                           ELSE IF i = p THEN e ELSE s[i - 1]
  BY InsertAtShifts
<1>2. Len(s) \in Nat /\ p \in Nat /\ 1 <= p /\ p <= Len(s) + 1 /\ DOMAIN s = 1..Len(s)
  OBVIOUS
<1> HIDE DEF t
<1>3. DOMAIN t = 1..(Len(s) + 1)
  BY <1>1
<1> SUFFICES ASSUME NEW i \in 1..Len(s) PROVE s[i] \in ToSet(t)
  BY <1>2 DEF ToSet, t
<1>4. CASE i < p
  <2>1. i \in DOMAIN t /\ t[i] = s[i]
    BY <1>1, <1>2, <1>3, <1>4
  <2>2. QED
    BY <2>1 DEF ToSet
<1>5. CASE i >= p
  <2>1. i + 1 \in 1..(Len(s) + 1) /\ i + 1 > p /\ (i + 1) - 1 = i
    BY <1>2, <1>5
  <2>2. t[i + 1] = s[i]
    BY <1>1, <1>2, <2>1
  <2>3. QED
    BY <1>3, <2>1, <2>2 DEF ToSet
<1>6. QED
  BY <1>2, <1>4, <1>5

(* A removal keeps every issue but the one at its place.                   *)
LEMMA RemoveAtElements ==
  ASSUME NEW s \in Seq(Issues), NEW p \in 1..Len(s)
  PROVE  ToSet(s) \ {s[p]} \subseteq ToSet(RemoveAt(s, p))
<1> DEFINE t == RemoveAt(s, p)
<1>1. /\ t \in Seq(Issues) /\ Len(t) = Len(s) - 1
      /\ \A i \in 1..(Len(s) - 1) : t[i] = IF i < p THEN s[i] ELSE s[i + 1]
  BY RemoveAtShifts
<1>2. Len(s) \in Nat /\ p \in Nat /\ 1 <= p /\ p <= Len(s) /\ DOMAIN s = 1..Len(s)
  OBVIOUS
<1> HIDE DEF t
<1>3. DOMAIN t = 1..(Len(s) - 1)
  BY <1>1
<1> SUFFICES ASSUME NEW i \in 1..Len(s), s[i] # s[p] PROVE s[i] \in ToSet(t)
  BY <1>2 DEF ToSet, t
<1>4. CASE i < p
  <2>1. i \in DOMAIN t /\ t[i] = s[i]
    BY <1>1, <1>2, <1>3, <1>4
  <2>2. QED
    BY <2>1 DEF ToSet
<1>5. CASE i > p
  <2>1. i - 1 \in 1..(Len(s) - 1) /\ ~(i - 1 < p) /\ (i - 1) + 1 = i
    BY <1>2, <1>5
  <2>2. t[i - 1] = s[i]
    BY <1>1, <2>1
  <2>3. QED
    BY <1>3, <2>1, <2>2 DEF ToSet
<1>6. QED
  BY <1>2, <1>4, <1>5

(* An issue that was nowhere is at one place once it is inserted.          *)
LEMMA InsertAtInjective ==
  ASSUME NEW s \in Seq(Issues), NEW p \in 1..(Len(s) + 1), NEW e \in Issues,
         IsInjective(s), e \notin ToSet(s)
  PROVE  IsInjective(InsertAt(s, p, e))
<1> DEFINE t == InsertAt(s, p, e)
<1>1. /\ t \in Seq(Issues) /\ Len(t) = Len(s) + 1
      /\ \A i \in 1..(Len(s) + 1) : t[i] = IF i < p THEN s[i]
                                           ELSE IF i = p THEN e ELSE s[i - 1]
  BY ONLY InsertAtShifts, s \in Seq(Issues), p \in 1..(Len(s) + 1), e \in Issues,
     SMTT(30)
<1>2. Len(s) \in Nat /\ p \in Nat /\ 1 <= p /\ p <= Len(s) + 1 /\ DOMAIN s = 1..Len(s)
  OBVIOUS
<1> HIDE DEF t
<1>3. \A i \in 1..Len(s) : s[i] # e
  BY <1>2 DEF ToSet
<1>4. \A i, j \in 1..Len(s) : s[i] = s[j] => i = j
  BY <1>2 DEF IsInjective
<1>5. DOMAIN t = 1..(Len(s) + 1)
  BY <1>1
<1> SUFFICES ASSUME NEW i \in 1..(Len(s) + 1), NEW j \in 1..(Len(s) + 1), t[i] = t[j]
             PROVE  i = j
  BY <1>5 DEF IsInjective, t
<1> DEFINE From(x) == IF x < p THEN x ELSE x - 1
<1>6. /\ i # p => From(i) \in 1..Len(s) /\ t[i] = s[From(i)]
      /\ j # p => From(j) \in 1..Len(s) /\ t[j] = s[From(j)]
      /\ i = p => t[i] = e
      /\ j = p => t[j] = e
  BY <1>1, <1>2
<1>7. i # p /\ j # p => From(i) = From(j)
  BY <1>4, <1>6
<1>8. QED
  BY <1>2, <1>3, <1>6, <1>7

(* A removal puts no issue at two places.                                  *)
LEMMA RemoveAtInjective ==
  ASSUME NEW s \in Seq(Issues), NEW p \in 1..Len(s), IsInjective(s)
  PROVE  IsInjective(RemoveAt(s, p))
<1> DEFINE t == RemoveAt(s, p)
<1>1. /\ t \in Seq(Issues) /\ Len(t) = Len(s) - 1
      /\ \A i \in 1..(Len(s) - 1) : t[i] = IF i < p THEN s[i] ELSE s[i + 1]
  BY RemoveAtShifts
<1>2. Len(s) \in Nat /\ p \in Nat /\ 1 <= p /\ p <= Len(s) /\ DOMAIN s = 1..Len(s)
  OBVIOUS
<1> HIDE DEF t
<1>3. \A i, j \in 1..Len(s) : s[i] = s[j] => i = j
  BY <1>2 DEF IsInjective
<1>4. DOMAIN t = 1..(Len(s) - 1)
  BY <1>1
<1> SUFFICES ASSUME NEW i \in 1..(Len(s) - 1), NEW j \in 1..(Len(s) - 1), t[i] = t[j]
             PROVE  i = j
  BY <1>4 DEF IsInjective, t
<1> DEFINE From(x) == IF x < p THEN x ELSE x + 1
<1>5. /\ From(i) \in 1..Len(s) /\ t[i] = s[From(i)]
      /\ From(j) \in 1..Len(s) /\ t[j] = s[From(j)]
  BY <1>1, <1>2
<1>6. From(i) = From(j)
  BY <1>3, <1>5
<1>7. QED
  BY <1>2, <1>6

(* A search order without repetitions is no longer than there are issues.  *)
LEMMA SearchBounded ==
  ASSUME NEW s \in Seq(Issues), IsInjective(s)
  PROVE  /\ Len(s) \in Nat /\ Cardinality(Issues) \in Nat
         /\ Len(s) <= Cardinality(Issues)
<1>1. s \in Injection(1..Len(s), Issues)
  BY DEF Injection, IsInjective
<1>2. Cardinality(1..Len(s)) <= Cardinality(Issues)
  BY <1>1, FS_Injection
<1>3. ASSUME NEW b \in Nat PROVE Cardinality(1..b) = b
  <2>1. Cardinality(1..b) = IF 1 > b THEN 0 ELSE b - 1 + 1
    BY FS_Interval
  <2>2. (IF 1 > b THEN 0 ELSE b - 1 + 1) = b
    OBVIOUS
  <2>3. QED
    BY <2>1, <2>2
<1>4. Len(s) \in Nat
  OBVIOUS
<1>5. QED
  BY <1>2, <1>3, <1>4, FS_CardinalityType

-----------------------------------------------------------------------------
(* At the start no goroutine has a page, and nothing is promised.          *)
LEMMA InitContract == Init => ContractInv
<1> SUFFICES ASSUME Init PROVE ContractInv
  OBVIOUS
<1>1. SyncInv
  BY InitSync
<1>2. JiraInv
  BY DEF Init, JiraInv
<1>3. LoopInv
  <2>1. Cardinality(Issues) \in Nat
    BY FS_CardinalityType
  <2>2. QED
    BY <2>1 DEF Init, LoopInv, LoopSound, Working, OnPage, InPage
<1>4. CoverInv
  BY DEF Init, CoverInv, CoverSound, Working, OnPage, InPage
<1>5. QED
  BY <1>1, <1>2, <1>3, <1>4 DEF ContractInv

(* What ContractInv says of one sync.                                      *)
LEMMA ContractFacts ==
  ASSUME ContractInv, NEW id \in SyncIDs
  PROVE  /\ go[id] \in Goroutine /\ job[id] \in Job /\ hist[id] \in History
         /\ ctxDone[id] \in BOOLEAN
         /\ JobMatches(id) /\ PageSound(id) /\ CountSound(id)
         /\ LoopSound(id) /\ CoverSound(id)
         /\ Cardinality(go[id].page) \in Nat /\ Cardinality(Issues) \in Nat
         /\ SyncInv
         /\ go[id].pc \in Working => /\ Search(id) \in Seq(Issues)
                                     /\ Len(Search(id)) \in Nat
                                     /\ Len(Search(id)) <= Cardinality(Issues)
<1>1. /\ go[id] \in Goroutine /\ job[id] \in Job /\ hist[id] \in History
      /\ ctxDone[id] \in BOOLEAN
      /\ JobMatches(id) /\ PageSound(id) /\ CountSound(id) /\ SyncInv
  BY SyncTypes DEF ContractInv
<1>2. LoopSound(id) /\ CoverSound(id)
  BY DEF ContractInv, LoopInv, CoverInv
<1>3. Cardinality(go[id].page) \in Nat /\ Cardinality(Issues) \in Nat
  BY <1>1, FS_CardinalityType DEF PageSound
<1>4. go[id].pc \in Working => /\ Search(id) \in Seq(Issues)
                               /\ IsInjective(Search(id))
  <2>1. go[id].pc \in Working => job[id].projectKey \in Keys
    BY <1>1 DEF JobMatches, Working, SyncInv, SyncType
  <2>2. QED
    BY <2>1 DEF Search, ContractInv, JiraInv, SyncInv, SyncType
<1>5. QED
  BY <1>1, <1>2, <1>3, <1>4, SearchBounded

(* A sync none of whose own steps is taken, while Jira stands still.       *)
LEMMA Bystander ==
  ASSUME ContractInv, NEW j \in SyncIDs,
         UNCHANGED jira, issueRows \subseteq issueRows',
         go'[j] = go[j], job'[j] = job[j], hist'[j] = hist[j]
  PROVE  LoopSound(j)' /\ CoverSound(j)'
<1>1. LoopSound(j) /\ CoverSound(j)
  BY ContractFacts
<1>2. LoopSound(j)'
  BY <1>1 DEF LoopSound
<1>3. Done(j) \subseteq Done(j)' /\ Search(j)' = Search(j)
  BY DEF Done, Search
<1>4. CoverSound(j)'
  BY <1>1, <1>3 DEF CoverSound, Seen, LastPage
<1>5. QED
  BY <1>2, <1>4

(* A step of one sync.                                                     *)
LEMMA OneSyncStep ==
  ASSUME ContractInv, SyncInv', NEW id \in SyncIDs,
         UNCHANGED jira, issueRows \subseteq issueRows',
         \A j \in SyncIDs : j # id => /\ go'[j] = go[j] /\ job'[j] = job[j]
                                      /\ hist'[j] = hist[j],
         LoopSound(id)', CoverSound(id)'
  PROVE  ContractInv'
<1>1. LoopInv' /\ CoverInv'
  <2>1. \A j \in SyncIDs : j # id => LoopSound(j)' /\ CoverSound(j)'
    BY Bystander
  <2>2. QED
    BY <2>1 DEF LoopInv, CoverInv
<1>2. JiraInv'
  BY DEF ContractInv, JiraInv
<1>3. QED
  BY <1>1, <1>2 DEF ContractInv

(* A step that no sync takes part in.                                      *)
LEMMA NoSyncStep ==
  ASSUME ContractInv, SyncInv', UNCHANGED <<jira, issueRows, go, job, hist>>
  PROVE  ContractInv'
<1>1. LoopInv' /\ CoverInv'
  BY Bystander DEF LoopInv, CoverInv
<1>2. JiraInv'
  BY DEF ContractInv, JiraInv
<1>3. QED
  BY <1>1, <1>2 DEF ContractInv

(* A step inside the page, and a step from the page's answer into it: the  *)
(* loop's own variables stand still.                                       *)
LEMMA InPageMove ==
  ASSUME ContractInv, SyncInv', NEW id \in SyncIDs, UNCHANGED <<jira, issueRows>>,
         \A j \in SyncIDs : j # id => /\ go'[j] = go[j] /\ job'[j] = job[j]
                                      /\ hist'[j] = hist[j],
         go[id].pc \in InPage, go'[id].pc \in InPage,
         go'[id].err = go[id].err, go'[id].startAt = go[id].startAt,
         go'[id].total = go[id].total, go'[id].totalSet = go[id].totalSet,
         go'[id].page = go[id].page,
         job'[id].projectKey = job[id].projectKey, job'[id].total = job[id].total,
         hist'[id] = hist[id]
  PROVE  ContractInv'
<1>1. LoopSound(id) /\ CoverSound(id)
  BY ContractFacts
<1>2. LoopSound(id)'
  BY <1>1 DEF LoopSound, InPage, OnPage, Working
<1>3. Done(id)' = Done(id) /\ Search(id)' = Search(id)
  BY DEF Done, Search
<1>4. CoverSound(id)'
  BY <1>1, <1>3 DEF CoverSound, LastPage, InPage, OnPage, Working
<1>5. QED
  BY <1>2, <1>4, OneSyncStep

(* Leaving the loop with an error promises nothing but what was done.      *)
LEMMA ReturnContract ==
  ASSUME ContractInv, SyncInv', NEW id \in SyncIDs,
         UNCHANGED <<manager, jira>>, issueRows \subseteq issueRows',
         \A j \in SyncIDs : j # id => hist'[j] = hist[j],
         go[id].pc \in Working \ {"launch"},
         go' = [go EXCEPT ![id] = [go[id] EXCEPT !.pc = "finish", !.err = "err",
                                                 !.issues = go'[id].issues]],
         hist'[id].present = hist[id].present,
         hist'[id].disturbed = hist[id].disturbed,
         hist[id].skipped \subseteq hist'[id].skipped
  PROVE  ContractInv'
<1>1. /\ LoopSound(id) /\ CoverSound(id) /\ go[id] \in Goroutine
      /\ go \in [SyncIDs -> Goroutine]
  BY ContractFacts DEF SyncInv, SyncType
<1>2. /\ go'[id].pc = "finish" /\ go'[id].err = "err"
      /\ go'[id].startAt = go[id].startAt /\ go'[id].total = go[id].total
      /\ go'[id].totalSet = go[id].totalSet
      /\ \A j \in SyncIDs : j # id => go'[j] = go[j] /\ job'[j] = job[j]
      /\ job'[id] = job[id]
  BY <1>1, ZenonT(60) DEF Goroutine, manager
<1>3. LoopSound(id)'
  BY <1>1, <1>2 DEF LoopSound, InPage, OnPage, Working
<1>4. Done(id) \subseteq Done(id)' /\ Search(id)' = Search(id)
  BY <1>2 DEF Done, Search
<1>5. CoverSound(id)'
  BY <1>1, <1>2, <1>4 DEF CoverSound, Seen, InPage, OnPage, Working
<1>6. QED
  BY <1>2, <1>3, <1>5, OneSyncStep

-----------------------------------------------------------------------------
(* The first answer settles what is promised; a later one extends the      *)
(* places seen by its page.                                                *)
LEMMA SearchIssuesContract ==
  ASSUME ContractInv, SyncInv', NEW id \in SyncIDs, SearchIssues(id)
  PROVE  ContractInv'
<1> DEFINE s == Search(id)
           n == go[id].startAt
<1>1. /\ go[id] \in Goroutine /\ job[id] \in Job /\ hist[id] \in History
      /\ JobMatches(id) /\ LoopSound(id) /\ CoverSound(id) /\ CountSound(id)
      /\ At(id, "search") /\ go \in [SyncIDs -> Goroutine]
      /\ s \in Seq(Issues) /\ Len(s) \in Nat /\ Len(s) <= Cardinality(Issues)
      /\ Cardinality(Issues) \in Nat /\ n \in Nat
  BY ContractFacts DEF SearchIssues, Working, Goroutine, SyncInv, SyncType
<1>2. PICK page \in Pages(job[id].projectKey, n) :
          go' = [go EXCEPT
                   ![id].pc = IF go[id].totalSet THEN "answer" ELSE "setTotal",
                   ![id].total = Len(s),
                   ![id].page = ToSet(page),
                   ![id].issues = {}, ![id].tx = {}]
  BY DEF SearchIssues, Search
<1>3. PICK m \in Nat : /\ m = 0 \/ n + m <= Len(s)
                       /\ Cardinality(ToSet(page)) <= m
                       /\ ToSet(page) = Places(s, n, m)
  <2>1. jira[job[id].projectKey] \in Seq(Issues)
    BY <1>1 DEF Search
  <2>2. n \in Nat
    BY <1>1
  <2> HIDE DEF n, s
  <2>3. \E m \in Nat :
          /\ m = 0 \/ n + m <= Len(jira[job[id].projectKey])
          /\ Cardinality(ToSet(page)) <= m
          /\ ToSet(page) = Places(jira[job[id].projectKey], n, m)
    BY <2>1, <2>2, SearchAnswer
  <2>4. QED
    BY <2>3 DEF Search, s
<1>4. Cardinality(ToSet(page)) \in Nat /\ IsFiniteSet(ToSet(page))
  BY <1>1, <1>2, SearchAnswer, FS_CardinalityType DEF Search
<1>5. /\ go'[id].pc = IF go[id].totalSet THEN "answer" ELSE "setTotal"
      /\ go'[id].err = go[id].err /\ go'[id].startAt = n /\ go'[id].total = Len(s)
      /\ go'[id].totalSet = go[id].totalSet /\ go'[id].page = ToSet(page)
      /\ \A j \in SyncIDs : j # id => go'[j] = go[j]
  BY <1>1, <1>2 DEF Goroutine
<1>6. /\ hist'[id].present = IF go[id].totalSet THEN hist[id].present ELSE ToSet(s)
      /\ hist'[id].skipped = hist[id].skipped
      /\ hist'[id].upserts = hist[id].upserts
      /\ ~hist'[id].disturbed /\ go[id].totalSet => ~hist[id].disturbed
      /\ \A j \in SyncIDs : j # id => hist'[j] = hist[j]
  BY <1>1 DEF SearchIssues, Search, History, ContractInv, SyncInv, SyncType
<1>7. UNCHANGED <<job, jira, issueRows>>
  BY DEF SearchIssues, manager, outside, database
<1>8. Search(id)' = s /\ Done(id)' = Done(id)
  BY <1>6, <1>7 DEF Search, Done
<1> HIDE DEF s, n
<1>9. LoopSound(id)'
  <2>1. ToSet(page) # {} => /\ Len(s) > 0
                            /\ n + Cardinality(ToSet(page)) <= Cardinality(Issues)
    <3>1. ToSet(page) # {} => m # 0
      BY <1>1, <1>3 DEF Places
    <3>2. QED
      BY <1>1, <1>3, <1>4, <3>1
  <2>2. hist[id].upserts <= n
    BY <1>1 DEF LoopSound, Working, n
  <2>3. go[id].totalSet => job[id].total > 0
    BY <1>1 DEF LoopSound
  <2>4. ~go[id].totalSet => n = 0
    BY <1>1 DEF LoopSound, n
  <2>5. go[id].err = "nil" /\ go[id].totalSet \in BOOLEAN
    BY <1>1 DEF JobMatches, Goroutine
  <2>6. QED
    BY <1>1, <1>5, <1>6, <1>7, <2>1, <2>2, <2>3, <2>4, <2>5
       DEF LoopSound, Working, InPage, OnPage
<1>10. CoverSound(id)'
  <2> DEFINE P == hist'[id].present
             D == Done(id)
             c == Cardinality(ToSet(page))
  <2>1. P \subseteq ToSet(s)
    BY <1>1, <1>6 DEF CoverSound, Working, s
  <2>2. ~hist'[id].disturbed => Seen(s, n, P, D)
    <3>1. CASE go[id].totalSet
      BY <1>1, <1>6, <3>1 DEF CoverSound, Working, s, n
    <3>2. CASE ~go[id].totalSet
      <4>1. n = 0
        BY <1>1, <3>2 DEF LoopSound, n
      <4>2. QED
        BY <1>1, <4>1 DEF Seen
    <3>3. QED
      BY <3>1, <3>2
  <2> HIDE DEF P, D
  <2>3. ~hist'[id].disturbed => Seen(s, n + c, P, D \cup ToSet(page))
    <3>1. ASSUME Seen(s, n, P, D)
          PROVE  Seen(s, n + c, P, D \cup Places(s, n, m))
      <4> HIDE DEF c
      <4>1. c \in Int /\ c <= m
        BY <1>3, <1>4 DEF c
      <4>2. QED
        BY <1>1, <3>1, <4>1, SeenNextPage
    <3>2. QED
      BY <1>3, <2>2, <3>1
  <2>4. ~hist'[id].disturbed /\ n + c >= Len(s) => P \subseteq D \cup ToSet(page)
    BY <1>1, <1>4, <2>1, <2>3, SeenToTheEnd
  <2>5. go'[id].pc \in {"answer", "setTotal"}
    BY <1>5
  <2>6. /\ hist'[id].present = P /\ Done(id)' = D /\ Search(id)' = s
        /\ LastPage(id)' => n + c >= Len(s)
    BY <1>5, <1>8 DEF P, D, LastPage
  <2>7. QED
    BY <1>5, <2>1, <2>2, <2>3, <2>4, <2>5, <2>6 DEF CoverSound
<1>11. QED
  BY <1>5, <1>6, <1>7, <1>9, <1>10, OneSyncStep

(* The first answer's total reaches the registry, since the job is found.  *)
LEMMA SetTotalLookupContract ==
  ASSUME ContractInv, SyncInv', NEW id \in SyncIDs, SetTotalLookup(id)
  PROVE  ContractInv'
<1>1. /\ go[id] \in Goroutine /\ JobMatches(id) /\ LoopSound(id) /\ CoverSound(id)
      /\ At(id, "setTotal") /\ go \in [SyncIDs -> Goroutine] /\ SyncInv
  BY ContractFacts DEF SetTotalLookup, SyncInv, SyncType
<1>2. Lookup(id)
  BY <1>1 DEF Lookup, JobMatches, Working, SyncInv, SyncType, RegistryType
<1>3. /\ go'[id] = [go[id] EXCEPT !.totalSet = TRUE, !.pc = "storeTotal"]
      /\ \A j \in SyncIDs : j # id => go'[j] = go[j]
  BY <1>1, <1>2 DEF SetTotalLookup, Goroutine
<1>4. UNCHANGED <<job, jira, issueRows, hist>>
  BY DEF SetTotalLookup, manager, outside, database
<1>5. LoopSound(id)'
  BY <1>1, <1>3, <1>4 DEF LoopSound, Goroutine, Working, InPage, OnPage
<1>6. CoverSound(id)'
  <2>1. Done(id)' = Done(id) /\ Search(id)' = Search(id) /\ (LastPage(id)' <=> LastPage(id))
    BY <1>1, <1>3, <1>4 DEF Done, Search, LastPage, Goroutine
  <2>2. QED
    BY <1>1, <1>3, <1>4, <2>1 DEF CoverSound, Goroutine, Working, InPage, OnPage
<1>7. QED
  BY <1>3, <1>4, <1>5, <1>6, OneSyncStep

(* SetTotal stores a total that is positive if the page holds an issue.    *)
LEMMA SetTotalStoreContract ==
  ASSUME ContractInv, SyncInv', NEW id \in SyncIDs, SetTotalStore(id)
  PROVE  ContractInv'
<1>1. /\ go[id] \in Goroutine /\ job[id] \in Job /\ LoopSound(id) /\ CoverSound(id)
      /\ At(id, "storeTotal") /\ go \in [SyncIDs -> Goroutine]
      /\ job \in [SyncIDs -> Job]
  BY ContractFacts DEF SetTotalStore, SyncInv, SyncType, RegistryType
<1>2. /\ go'[id] = [go[id] EXCEPT !.pc = "answer"]
      /\ \A j \in SyncIDs : j # id => go'[j] = go[j]
  BY <1>1 DEF SetTotalStore, Goroutine
<1>3. /\ job'[id].total = go[id].total /\ job'[id].projectKey = job[id].projectKey
      /\ \A j \in SyncIDs : j # id => job'[j] = job[j]
  BY <1>1 DEF SetTotalStore, StoreTotal, Job
<1>4. UNCHANGED <<jira, issueRows, hist>>
  BY DEF SetTotalStore, outside, database
<1>5. LoopSound(id)'
  BY <1>1, <1>2, <1>3, <1>4 DEF LoopSound, Goroutine, Working, InPage, OnPage
<1>6. CoverSound(id)'
  <2>1. Done(id)' = Done(id) /\ Search(id)' = Search(id) /\ (LastPage(id)' <=> LastPage(id))
    BY <1>1, <1>2, <1>3, <1>4 DEF Done, Search, LastPage, Goroutine
  <2>2. QED
    BY <1>1, <1>2, <1>4, <2>1 DEF CoverSound, Goroutine, Working, InPage, OnPage
<1>7. QED
  BY <1>2, <1>3, <1>4, <1>5, <1>6, OneSyncStep

(* The end of the loop body, when what was there from the start is done.   *)
LEMMA NextPageContract ==
  ASSUME ContractInv, SyncInv', NEW id \in SyncIDs, NextPage(id),
         UNCHANGED <<job, jira>>, issueRows \subseteq issueRows',
         \A j \in SyncIDs : j # id => hist'[j] = hist[j],
         go[id].pc \in {"answer"} \cup InPage,
         hist'[id].present = hist[id].present,
         hist'[id].disturbed = hist[id].disturbed,
         hist'[id].skipped = hist[id].skipped,
         hist'[id].upserts <= go[id].startAt + Cardinality(go[id].page),
         hist[id].skipped \subseteq Done(id)',
         go[id].page \subseteq Done(id)'
  PROVE  ContractInv'
<1>1. /\ go[id] \in Goroutine /\ job[id] \in Job /\ LoopSound(id) /\ CoverSound(id)
      /\ go \in [SyncIDs -> Goroutine] /\ JobMatches(id)
      /\ Cardinality(go[id].page) \in Nat /\ go[id].startAt \in Nat
      /\ go[id].total \in Nat /\ job[id].total \in Nat
  BY ContractFacts DEF SyncInv, SyncType, Goroutine, Job
<1>2. /\ go'[id].pc = IF LastPage(id) THEN "finish" ELSE "search"
      /\ go'[id].startAt = IF LastPage(id) THEN go[id].startAt
                           ELSE go[id].startAt + Cardinality(go[id].page)
      /\ go'[id].err = go[id].err /\ go'[id].total = go[id].total
      /\ go'[id].totalSet = go[id].totalSet /\ go'[id].page = go[id].page
      /\ \A j \in SyncIDs : j # id => go'[j] = go[j]
  BY <1>1 DEF NextPage, Goroutine
<1>3. go[id].totalSet /\ go[id].err = "nil"
  BY <1>1 DEF LoopSound, JobMatches, InPage, Goroutine
<1>4. ~LastPage(id) => job[id].total > 0
  BY <1>1 DEF LoopSound, LastPage
<1>5. LoopSound(id)'
  BY <1>1, <1>2, <1>3, <1>4 DEF LoopSound, Working, InPage, OnPage
<1>6. /\ Search(id)' = Search(id)
      /\ Done(id) \subseteq Done(id)'
      /\ Done(id) \cup go[id].page \subseteq Done(id)'
  BY DEF Done, Search
<1>7. CoverSound(id)'
  <2>1. /\ hist[id].present \subseteq ToSet(Search(id))
        /\ ~hist[id].disturbed =>
             /\ Seen(Search(id), go[id].startAt, hist[id].present, Done(id))
             /\ Seen(Search(id), go[id].startAt + Cardinality(go[id].page),
                     hist[id].present, Done(id) \cup go[id].page)
             /\ LastPage(id) => hist[id].present \subseteq Done(id) \cup go[id].page
    BY <1>1 DEF CoverSound, Working, OnPage, InPage
  <2>2. ~hist[id].disturbed =>
             /\ Seen(Search(id), go[id].startAt, hist[id].present, Done(id)')
             /\ Seen(Search(id), go[id].startAt + Cardinality(go[id].page),
                     hist[id].present, Done(id)')
             /\ LastPage(id) => hist[id].present \subseteq Done(id)'
    BY <1>6, <2>1 DEF Seen
  <2>3. go'[id].pc \in {"finish", "search"}
    BY <1>2
  <2>4. CASE LastPage(id)
    BY <1>2, <1>6, <2>1, <2>2, <2>4 DEF CoverSound, OnPage, InPage
  <2>5. CASE ~LastPage(id)
    BY <1>2, <1>6, <2>1, <2>2, <2>5 DEF CoverSound, OnPage, InPage
  <2>6. QED
    BY <2>4, <2>5
<1>8. QED
  BY <1>2, <1>5, <1>7, OneSyncStep

(* An empty page leaves startAt where it is, or ends a search that has     *)
(* seen everything.                                                        *)
LEMMA EmptyPageContract ==
  ASSUME ContractInv, SyncInv', NEW id \in SyncIDs, EmptyPage(id)
  PROVE  ContractInv'
<1>1. /\ LoopSound(id) /\ At(id, "answer") /\ go[id].page = {}
      /\ hist[id] \in History /\ go[id] \in Goroutine
  BY ContractFacts DEF EmptyPage
<1>2. UNCHANGED <<job, jira, issueRows, hist>> /\ NextPage(id)
  BY DEF EmptyPage, manager, outside, database
<1>3. hist[id].upserts <= go[id].startAt + Cardinality(go[id].page)
  <2>1. Cardinality(go[id].page) = 0
    BY <1>1, FS_EmptySet
  <2>2. QED
    BY <1>1, <2>1 DEF LoopSound, Working, Goroutine, History
<1>4. hist[id].skipped \subseteq Done(id)' /\ go[id].page \subseteq Done(id)'
  BY <1>1, <1>2 DEF Done
<1>5. QED
  BY <1>1, <1>2, <1>3, <1>4, NextPageContract

(* An issue whose fetch failed is dealt with: it is left out on purpose.   *)
LEMMA FetchPageIssuesContract ==
  ASSUME ContractInv, SyncInv', NEW id \in SyncIDs, FetchPageIssues(id)
  PROVE  ContractInv'
<1>1. /\ go[id] \in Goroutine /\ hist[id] \in History /\ ctxDone[id] \in BOOLEAN
      /\ JobMatches(id) /\ LoopSound(id) /\ CoverSound(id)
      /\ At(id, "answer") /\ go[id].page # {} /\ job[id] \in Job
      /\ go \in [SyncIDs -> Goroutine] /\ hist \in [SyncIDs -> History]
  BY ContractFacts DEF FetchPageIssues, SyncInv, SyncType
<1> DEFINE Answer(failed, r) ==
        /\ go' = [go EXCEPT ![id].pc = IF r.err = "nil" THEN "begin" ELSE "finish",
                            ![id].err = r.err,
                            ![id].issues = r.issues]
        /\ hist' = [hist EXCEPT ![id].skipped = @ \cup failed]
<1>f. PICK failed \in SUBSET go[id].page :
        \E r \in PageResults(go[id].page, failed, ctxDone[id]) : Answer(failed, r)
  BY DEF FetchPageIssues
<1>2. PICK r \in PageResults(go[id].page, failed, ctxDone[id]) : Answer(failed, r)
  BY <1>f
<1>3. r.err \in {"nil", "err"}
  BY <1>1, <1>2 DEF PageResults
<1>4. /\ UNCHANGED <<manager, job, jira, issueRows>>
      /\ hist'[id].present = hist[id].present
      /\ hist'[id].disturbed = hist[id].disturbed
      /\ hist'[id].upserts = hist[id].upserts
      /\ hist[id].skipped \subseteq hist'[id].skipped
      /\ \A j \in SyncIDs : j # id => hist'[j] = hist[j]
  BY <1>1, <1>2 DEF History, FetchPageIssues, manager, outside, database
<1>5. CASE r.err = "err"
  <2>1. go' = [go EXCEPT ![id] = [go[id] EXCEPT !.pc = "finish", !.err = "err",
                                                !.issues = go'[id].issues]]
    BY <1>1, <1>2, <1>5 DEF Goroutine
  <2>2. QED
    BY <1>1, <1>4, <2>1, ReturnContract DEF Working
<1>6. CASE r.err = "nil"
  <2>1. /\ go'[id].pc = "begin" /\ go'[id].err = "nil"
        /\ go'[id].startAt = go[id].startAt /\ go'[id].total = go[id].total
        /\ go'[id].totalSet = go[id].totalSet /\ go'[id].page = go[id].page
        /\ \A j \in SyncIDs : j # id => go'[j] = go[j]
    BY <1>1, <1>2, <1>6 DEF Goroutine
  <2>2. go[id].total > 0 /\ job[id].total > 0
    BY <1>1 DEF LoopSound, OnPage, Goroutine, Job
  <2>3. LoopSound(id)'
    BY <1>1, <1>4, <2>1, <2>2 DEF LoopSound, Working, InPage, OnPage
  <2>4. Done(id) \subseteq Done(id)' /\ Search(id)' = Search(id)
        /\ (LastPage(id)' <=> LastPage(id))
    BY <1>4, <2>1 DEF Done, Search, LastPage
  <2>5. CoverSound(id)'
    <3>1. /\ hist[id].present \subseteq ToSet(Search(id))
          /\ ~hist[id].disturbed =>
               /\ Seen(Search(id), go[id].startAt, hist[id].present, Done(id))
               /\ Seen(Search(id), go[id].startAt + Cardinality(go[id].page),
                       hist[id].present, Done(id) \cup go[id].page)
               /\ LastPage(id) => hist[id].present \subseteq Done(id) \cup go[id].page
      BY <1>1 DEF CoverSound, Working, OnPage, InPage
    <3>2. ~hist[id].disturbed =>
               /\ Seen(Search(id), go[id].startAt, hist[id].present, Done(id)')
               /\ Seen(Search(id), go[id].startAt + Cardinality(go[id].page),
                       hist[id].present, Done(id)' \cup go[id].page)
               /\ LastPage(id) => hist[id].present \subseteq Done(id)' \cup go[id].page
      BY <2>4, <3>1 DEF Seen
    <3>3. QED
      BY <1>4, <2>1, <2>4, <3>1, <3>2 DEF CoverSound
  <2>6. QED
    BY <1>4, <2>1, <2>3, <2>5, OneSyncStep
<1>7. QED
  BY <1>3, <1>5, <1>6

-----------------------------------------------------------------------------
(* An error ends the promise of a sync.                                    *)
LEMMA ErrorContract ==
  ASSUME ContractInv, SyncInv', NEW id \in SyncIDs, Return(id, "err"),
         go[id].pc \in Working \ {"launch"},
         UNCHANGED <<manager, outside, database, hist>>
  PROVE  ContractInv'
<1>1. go[id] \in Goroutine /\ go \in [SyncIDs -> Goroutine]
  BY ContractFacts DEF SyncInv, SyncType
<1>2. go' = [go EXCEPT ![id] = [go[id] EXCEPT !.pc = "finish", !.err = "err",
                                              !.issues = go'[id].issues]]
  BY <1>1 DEF Return, Goroutine
<1>3. UNCHANGED <<jira, issueRows, hist>>
  BY DEF outside, database
<1>4. QED
  BY <1>2, <1>3, ReturnContract

(* The steps inside a transaction keep the page and what is stored.        *)
LEMMA TransactionContract ==
  ASSUME ContractInv, SyncInv', NEW id \in SyncIDs,
         \/ SearchFails(id) \/ BeginTx(id) \/ InsertProcessedIssue(id)
         \/ IncrProcessedLookup(id) \/ IncrProcessedAdd(id)
  PROVE  ContractInv'
<1>1. /\ go[id] \in Goroutine /\ job[id] \in Job /\ go \in [SyncIDs -> Goroutine]
      /\ job \in [SyncIDs -> Job]
  BY ContractFacts DEF SyncInv, SyncType, RegistryType
<1>2. CASE Return(id, "err") /\ UNCHANGED <<manager, outside, database, hist>>
           /\ go[id].pc \in {"search", "begin", "insert"}
  BY <1>2, ErrorContract DEF Working
<1>3. CASE /\ go[id].pc \in InPage
           /\ \E pc \in InPage, tx \in SUBSET Issues :
                go' = [go EXCEPT ![id] = [go[id] EXCEPT !.pc = pc, !.tx = tx]]
           /\ \A j \in SyncIDs : j # id => job'[j] = job[j]
           /\ job'[id].projectKey = job[id].projectKey /\ job'[id].total = job[id].total
           /\ UNCHANGED <<outside, database, hist>>
  <2>1. PICK pc \in InPage, tx \in SUBSET Issues :
               go' = [go EXCEPT ![id] = [go[id] EXCEPT !.pc = pc, !.tx = tx]]
    BY <1>3
  <2>2. /\ go'[id].pc = pc /\ go'[id].err = go[id].err
        /\ go'[id].startAt = go[id].startAt /\ go'[id].total = go[id].total
        /\ go'[id].totalSet = go[id].totalSet /\ go'[id].page = go[id].page
        /\ \A j \in SyncIDs : j # id => go'[j] = go[j]
    BY <1>1, <2>1 DEF Goroutine
  <2>3. UNCHANGED <<jira, issueRows, hist>>
    BY <1>3 DEF outside, database
  <2>4. QED
    BY <1>3, <2>2, <2>3, InPageMove
<1>4. CASE SearchFails(id)
  BY <1>2, <1>4 DEF SearchFails
<1>5. CASE BeginTx(id)
  <2>1. CASE go' = [go EXCEPT ![id].pc = "insert"]
    <3>1. go' = [go EXCEPT ![id] = [go[id] EXCEPT !.pc = "insert", !.tx = go[id].tx]]
      BY <1>1, <2>1 DEF Goroutine
    <3>2. go[id].tx \in SUBSET Issues
      BY <1>1 DEF Goroutine
    <3>3. QED
      BY <1>3, <1>5, <3>1, <3>2 DEF BeginTx, manager, InPage
  <2>2. CASE Return(id, "err")
    BY <1>2, <1>5, <2>2 DEF BeginTx
  <2>3. QED
    BY <1>5, <2>1, <2>2 DEF BeginTx
<1>6. CASE InsertProcessedIssue(id)
  <2>1. CASE \E i \in go[id].issues \ go[id].tx :
               go' = [go EXCEPT ![id].pc = "count", ![id].tx = @ \cup {i}]
    <3>1. PICK i \in go[id].issues \ go[id].tx :
               go' = [go EXCEPT ![id].pc = "count", ![id].tx = @ \cup {i}]
      BY <2>1
    <3>2. go' = [go EXCEPT ![id] = [go[id] EXCEPT !.pc = "count",
                                                  !.tx = go[id].tx \cup {i}]]
      BY <1>1, <3>1 DEF Goroutine
    <3>3. go[id].tx \cup {i} \in SUBSET Issues
      BY <1>1, <3>1 DEF Goroutine
    <3>4. QED
      BY <1>3, <1>6, <3>2, <3>3 DEF InsertProcessedIssue, manager, InPage
  <2>2. CASE Return(id, "err")
    BY <1>2, <1>6, <2>2 DEF InsertProcessedIssue
  <2>3. QED
    BY <1>6, <2>1, <2>2 DEF InsertProcessedIssue
<1>7. CASE IncrProcessedLookup(id)
  <2>1. PICK pc \in {"add", "insert"} : go' = [go EXCEPT ![id].pc = pc]
    BY <1>7 DEF IncrProcessedLookup
  <2>2. go' = [go EXCEPT ![id] = [go[id] EXCEPT !.pc = pc, !.tx = go[id].tx]]
    BY <1>1, <2>1 DEF Goroutine
  <2>3. go[id].tx \in SUBSET Issues
    BY <1>1 DEF Goroutine
  <2>4. QED
    BY <1>3, <1>7, <2>2, <2>3 DEF IncrProcessedLookup, manager, InPage
<1>8. CASE IncrProcessedAdd(id)
  <2>1. go' = [go EXCEPT ![id] = [go[id] EXCEPT !.pc = "insert", !.tx = go[id].tx]]
    BY <1>1, <1>8 DEF IncrProcessedAdd, Goroutine
  <2>2. go[id].tx \in SUBSET Issues
    BY <1>1 DEF Goroutine
  <2>3. /\ \A j \in SyncIDs : j # id => job'[j] = job[j]
        /\ job'[id].projectKey = job[id].projectKey /\ job'[id].total = job[id].total
    BY <1>1, <1>8 DEF IncrProcessedAdd, AddProcessed, Job
  <2>4. QED
    BY <1>3, <1>8, <2>1, <2>2, <2>3 DEF IncrProcessedAdd, InPage
<1>9. QED
  BY <1>4, <1>5, <1>6, <1>7, <1>8

(* A commit under a living context stores the whole page.                  *)
LEMMA CommitContract ==
  ASSUME ContractInv, SyncInv', NEW id \in SyncIDs, Commit(id)
  PROVE  ContractInv'
<1>1. /\ go[id] \in Goroutine /\ job[id] \in Job /\ hist[id] \in History
      /\ PageSound(id) /\ LoopSound(id) /\ CountSound(id)
      /\ At(id, "insert") /\ go[id].tx = go[id].issues /\ SyncInv
      /\ Cardinality(go[id].page) \in Nat
      /\ hist \in [SyncIDs -> History] /\ go \in [SyncIDs -> Goroutine]
  BY ContractFacts DEF Commit, ReadyToCommit, SyncInv, SyncType
<1>2. UNCHANGED <<manager, job, jira>>
  BY DEF Commit, manager, outside
<1>3. CASE UNCHANGED <<issueRows, hist>> /\ Return(id, "err")
  BY <1>1, <1>3, ErrorContract DEF Commit, Working, outside, database
<1>4. CASE CtxAlive(id) /\ Persist(id)
  <2>1. Cardinality(go[id].tx) \in Nat /\ Cardinality(go[id].tx) <= Cardinality(go[id].page)
    BY <1>1, FS_Subset, FS_CardinalityType DEF PageSound
  <2>2. /\ hist'[id].present = hist[id].present
        /\ hist'[id].disturbed = hist[id].disturbed
        /\ hist'[id].skipped = hist[id].skipped
        /\ hist'[id].upserts = hist[id].upserts + Cardinality(go[id].tx)
        /\ \A j \in SyncIDs : j # id => hist'[j] = hist[j]
        /\ issueRows' = issueRows \cup go[id].tx
    BY <1>1, <1>4 DEF Persist, History
  <2>3. hist'[id].upserts <= go[id].startAt + Cardinality(go[id].page)
    <3>1. hist[id].upserts <= go[id].startAt /\ hist[id].upserts \in Nat
          /\ go[id].startAt \in Nat
      BY <1>1 DEF LoopSound, Working, History, Goroutine
    <3>2. QED
      BY <1>1, <2>1, <2>2, <3>1
  <2>4. hist[id].skipped \subseteq Done(id)' /\ go[id].page \subseteq Done(id)'
    <3>1. go[id].page \ hist[id].skipped \subseteq go[id].tx
      BY <1>1, <1>4 DEF PageSound, InPage, CtxAlive
    <3>2. QED
      BY <2>2, <3>1 DEF Done
  <2>5. CASE NextPage(id)
    BY <1>1, <1>2, <2>2, <2>3, <2>4, <2>5, NextPageContract DEF InPage
  <2>6. CASE Return(id, "err")
    <3>1. go' = [go EXCEPT ![id] = [go[id] EXCEPT !.pc = "finish", !.err = "err",
                                                  !.issues = go'[id].issues]]
      BY <1>1, <2>6 DEF Return, Goroutine
    <3>2. issueRows \subseteq issueRows'
      BY <2>2
    <3>3. QED
      BY <1>1, <1>2, <2>2, <3>1, <3>2, ReturnContract DEF Working
  <2>7. QED
    BY <1>3, <2>5, <2>6 DEF Commit
<1>5. QED
  BY <1>3, <1>4 DEF Commit

(* The end of the goroutine keeps what it knew when it left the loop.      *)
LEMMA EndContract ==
  ASSUME ContractInv, SyncInv', NEW id \in SyncIDs,
         FailSync(id) \/ CompleteSync(id) \/ SyncJobFinished(id)
  PROVE  ContractInv'
<1>1. /\ go[id] \in Goroutine /\ job[id] \in Job /\ LoopSound(id) /\ CoverSound(id)
      /\ go[id].pc \in {"finish", "metrics"} /\ go \in [SyncIDs -> Goroutine]
      /\ job \in [SyncIDs -> Job]
  BY ContractFacts DEF FailSync, CompleteSync, SyncJobFinished, SyncInv, SyncType,
                       RegistryType
<1>2. PICK pc \in {"metrics", "exited"} : go' = [go EXCEPT ![id].pc = pc]
  BY DEF FailSync, CompleteSync, SyncJobFinished
<1>3. /\ go'[id].pc = pc /\ go'[id].err = go[id].err
      /\ go'[id].startAt = go[id].startAt /\ go'[id].total = go[id].total
      /\ go'[id].totalSet = go[id].totalSet /\ go'[id].page = go[id].page
      /\ \A j \in SyncIDs : j # id => go'[j] = go[j]
  BY <1>1, <1>2 DEF Goroutine
<1>4. \A j \in SyncIDs : j # id => job'[j] = job[j]
  BY <1>1 DEF FailSync, CompleteSync, SyncJobFinished, Fail, Complete, manager
<1>5. UNCHANGED <<jira, issueRows, hist>>
  BY DEF FailSync, CompleteSync, SyncJobFinished, outside, database
<1>6. LoopSound(id)'
  BY <1>1, <1>3, <1>5 DEF LoopSound, Working, InPage, OnPage
<1>7. CoverSound(id)'
  BY <1>1, <1>3, <1>5 DEF CoverSound, Done, Working, InPage, OnPage
<1>8. QED
  BY <1>3, <1>4, <1>5, <1>6, <1>7, OneSyncStep

-----------------------------------------------------------------------------
(* A new sync has seen and promised nothing.                               *)
LEMMA StartSyncContract ==
  ASSUME ContractInv, SyncInv', NEW r \in Callers, NEW id \in SyncIDs, StartSync(r, id)
  PROVE  ContractInv'
<1>1. /\ go[id] \in Goroutine /\ hist[id] \in History /\ JobMatches(id)
      /\ LoopSound(id) /\ CountSound(id) /\ go \in [SyncIDs -> Goroutine]
      /\ job \in [SyncIDs -> Job] /\ ~Born(id)
  BY ContractFacts DEF StartSync, StartNew, SyncInv, SyncType, RegistryType
<1>2. At(id, "none") /\ hist[id].present = {} /\ hist[id].upserts = 0
      /\ go[id].startAt = 0 /\ ~go[id].totalSet
  BY <1>1 DEF JobMatches, Born, LoopSound, CountSound
<1>3. /\ go'[id] = [go[id] EXCEPT !.pc = "launch"]
      /\ \A j \in SyncIDs : j # id => go'[j] = go[j] /\ job'[j] = job[j]
  BY <1>1 DEF StartSync, StartNew, Goroutine
<1>4. UNCHANGED <<jira, issueRows, hist>>
  BY DEF StartSync, outside, database
<1>5. LoopSound(id)'
  BY <1>1, <1>2, <1>3, <1>4 DEF LoopSound, Goroutine, Working, InPage, OnPage
<1>6. CoverSound(id)'
  BY <1>1, <1>2, <1>3, <1>4 DEF CoverSound, Seen, Goroutine, Working, InPage, OnPage
<1>7. QED
  BY <1>3, <1>4, <1>5, <1>6, OneSyncStep

(* go func only starts the loop.                                           *)
LEMMA LaunchSyncContract ==
  ASSUME ContractInv, SyncInv', NEW r \in Callers, LaunchSync(r)
  PROVE  ContractInv'
<1>1. PICK id \in SyncIDs : id = rpc[r].id /\ At(id, "launch")
  BY DEF ContractInv, SyncInv, CallInv, CallSound, LaunchSync
<1>2. /\ go[id] \in Goroutine /\ LoopSound(id) /\ CoverSound(id)
      /\ go \in [SyncIDs -> Goroutine]
  BY ContractFacts DEF SyncInv, SyncType
<1>3. /\ go'[id] = [go[id] EXCEPT !.pc = "search"]
      /\ \A j \in SyncIDs : j # id => go'[j] = go[j]
  BY <1>1, <1>2 DEF LaunchSync, Goroutine
<1>4. UNCHANGED <<job, jira, issueRows, hist>>
  BY DEF LaunchSync, manager, outside, database
<1>5. LoopSound(id)'
  BY <1>1, <1>2, <1>3, <1>4 DEF LoopSound, Goroutine, Working, InPage, OnPage
<1>6. CoverSound(id)'
  <2>1. Done(id)' = Done(id) /\ Search(id)' = Search(id)
    BY <1>4 DEF Done, Search
  <2>2. QED
    BY <1>1, <1>2, <1>3, <1>4, <2>1 DEF CoverSound, Goroutine, Working, InPage, OnPage
<1>7. QED
  BY <1>3, <1>4, <1>5, <1>6, OneSyncStep

(* A new issue was not there from the start, and moves the others right.   *)
LEMMA CreateIssueContract ==
  ASSUME ContractInv, SyncInv', NEW k \in Keys, CreateIssue(k)
  PROVE  ContractInv'
<1>1. jira \in [Keys -> Seq(Issues)] /\ jira[k] \in Seq(Issues) /\ IsInjective(jira[k])
  BY DEF ContractInv, JiraInv, SyncInv, SyncType
<1>2. PICK i \in Issues, n \in 1..(Len(jira[k]) + 1) :
        /\ jira' = [jira EXCEPT ![k] = InsertAt(@, n, i)]
        /\ i \notin ToSet(jira[k])
  BY DEF CreateIssue
<1>3. UNCHANGED <<go, job, hist, issueRows>>
  BY DEF CreateIssue, manager, database
<1>4. /\ jira'[k] = InsertAt(jira[k], n, i)
      /\ \A p \in Keys : p # k => jira'[p] = jira[p]
  BY <1>1, <1>2
<1>5. JiraInv'
  <2>1. IsInjective(jira'[k])
    BY <1>1, <1>2, <1>4, InsertAtInjective
  <2>2. QED
    BY <1>4, <2>1 DEF ContractInv, JiraInv
<1>6. ASSUME NEW id \in SyncIDs PROVE LoopSound(id)' /\ CoverSound(id)'
  <2>1. /\ LoopSound(id) /\ CoverSound(id) /\ JobMatches(id) /\ SyncInv
        /\ go[id] \in Goroutine /\ Cardinality(go[id].page) \in Nat
        /\ go[id].startAt \in Nat
    BY ContractFacts DEF Goroutine
  <2>2. LoopSound(id)'
    BY <1>3, <2>1 DEF LoopSound
  <2>3. Done(id)' = Done(id) /\ (LastPage(id)' <=> LastPage(id))
    BY <1>3 DEF Done, LastPage
  <2>4. CASE go[id].pc \notin Working
    BY <1>3, <2>1, <2>2, <2>3, <2>4 DEF CoverSound, OnPage, InPage, Working
  <2>5. CASE go[id].pc \in Working
    <3>1. job[id].projectKey \in Keys
      BY <2>1, <2>5 DEF JobMatches, Working, SyncInv, SyncType
    <3>2. CASE job[id].projectKey # k
      <4>1. Search(id)' = Search(id)
        BY <1>3, <1>4, <3>1, <3>2 DEF Search
      <4>2. QED
        BY <1>3, <2>1, <2>2, <2>3, <4>1 DEF CoverSound
    <3>3. CASE job[id].projectKey = k
      <4> DEFINE s == jira[k]
                 t == InsertAt(s, n, i)
                 P == hist[id].present
      <4>1. Search(id) = s /\ Search(id)' = t
        BY <1>3, <1>4, <3>3 DEF Search
      <4>2. s \in Seq(Issues) /\ P \subseteq ToSet(s) /\ i \notin ToSet(s)
        BY <1>1, <1>2, <2>1, <2>5, <4>1 DEF CoverSound
      <4>3. ToSet(s) \subseteq ToSet(t)
        BY <4>2, InsertAtElements
      <4>4. ASSUME NEW x \in Int, NEW S, Seen(s, x, P, S) PROVE Seen(t, x, P, S)
        <5> HIDE DEF s, P
        <5>1. n \in 1..(Len(s) + 1) /\ i \notin P
          BY <4>2 DEF s
        <5>2. QED
          BY <4>2, <4>4, <5>1, SeenInsert
      <4> HIDE DEF s, t, P
      <4>5. go[id].startAt \in Int /\ go[id].startAt + Cardinality(go[id].page) \in Int
        BY <2>1
      <4>6. /\ ~hist[id].disturbed => Seen(t, go[id].startAt, P, Done(id))
            /\ go[id].pc \in OnPage /\ ~hist[id].disturbed =>
                 Seen(t, go[id].startAt + Cardinality(go[id].page), P,
                      Done(id) \cup go[id].page)
        BY <2>1, <2>5, <4>1, <4>4, <4>5 DEF CoverSound, P
      <4>7. QED
        BY <1>3, <2>1, <2>2, <2>3, <4>1, <4>2, <4>3, <4>6 DEF CoverSound, P
    <3>4. QED
      BY <3>2, <3>3
  <2>6. QED
    BY <2>2, <2>4, <2>5
<1>7. QED
  BY <1>5, <1>6 DEF ContractInv, LoopInv, CoverInv

(* A deletion only concerns the running sync of its project, which loses   *)
(* its promise.                                                            *)
LEMMA DeleteIssueContract ==
  ASSUME ContractInv, SyncInv', NEW k \in Keys, DeleteIssue(k)
  PROVE  ContractInv'
<1>1. /\ jira \in [Keys -> Seq(Issues)] /\ jira[k] \in Seq(Issues)
      /\ IsInjective(jira[k]) /\ hist \in [SyncIDs -> History]
  BY DEF ContractInv, JiraInv, SyncInv, SyncType
<1>2. PICK n \in 1..Len(jira[k]) :
        /\ jira' = [jira EXCEPT ![k] = RemoveAt(@, n)]
        /\ hist' = [id \in SyncIDs |->
                      IF byKey[k] = id
                        THEN [hist[id] EXCEPT !.present = @ \ {jira[k][n]},
                                              !.disturbed = TRUE]
                        ELSE hist[id]]
  BY DEF DeleteIssue
<1>3. UNCHANGED <<go, job, issueRows>>
  BY DEF DeleteIssue, manager, database
<1>4. /\ jira'[k] = RemoveAt(jira[k], n)
      /\ \A p \in Keys : p # k => jira'[p] = jira[p]
  BY <1>1, <1>2
<1>5. JiraInv'
  <2>1. IsInjective(jira'[k])
    BY <1>1, <1>2, <1>4, RemoveAtInjective
  <2>2. QED
    BY <1>4, <2>1 DEF ContractInv, JiraInv
<1>6. ASSUME NEW id \in SyncIDs PROVE LoopSound(id)' /\ CoverSound(id)'
  <2>1. /\ LoopSound(id) /\ CoverSound(id) /\ JobMatches(id) /\ SyncInv
        /\ go[id] \in Goroutine /\ hist[id] \in History
    BY ContractFacts
  <2>2. CASE byKey[k] = id
    <3>1. go[id].pc \in Working /\ job[id].projectKey = k
      BY <2>1, <2>2 DEF JobMatches
    <3>2. /\ hist'[id].present = hist[id].present \ {jira[k][n]}
          /\ hist'[id].disturbed = TRUE /\ hist'[id].upserts = hist[id].upserts
      BY <1>2, <2>1, <2>2 DEF History
    <3>3. LoopSound(id)'
      BY <1>3, <2>1, <3>1, <3>2 DEF LoopSound, Working
    <3>4. hist'[id].present \subseteq ToSet(Search(id)')
      <4>1. hist[id].present \subseteq ToSet(jira[k])
        BY <2>1, <3>1 DEF CoverSound, Search
      <4>2. ToSet(jira[k]) \ {jira[k][n]} \subseteq ToSet(RemoveAt(jira[k], n))
        BY <1>1, <1>2, RemoveAtElements
      <4>3. Search(id)' = RemoveAt(jira[k], n)
        BY <1>3, <1>4, <3>1 DEF Search
      <4>4. QED
        BY <3>2, <4>1, <4>2, <4>3
    <3>5. CoverSound(id)'
      BY <3>2, <3>4 DEF CoverSound
    <3>6. QED
      BY <3>3, <3>5
  <2>3. CASE byKey[k] # id
    <3>1. hist'[id] = hist[id]
      BY <1>2, <2>3
    <3>2. LoopSound(id)'
      BY <1>3, <2>1, <3>1 DEF LoopSound
    <3>3. Done(id)' = Done(id) /\ (LastPage(id)' <=> LastPage(id))
      BY <1>3, <3>1 DEF Done, LastPage
    <3>4. go[id].pc \in Working => Search(id)' = Search(id)
      <4>1. go[id].pc \in Working => job[id].projectKey \in Keys /\ job[id].projectKey # k
        BY <2>1, <2>3 DEF JobMatches, Working, SyncInv, SyncType
      <4>2. QED
        BY <1>3, <1>4, <4>1 DEF Search
    <3>5. CoverSound(id)'
      BY <1>3, <2>1, <3>1, <3>3, <3>4 DEF CoverSound, OnPage, InPage, Working
    <3>6. QED
      BY <3>2, <3>5
  <2>4. QED
    BY <2>2, <2>3
<1>7. QED
  BY <1>5, <1>6 DEF ContractInv, LoopInv, CoverInv

-----------------------------------------------------------------------------
(* Every step of the service preserves the invariant.                      *)
LEMMA NextContract == ContractInv /\ [Next]_vars => ContractInv'
<1> SUFFICES ASSUME ContractInv, [Next]_vars PROVE ContractInv'
  OBVIOUS
<1>1. SyncInv'
  BY NextSync DEF ContractInv
<1>2. CASE UNCHANGED vars
  BY <1>1, <1>2, NoSyncStep DEF vars, manager, outside, database
<1>3. ASSUME NEW r \in Callers, DownloadProject(r) \/ Handler(r) PROVE ContractInv'
  <2>1. CASE DownloadProject(r)
    BY <1>1, <2>1, NoSyncStep DEF DownloadProject, manager, outside, database
  <2>2. CASE EnsureProject(r)
    BY <1>1, <2>2, NoSyncStep DEF EnsureProject, manager, outside
  <2>3. CASE JoinSync(r)
    BY <1>1, <2>3, NoSyncStep DEF JoinSync, StartExisting, outside, database
  <2>4. CASE LaunchSync(r)
    BY <1>1, <2>4, LaunchSyncContract
  <2>5. CASE \E id \in SyncIDs : StartSync(r, id)
    BY <1>1, <2>5, StartSyncContract
  <2>6. QED
    BY <1>3, <2>1, <2>2, <2>3, <2>4, <2>5 DEF Handler
<1>4. ASSUME NEW id \in SyncIDs, Sync(id) PROVE ContractInv'
  BY <1>1, <1>4, SearchIssuesContract, TransactionContract, SetTotalLookupContract,
     SetTotalStoreContract, EmptyPageContract, FetchPageIssuesContract,
     CommitContract, EndContract DEF Sync
<1>5. ASSUME NEW id \in SyncIDs, Timeout(id) PROVE ContractInv'
  BY <1>1, <1>5, NoSyncStep DEF Timeout, manager, outside, database
<1>6. ASSUME NEW k \in ToSet(Listing), CreateIssue(k) \/ DeleteIssue(k)
      PROVE  ContractInv'
  <2>1. k \in Keys
    BY ToSetFinite
  <2>2. QED
    BY <1>1, <1>6, <2>1, CreateIssueContract, DeleteIssueContract
<1>7. CASE Clock
  BY <1>1, <1>7, NoSyncStep DEF Clock, Tick, registry, outside, database
<1>8. QED
  BY <1>2, <1>3, <1>4, <1>5, <1>6, <1>7 DEF Next

(* ContractInv holds in every reachable state of the service.              *)
THEOREM ContractInvariance == Safety => []ContractInv
<1>1. Init => ContractInv
  BY InitContract
<1>2. ContractInv /\ [Next]_vars => ContractInv'
  BY NextContract
<1>3. QED
  BY <1>1, <1>2, PTL DEF Safety

(* A completed sync has stored every issue that was in its project from    *)
(* its first search to its end, but for those whose own fetch failed, as   *)
(* long as nothing was deleted meanwhile: neither issues created between   *)
(* two pages, nor capped or empty pages, nor a timeout that truncates a    *)
(* page make it skip one.                                                  *)
THEOREM CompletedMeansCopied == Safety => []CompletedCovers
<1>1. ContractInv => CompletedCovers
  <2> SUFFICES ASSUME ContractInv, NEW id \in SyncIDs,
                      job[id].state = JobStateCompleted, ~hist[id].disturbed
               PROVE  Covered(id)
    BY DEF CompletedCovers
  <2>1. JobMatches(id) /\ CoverSound(id) /\ go[id] \in Goroutine
    BY ContractFacts
  <2>2. go[id].pc \in {"metrics", "exited"} /\ go[id].err = "nil"
    BY <2>1 DEF JobMatches, Goroutine
  <2>3. QED
    BY <2>1, <2>2 DEF CoverSound, Covered, Done
<1>2. QED
  BY <1>1, ContractInvariance, PTL

-----------------------------------------------------------------------------
(* sync.go keeps the contract of module ManagerSpec.  Most steps of a      *)
(* goroutine do not concern the registry: Quiet are the program points     *)
(* between two calls to it.                                                *)
Quiet == Working \ {"storeTotal", "add"}

(* Where the contract sees a goroutine, from its program counter.          *)
LEMMA RunnerCases ==
  ASSUME NEW id \in SyncIDs, go[id] \in Goroutine
  PROVE  /\ At(id, "none") => Runner(id) = "none"
         /\ go[id].pc \in {"metrics", "exited"} => Runner(id) = "exited"
         /\ At(id, "storeTotal") => Runner(id) = "total"
         /\ At(id, "add") => Runner(id) = "incr"
         /\ go[id].pc \in Quiet /\ go[id].totalSet => Runner(id) = "counting"
         /\ go[id].pc \in Quiet /\ ~go[id].totalSet => Runner(id) = "fresh"
BY DEF Runner, Quiet, Working, Goroutine

(* The same after a step.                                                  *)
LEMMA RunnerCasesNext ==
  ASSUME NEW id \in SyncIDs, go'[id] \in Goroutine
  PROVE  /\ go'[id].pc \in {"metrics", "exited"} => Runner(id)' = "exited"
         /\ go'[id].pc = "storeTotal" => Runner(id)' = "total"
         /\ go'[id].pc = "add" => Runner(id)' = "incr"
         /\ go'[id].pc \in Quiet /\ go'[id].totalSet => Runner(id)' = "counting"
         /\ go'[id].pc \in Quiet /\ ~go'[id].totalSet => Runner(id)' = "fresh"
BY DEF Runner, Quiet, Working, Goroutine

(* What a step of one goroutine does to the mapped runners and calls.      *)
LEMMA MappedMove ==
  ASSUME NEW id \in SyncIDs, NEW pc, NEW n,
         \A j \in SyncIDs : j # id => go'[j] = go[j] /\ job'[j] = job[j],
         Runner(id)' = pc, Calls(id)' = n
  PROVE  /\ [j \in SyncIDs |-> Runner(j)]' =
              [[j \in SyncIDs |-> Runner(j)] EXCEPT ![id] = pc]
         /\ [j \in SyncIDs |-> Calls(j)]' =
              [[j \in SyncIDs |-> Calls(j)] EXCEPT ![id] = n]
         /\ n = Calls(id) => [j \in SyncIDs |-> Calls(j)]' = [j \in SyncIDs |-> Calls(j)]
<1>1. \A j \in SyncIDs : j # id => Runner(j)' = Runner(j) /\ Calls(j)' = Calls(j)
  BY DEF Runner, Calls
<1>2. QED
  BY <1>1

(* A goroutine that moves between two quiet points does not concern the    *)
(* registry.                                                               *)
LEMMA QuietRefines ==
  ASSUME UNCHANGED manager, NEW id \in SyncIDs,
         go[id] \in Goroutine, go'[id] \in Goroutine,
         \A j \in SyncIDs : j # id => go'[j] = go[j],
         go'[id].totalSet = go[id].totalSet,
         \/ go[id].pc \in Quiet /\ go'[id].pc \in Quiet
         \/ go[id].pc \in {"metrics", "exited"} /\ go'[id].pc \in {"metrics", "exited"}
  PROVE  UNCHANGED Registry!vars
<1>1. Runner(id)' = Runner(id)
  BY RunnerCases, RunnerCasesNext DEF Goroutine
<1>2. Calls(id)' = Calls(id)
  BY DEF Calls, Quiet, manager
<1>3. \A j \in SyncIDs : Runner(j)' = Runner(j) /\ Calls(j)' = Calls(j)
  BY <1>1, <1>2 DEF Runner, Calls, manager
<1>4. QED
  BY <1>3 DEF Registry!vars, manager

(* Neither does a step that moves no goroutine.                            *)
LEMMA StillRefines ==
  ASSUME UNCHANGED <<manager, go>>
  PROVE  UNCHANGED Registry!vars
<1>1. \A j \in SyncIDs : Runner(j)' = Runner(j) /\ Calls(j)' = Calls(j)
  BY DEF Runner, Calls, manager
<1>2. QED
  BY <1>1 DEF Registry!vars, manager

(* The service starts with an empty registry and no runner.                *)
LEMMA InitRefines == Init => Registry!Init
<1> SUFFICES ASSUME Init PROVE Registry!Init
  OBVIOUS
<1>1. \A id \in SyncIDs : Runner(id) = "none" /\ Calls(id) = 0
  BY DEF Init, NewManager, NewJob, Runner, Calls
<1>2. QED
  BY <1>1 DEF Init, NewManager, NewJob, NotFound, Registry!Init, Registry!NewManager,
              Registry!NewJob, Registry!NotFound, NoKey, NoMsg, Registry!NoKey,
              Registry!NoMsg, Registry!JobStateNone

(* The steps that call the registry, one lemma each.                       *)
LEMMA StartRefines ==
  ASSUME ContractInv, ContractInv', NEW r \in Callers, NEW id \in SyncIDs,
         StartSync(r, id)
  PROVE  Registry!Next
<1>1. rpc[r].key \in Keys
  BY DEF StartSync, ContractInv, SyncInv, CallInv, CallSound
<1>2. /\ go[id] \in Goroutine /\ JobMatches(id) /\ CountSound(id) /\ LoopSound(id)
      /\ go \in [SyncIDs -> Goroutine] /\ job \in [SyncIDs -> Job]
  BY ContractFacts DEF SyncInv, SyncType, RegistryType
<1>3. go'[id] \in Goroutine
  BY DEF ContractInv, SyncInv, SyncType
<1>4. At(id, "none") /\ ~go[id].totalSet /\ job[id].processed = 0
  BY <1>2 DEF StartSync, StartNew, Born, JobMatches, CountSound, LoopSound
<1>5. /\ go'[id] = [go[id] EXCEPT !.pc = "launch"]
      /\ job'[id].processed = 0
      /\ \A j \in SyncIDs : j # id => go'[j] = go[j] /\ job'[j] = job[j]
  BY <1>2 DEF StartSync, StartNew, NewJob
<1>6. Runner(id)' = "fresh"
  BY <1>2, <1>3, <1>4, <1>5, RunnerCasesNext DEF Goroutine, Quiet, Working
<1>7. Calls(id)' = Calls(id)
  BY <1>2, <1>4, <1>5 DEF Calls, Goroutine
<1>8. Registry!StartSync(rpc[r].key, id)
  <2>1. Registry!StartNew(rpc[r].key, id)
    BY DEF StartSync, StartNew, Born, NewJob, evictExpiredLocked, Expired,
           Registry!StartNew, Registry!Born, Registry!NewJob,
           Registry!evictExpiredLocked, Registry!Expired, Registry!JobStateNone,
           Registry!JobStateRunning, NoMsg, Registry!NoMsg
  <2>2. QED
    BY <1>5, <1>6, <1>7, <2>1, MappedMove DEF Registry!StartSync, Registry!Goto
<1>9. QED
  BY <1>1, <1>8 DEF Registry!Next

(* A call that joins a running sync only sweeps the registry.              *)
LEMMA JoinRefines ==
  ASSUME ContractInv, NEW r \in Callers, JoinSync(r)
  PROVE  Registry!Next
<1>1. rpc[r].key \in Keys
  BY DEF JoinSync, ContractInv, SyncInv, CallInv, CallSound
<1>2. \A j \in SyncIDs : Runner(j)' = Runner(j) /\ Calls(j)' = Calls(j)
  BY DEF JoinSync, StartExisting, Runner, Calls
<1>3. Registry!StartExisting(rpc[r].key)
  BY DEF JoinSync, StartExisting, evictExpiredLocked, Expired,
         Registry!StartExisting, Registry!evictExpiredLocked, Registry!Expired,
         Registry!JobStateRunning
<1>4. Registry!JoinSync(rpc[r].key)
  BY <1>2, <1>3 DEF Registry!JoinSync
<1>5. QED
  BY <1>1, <1>4 DEF Registry!Next

(* SetTotal finds its job, since a running job is never evicted, and is    *)
(* called by a runner that has not set the total yet.                      *)
LEMMA TotalLookupRefines ==
  ASSUME ContractInv, ContractInv', NEW id \in SyncIDs, SetTotalLookup(id)
  PROVE  Registry!Next
<1>1. /\ go[id] \in Goroutine /\ JobMatches(id) /\ LoopSound(id)
      /\ go \in [SyncIDs -> Goroutine] /\ mu = Free
  BY ContractFacts DEF SyncInv, SyncType, RegistryType
<1>2. go'[id] \in Goroutine
  BY DEF ContractInv, SyncInv, SyncType
<1>3. Lookup(id) /\ Runner(id) = "fresh"
  BY <1>1, RunnerCases DEF SetTotalLookup, Lookup, JobMatches, LoopSound, Quiet, Working
<1>4. UNCHANGED manager
  BY DEF SetTotalLookup
<1>5. /\ go'[id] = [go[id] EXCEPT !.pc = "storeTotal", !.totalSet = TRUE]
      /\ \A j \in SyncIDs : j # id => go'[j] = go[j] /\ job'[j] = job[j]
  BY <1>1, <1>3, <1>4 DEF SetTotalLookup, manager, Goroutine
<1>6. Runner(id)' = "total"
  BY <1>1, <1>2, <1>5, RunnerCasesNext, ZenonT(60) DEF Goroutine
<1>7. Calls(id)' = Calls(id)
  BY <1>1, <1>4, <1>5 DEF Calls, manager, Goroutine, SetTotalLookup
<1>8. Registry!SetTotalLookup(id)
  <2>1. Registry!Lookup(id)
    BY <1>3 DEF Lookup, Registry!Lookup
  <2>2. QED
    BY <1>1, <1>3, <1>4, <1>5, <1>6, <1>7, <2>1, MappedMove
       DEF Registry!SetTotalLookup, Registry!Goto, Registry!registry, manager
<1>9. QED
  BY <1>8 DEF Registry!Next

(* The total stored is at most the number of issues there are.             *)
LEMMA TotalStoreRefines ==
  ASSUME ContractInv, ContractInv', NEW id \in SyncIDs, SetTotalStore(id)
  PROVE  Registry!Next
<1>1. /\ go[id] \in Goroutine /\ LoopSound(id) /\ Cardinality(Issues) \in Nat
      /\ go \in [SyncIDs -> Goroutine] /\ job \in [SyncIDs -> Job]
  BY ContractFacts DEF SyncInv, SyncType, RegistryType
<1>2. go'[id] \in Goroutine
  BY DEF ContractInv, SyncInv, SyncType
<1>3. go[id].total \in 0..Cardinality(Issues)
  BY <1>1 DEF LoopSound, Goroutine
<1>4. Runner(id) = "total" /\ go[id].totalSet
  BY <1>1, RunnerCases DEF SetTotalStore, LoopSound
<1>5. /\ go'[id] = [go[id] EXCEPT !.pc = "answer"]
      /\ job'[id].processed = job[id].processed
      /\ \A j \in SyncIDs : j # id => go'[j] = go[j] /\ job'[j] = job[j]
  BY <1>1 DEF SetTotalStore, StoreTotal, Job
<1>6. Runner(id)' = "counting"
  BY <1>1, <1>2, <1>4, <1>5, RunnerCasesNext DEF Goroutine, Quiet, Working
<1>7. Calls(id)' = Calls(id)
  BY <1>1, <1>5 DEF Calls, Goroutine, SetTotalStore
<1>8. Registry!SetTotalStore(id)
  <2>1. Registry!StoreTotal(id, go[id].total)
    BY DEF SetTotalStore, StoreTotal, Registry!StoreTotal
  <2>2. QED
    BY <1>3, <1>4, <1>5, <1>6, <1>7, <2>1, MappedMove
       DEF Registry!SetTotalStore, Registry!Goto
<1>9. QED
  BY <1>8 DEF Registry!Next

(* The count stays below the issues there are: what was committed lies     *)
(* before startAt, and the transaction holds issues of the page only.      *)
LEMMA IncrLookupRefines ==
  ASSUME ContractInv, ContractInv', NEW id \in SyncIDs, IncrProcessedLookup(id)
  PROVE  Registry!Next
<1>1. /\ go[id] \in Goroutine /\ JobMatches(id) /\ LoopSound(id)
      /\ PageSound(id) /\ CountSound(id) /\ hist[id] \in History /\ job[id] \in Job
      /\ Cardinality(go[id].page) \in Nat /\ Cardinality(Issues) \in Nat
      /\ go \in [SyncIDs -> Goroutine] /\ mu = Free
  BY ContractFacts DEF SyncInv, SyncType, RegistryType
<1>2. go'[id] \in Goroutine
  BY DEF ContractInv, SyncInv, SyncType
<1>3. Lookup(id) /\ Runner(id) = "counting" /\ go[id].totalSet /\ job[id].total > 0
  BY <1>1, RunnerCases
     DEF IncrProcessedLookup, Lookup, JobMatches, LoopSound, InPage, Quiet, Working
<1>4. UNCHANGED manager
  BY DEF IncrProcessedLookup
<1>5. /\ go'[id] = [go[id] EXCEPT !.pc = "add"]
      /\ \A j \in SyncIDs : j # id => go'[j] = go[j] /\ job'[j] = job[j]
  BY <1>1, <1>3, <1>4 DEF IncrProcessedLookup, manager
<1>6. Runner(id)' = "incr"
  BY <1>1, <1>2, <1>5, RunnerCasesNext DEF Goroutine
<1>7. Calls(id)' = Calls(id) + 1 /\ Calls(id) = job[id].processed
  BY <1>1, <1>4, <1>5, SMTT(30) DEF Calls, manager, Goroutine, Job, IncrProcessedLookup
<1>8. job[id].processed < Cardinality(Issues)
  <2>1. go[id].tx \subseteq go[id].page /\ IsFiniteSet(go[id].page)
    BY <1>1 DEF PageSound
  <2>2. Cardinality(go[id].tx) <= Cardinality(go[id].page) /\ Cardinality(go[id].tx) \in Nat
    BY <2>1, FS_Subset, FS_CardinalityType
  <2>3. job[id].processed + 1 = hist[id].upserts + Cardinality(go[id].tx)
    BY <1>1 DEF IncrProcessedLookup, CountSound
  <2>4. /\ hist[id].upserts <= go[id].startAt
        /\ go[id].startAt + Cardinality(go[id].page) <= Cardinality(Issues)
    BY <1>1 DEF IncrProcessedLookup, LoopSound, InPage, OnPage, Working
  <2>5. hist[id].upserts \in Nat /\ go[id].startAt \in Nat /\ job[id].processed \in Nat
    BY <1>1 DEF History, Goroutine, Job
  <2>6. QED
    BY <1>1, <2>2, <2>3, <2>4, <2>5
<1>9. Registry!IncrProcessedLookup(id)
  <2>1. Registry!Lookup(id)
    BY <1>3 DEF Lookup, Registry!Lookup
  <2>2. QED
    BY <1>1, <1>3, <1>4, <1>5, <1>6, <1>7, <1>8, <2>1, MappedMove
       DEF Registry!IncrProcessedLookup, Registry!Goto, Registry!registry, manager
<1>10. QED
  BY <1>9 DEF Registry!Next

(* A counted issue becomes visible in the registry.                        *)
LEMMA IncrAddRefines ==
  ASSUME ContractInv, ContractInv', NEW id \in SyncIDs, IncrProcessedAdd(id)
  PROVE  Registry!Next
<1>1. /\ go[id] \in Goroutine /\ LoopSound(id) /\ job[id] \in Job
      /\ go \in [SyncIDs -> Goroutine] /\ job \in [SyncIDs -> Job]
  BY ContractFacts DEF SyncInv, SyncType, RegistryType
<1>2. go'[id] \in Goroutine
  BY DEF ContractInv, SyncInv, SyncType
<1>3. Runner(id) = "incr" /\ go[id].totalSet
  BY <1>1, RunnerCases DEF IncrProcessedAdd, LoopSound, InPage
<1>4. /\ go'[id] = [go[id] EXCEPT !.pc = "insert"]
      /\ job'[id].processed = job[id].processed + 1
      /\ \A j \in SyncIDs : j # id => go'[j] = go[j] /\ job'[j] = job[j]
  BY <1>1 DEF IncrProcessedAdd, AddProcessed, Job
<1>5. Runner(id)' = "counting"
  BY <1>1, <1>2, <1>3, <1>4, RunnerCasesNext DEF Goroutine, Quiet, Working
<1>6. Calls(id)' = Calls(id)
  BY <1>1, <1>4 DEF Calls, Goroutine, Job, IncrProcessedAdd
<1>7. Registry!IncrProcessedAdd(id)
  <2>1. Registry!AddProcessed(id)
    BY DEF IncrProcessedAdd, AddProcessed, Registry!AddProcessed
  <2>2. QED
    BY <1>3, <1>4, <1>5, <1>6, <2>1, MappedMove
       DEF Registry!IncrProcessedAdd, Registry!Goto
<1>8. QED
  BY <1>7 DEF Registry!Next

(* Complete and Fail are called once, by a runner between two calls, and   *)
(* Complete only after the total was set.                                  *)
LEMMA EndRefines ==
  ASSUME ContractInv, ContractInv', NEW id \in SyncIDs,
         FailSync(id) \/ CompleteSync(id)
  PROVE  Registry!Next
<1>1. /\ go[id] \in Goroutine /\ LoopSound(id) /\ job[id] \in Job
      /\ go \in [SyncIDs -> Goroutine] /\ job \in [SyncIDs -> Job]
  BY ContractFacts DEF SyncInv, SyncType, RegistryType
<1>2. go'[id] \in Goroutine
  BY DEF ContractInv, SyncInv, SyncType
<1>3. /\ Runner(id) \in {"fresh", "counting"}
      /\ CompleteSync(id) => Runner(id) = "counting"
  BY <1>1, RunnerCases
     DEF FailSync, CompleteSync, LoopSound, Goroutine, Quiet, Working
<1>4. /\ go'[id] = [go[id] EXCEPT !.pc = "metrics"]
      /\ job'[id].processed = job[id].processed
      /\ \A j \in SyncIDs : j # id => go'[j] = go[j] /\ job'[j] = job[j]
  <2>1. go' = [go EXCEPT ![id].pc = "metrics"]
    BY DEF FailSync, CompleteSync
  <2>2. \/ job' = job
        \/ job' = [job EXCEPT ![id] = [@ EXCEPT !.state = JobStateFailed,
                                               !.errMsg = ErrMsg,
                                               !.finishedAt = now]]
        \/ job' = [job EXCEPT ![id] = [@ EXCEPT !.state = JobStateCompleted,
                                               !.finishedAt = now]]
    BY DEF FailSync, CompleteSync, Fail, Complete
  <2>3. /\ job'[id].processed = job[id].processed
        /\ \A j \in SyncIDs : j # id => job'[j] = job[j]
    BY <1>1, <2>2, ZenonT(60) DEF Job
  <2>4. QED
    BY <1>1, <2>1, <2>3
<1>5. Runner(id)' = "exited"
  BY <1>1, <1>2, <1>4, RunnerCasesNext DEF Goroutine
<1>6. Calls(id)' = Calls(id)
  BY <1>1, <1>4 DEF Calls, Goroutine, FailSync, CompleteSync
<1>7. CASE FailSync(id)
  <2>1. Registry!Fail(id)
    BY <1>7 DEF FailSync, Fail, Registry!Fail, Registry!JobStateFailed, ErrMsg,
                Registry!ErrMsg
  <2>2. Registry!FailSync(id)
    BY <1>3, <1>4, <1>5, <1>6, <2>1, MappedMove DEF Registry!FailSync, Registry!Goto
  <2>3. QED
    BY <2>2 DEF Registry!Next
<1>8. CASE CompleteSync(id)
  <2>1. Registry!Complete(id)
    BY <1>8 DEF CompleteSync, Complete, Registry!Complete, Registry!JobStateCompleted
  <2>2. Registry!CompleteSync(id)
    BY <1>3, <1>4, <1>5, <1>6, <1>8, <2>1, MappedMove
       DEF Registry!CompleteSync, Registry!Goto
  <2>3. QED
    BY <2>2 DEF Registry!Next
<1>9. QED
  BY <1>7, <1>8

(* A step between two calls to the registry leaves it alone.               *)
LEMMA QuietSyncRefines ==
  ASSUME ContractInv, ContractInv', NEW id \in SyncIDs,
         \/ SearchIssues(id) \/ SearchFails(id) \/ EmptyPage(id)
         \/ FetchPageIssues(id) \/ BeginTx(id) \/ InsertProcessedIssue(id)
         \/ Commit(id) \/ SyncJobFinished(id)
  PROVE  UNCHANGED Registry!vars
<1>1. go[id] \in Goroutine /\ go \in [SyncIDs -> Goroutine] /\ LoopSound(id)
  BY ContractFacts DEF SyncInv, SyncType
<1>2. go'[id] \in Goroutine
  BY DEF ContractInv, SyncInv, SyncType
<1>3. UNCHANGED manager
  BY DEF SearchIssues, SearchFails, EmptyPage, FetchPageIssues, BeginTx,
         InsertProcessedIssue, Commit, SyncJobFinished
<1>4. \A j \in SyncIDs : j # id => go'[j] = go[j]
  BY <1>1 DEF SearchIssues, SearchFails, EmptyPage, FetchPageIssues, BeginTx,
              InsertProcessedIssue, Commit, SyncJobFinished, NextPage, Return
<1>5. CASE SearchIssues(id)
  <2>1. PICK page \in Pages(job[id].projectKey, go[id].startAt) :
          go' = [go EXCEPT
                   ![id].pc = IF go[id].totalSet THEN "answer" ELSE "setTotal",
                   ![id].total = Len(jira[job[id].projectKey]),
                   ![id].page = ToSet(page),
                   ![id].issues = {}, ![id].tx = {}]
    BY <1>5 DEF SearchIssues
  <2>2. /\ go'[id].pc \in {"answer", "setTotal"}
        /\ go'[id].totalSet = go[id].totalSet
    BY <1>1, <2>1 DEF Goroutine
  <2>3. QED
    BY <1>1, <1>2, <1>3, <1>4, <1>5, <2>2, QuietRefines
       DEF SearchIssues, Quiet, Working
<1>6. CASE SearchFails(id) \/ BeginTx(id) \/ InsertProcessedIssue(id)
  <2>1. /\ go'[id].pc \in {"finish", "insert", "count"}
        /\ go'[id].totalSet = go[id].totalSet
    BY <1>1, <1>6 DEF SearchFails, BeginTx, InsertProcessedIssue, Return, Goroutine
  <2>2. go[id].pc \in {"search", "begin", "insert"}
    BY <1>6 DEF SearchFails, BeginTx, InsertProcessedIssue
  <2>3. QED
    BY <1>1, <1>2, <1>3, <1>4, <2>1, <2>2, QuietRefines DEF Quiet, Working
<1>7. CASE EmptyPage(id) \/ Commit(id)
  <2>1. /\ go'[id].pc \in {"finish", "search"}
        /\ go'[id].totalSet = go[id].totalSet
    BY <1>1, <1>7 DEF EmptyPage, Commit, NextPage, Return, Goroutine
  <2>2. go[id].pc \in {"answer", "insert"}
    BY <1>7 DEF EmptyPage, Commit, ReadyToCommit
  <2>3. QED
    BY <1>1, <1>2, <1>3, <1>4, <2>1, <2>2, QuietRefines DEF Quiet, Working
<1>8. CASE FetchPageIssues(id)
  <2>1. PICK failed \in SUBSET go[id].page :
        \E r \in PageResults(go[id].page, failed, ctxDone[id]) :
          go' = [go EXCEPT ![id].pc = IF r.err = "nil" THEN "begin" ELSE "finish",
                           ![id].err = r.err,
                           ![id].issues = r.issues]
    BY <1>8 DEF FetchPageIssues
  <2>2. /\ go'[id].pc \in {"begin", "finish"}
        /\ go'[id].totalSet = go[id].totalSet
    BY <1>1, <2>1 DEF Goroutine
  <2>3. QED
    BY <1>1, <1>2, <1>3, <1>4, <1>8, <2>2, QuietRefines
       DEF FetchPageIssues, Quiet, Working
<1>9. CASE SyncJobFinished(id)
  <2>1. go'[id].pc = "exited" /\ go'[id].totalSet = go[id].totalSet
    BY <1>1, <1>9 DEF SyncJobFinished, Goroutine
  <2>2. QED
    BY <1>1, <1>2, <1>3, <1>4, <1>9, <2>1, QuietRefines DEF SyncJobFinished
<1>10. QED
  BY <1>5, <1>6, <1>7, <1>8, <1>9

(* The launch moves the goroutine from one quiet point to another.         *)
LEMMA LaunchRefines ==
  ASSUME ContractInv, ContractInv', NEW r \in Callers, LaunchSync(r)
  PROVE  UNCHANGED Registry!vars
<1>1. PICK id \in SyncIDs : id = rpc[r].id /\ At(id, "launch")
  BY DEF ContractInv, SyncInv, CallInv, CallSound, LaunchSync
<1>2. /\ go[id] \in Goroutine /\ go'[id] \in Goroutine
      /\ go \in [SyncIDs -> Goroutine]
  BY DEF ContractInv, SyncInv, SyncType
<1>3. /\ go'[id].pc = "search" /\ go'[id].totalSet = go[id].totalSet
      /\ \A j \in SyncIDs : j # id => go'[j] = go[j]
  BY <1>1, <1>2 DEF LaunchSync, Goroutine
<1>4. UNCHANGED manager
  BY DEF LaunchSync
<1>5. QED
  BY <1>1, <1>2, <1>3, <1>4, QuietRefines DEF Quiet, Working

(* Every step of the service is a step of the contract or leaves the       *)
(* registry alone.                                                         *)
LEMMA NextRefines ==
  ContractInv /\ ContractInv' /\ [Next]_vars => [Registry!Next]_(Registry!vars)
<1> SUFFICES ASSUME ContractInv, ContractInv', [Next]_vars
             PROVE  Registry!Next \/ UNCHANGED Registry!vars
  OBVIOUS
<1>1. CASE UNCHANGED vars
  BY <1>1, StillRefines DEF vars
<1>2. ASSUME NEW r \in Callers, DownloadProject(r) \/ Handler(r)
      PROVE  Registry!Next \/ UNCHANGED Registry!vars
  <2>1. CASE DownloadProject(r) \/ EnsureProject(r)
    BY <2>1, StillRefines DEF DownloadProject, EnsureProject
  <2>2. CASE JoinSync(r)
    BY <2>2, JoinRefines
  <2>3. CASE LaunchSync(r)
    BY <2>3, LaunchRefines
  <2>4. CASE \E id \in SyncIDs : StartSync(r, id)
    BY <2>4, StartRefines
  <2>5. QED
    BY <1>2, <2>1, <2>2, <2>3, <2>4 DEF Handler
<1>3. ASSUME NEW id \in SyncIDs, Sync(id)
      PROVE  Registry!Next \/ UNCHANGED Registry!vars
  BY <1>3, TotalLookupRefines, TotalStoreRefines, IncrLookupRefines, IncrAddRefines,
     EndRefines, QuietSyncRefines DEF Sync
<1>4. ASSUME NEW id \in SyncIDs, Timeout(id) PROVE UNCHANGED Registry!vars
  BY <1>4, StillRefines DEF Timeout
<1>5. ASSUME NEW k \in ToSet(Listing), CreateIssue(k) \/ DeleteIssue(k)
      PROVE  UNCHANGED Registry!vars
  BY <1>5, StillRefines DEF CreateIssue, DeleteIssue
<1>6. CASE Clock
  <2>1. \A j \in SyncIDs : Runner(j)' = Runner(j) /\ Calls(j)' = Calls(j)
    BY <1>6 DEF Clock, Tick, registry, Runner, Calls
  <2>2. Registry!Clock
    BY <1>6, <2>1 DEF Clock, Tick, registry, Registry!Clock, Registry!Tick,
                      Registry!registry
  <2>3. QED
    BY <2>2 DEF Registry!Next
<1>7. QED
  BY <1>1, <1>2, <1>3, <1>4, <1>5, <1>6 DEF Next

(* sync.go keeps the contract under which the registry is verified: every  *)
(* step of the service is a step of ManagerSpec or does not concern it.    *)
(* Only the goroutine of a started job updates it, it sets the total, at   *)
(* most the number of issues there are, before it counts, it counts no     *)
(* more than that many, and it calls Complete or Fail exactly once.        *)
THEOREM ServiceKeepsContract == Safety => KeepsManagerContract
<1>1. Safety => Registry!Init
  BY InitRefines DEF Safety
<1>2. ContractInv /\ ContractInv' /\ [Next]_vars => [Registry!Next]_(Registry!vars)
  BY NextRefines
<1>3. QED
  BY <1>1, <1>2, ContractInvariance, PTL DEF Safety, KeepsManagerContract, Registry!Spec
=============================================================================
