------------------------------- MODULE PageTx --------------------------------
(***************************************************************************)
(* commitPage, insertProcessedIssue (sync.go) and WithTransaction          *)
(* (postgres.go) statement by statement, for several syncs at once: those  *)
(* of one server, or of a server and the command line, on one database.    *)
(*                                                                         *)
(* PostgreSQL at READ COMMITTED is external and modelled by what the code  *)
(* meets of it: a statement sees the committed rows and those of its own   *)
(* transaction; an insert or upsert waits for an open transaction that     *)
(* wrote the same key; a foreign key must resolve; a failed statement      *)
(* aborts the transaction and releases its locks; a cycle of waiting       *)
(* transactions is broken by failing one of them.                          *)
(***************************************************************************)
EXTENDS Mapper, FiniteSets, Relation

CONSTANTS
  Writers,  \* runSync goroutines, of one process or of several
  Pages     \* the pages fetchPageIssues may hand to commitPage

ASSUME PagesAssumption == Pages \subseteq Seq(JiraIssue)

VARIABLES
  authors, issues, changes,  \* the committed rows of the three tables
  tx,       \* tx[w]: the writer's transaction
  page,     \* page[w]: collected
  begun,    \* begun[w]: NewTx has returned a transaction
  todo,     \* todo[w]: the statements commitPage has yet to execute
  ctxDone,  \* ctxDone[w]: the sync's timeout has passed
  result    \* result[w]: "none", then what commitPage returned

db == <<authors, issues, changes>>
vars == <<authors, issues, changes, tx, page, begun, todo, ctxDone, result>>

EmptyTx(open, aborted) ==
  [open |-> open, aborted |-> aborted,
   authors |-> {}, issues |-> {}, inserted |-> {}, deleted |-> {}]

NoTx == EmptyTx(FALSE, FALSE)

-----------------------------------------------------------------------------
(* A statement is placed by the loops around it: the issue, the part of    *)
(* insertProcessedIssue, and there the author, or the history and item.    *)
Before(p, q) == \E k \in 1 .. 4 : p[k] < q[k] /\ \A m \in 1 .. k - 1 : p[m] = q[m]

(* The status changes an issue's row owns; by = <<w, i>> is the run of     *)
(* insertProcessedIssue that writes them, so that rows written twice are   *)
(* two rows, as in the table without a key.                                *)
ChangeRows(issue, by) ==
  LET ids == MapChangelogToRaw(issue)
  IN {[issue |-> issue.id, author |-> ids[p], at |-> p, by |-> by] : p \in DOMAIN ids}

AuthorStatements(issue, by) ==
  LET names == collectAuthors(issue)
  IN {[op |-> "author", at |-> <<by[2], 1, n, 0>>, row |-> MapAuthorToRaw(names[n])]
        : n \in DOMAIN names}

IssueStatement(issue, by) ==
  [op |-> "issue", at |-> <<by[2], 2, 0, 0>>, row |-> MapIssueToRaw(issue), by |-> by]

DeleteStatement(issue, by) ==
  [op |-> "delete", at |-> <<by[2], 3, 0, 0>>, issue |-> issue.id]

ChangeStatements(issue, by) ==
  {[op |-> "change", at |-> <<by[2], 4, r.at[1], r.at[2]>>, row |-> r]
     : r \in ChangeRows(issue, by)}

(* Variant: the old status changes are deleted first of all.               *)
insertProcessedIssueDeletesFirst(issue, by) ==
  AuthorStatements(issue, by) \cup ChangeStatements(issue, by)
  \cup {IssueStatement(issue, by),
        [DeleteStatement(issue, by) EXCEPT !.at = <<by[2], 0, 0, 0>>]}

(* The statements insertProcessedIssue executes.  MapIssueToRaw fails on   *)
(* an id that is no number, after the authors have been inserted.          *)
insertProcessedIssue(issue, by) ==
  AuthorStatements(issue, by) \cup
  IF issue.id = Null
    THEN {[op |-> "invalid", at |-> <<by[2], 2, 0, 0>>]}
    ELSE {IssueStatement(issue, by), DeleteStatement(issue, by)}
         \cup ChangeStatements(issue, by)

(* The loop of commitPage over the collected issues.                       *)
Statements(w) ==
  UNION {insertProcessedIssue(page[w][i], <<w, i>>) : i \in DOMAIN page[w]}

Init ==
  /\ authors = {} /\ issues = {} /\ changes = {}
  /\ page \in [Writers -> Pages]
  /\ tx = [w \in Writers |-> NoTx]
  /\ begun = [w \in Writers |-> FALSE]
  /\ todo = [w \in Writers |-> Statements(w)]
  /\ ctxDone = [w \in Writers |-> FALSE]
  /\ result = [w \in Writers |-> "none"]

(* The statement w executes is the one before all others left.             *)
Executing(w, s) == /\ begun[w] /\ result[w] = "none" /\ s \in todo[w]
                   /\ \A t \in todo[w] : ~Before(t.at, s.at)

Advance(w, s) == todo' = [todo EXCEPT ![w] = @ \ {s}]

(* What the database would hold for w alone: the committed rows and w's.   *)
Upsert(rows, new) == {r \in rows : \A n \in new : n.id # r.id} \cup new
SeenAuthors(w) == authors \cup tx[w].authors
SeenIssues(w)  == Upsert(issues, tx[w].issues)
SeenChanges(w) == (changes \ tx[w].deleted) \cup tx[w].inserted

Ids(rows) == {r.id : r \in rows}

(* A statement waits for the open transaction that wrote the key it needs. *)
Waits(w, s, v) ==
  /\ v # w
  /\ \/ s.op = "author" /\ s.row.id \in Ids(tx[v].authors) \ Ids(SeenAuthors(w))
     \/ s.op = "issue"  /\ s.row.id \in Ids(tx[v].issues)

WaitsFor(w, v) == \E s \in todo[w] : Executing(w, s) /\ Waits(w, s, v)

(* The author ids a statement refers to by a foreign key.                  *)
References(s) == CASE s.op = "issue"  -> {s.row.author, s.row.assignee} \ {Null}
                   [] s.op = "change" -> {s.row.author}
                   [] OTHER -> {}

Resolves(w, s) == References(s) \subseteq Ids(SeenAuthors(w))

Usable(w) == tx[w].open /\ ~tx[w].aborted /\ ~ctxDone[w]

Succeeds(w, s) ==
  /\ Executing(w, s) /\ Usable(w)
  /\ \A v \in Writers : ~Waits(w, s, v)
  /\ Resolves(w, s)
  /\ Advance(w, s)
  /\ UNCHANGED <<db, page, begun, ctxDone, result>>

-----------------------------------------------------------------------------
(* NewTx of WithTransaction                                                *)
Begin(w) ==
  /\ ~begun[w] /\ result[w] = "none" /\ ~ctxDone[w]
  /\ tx' = [tx EXCEPT ![w] = EmptyTx(TRUE, FALSE)]
  /\ begun' = [begun EXCEPT ![w] = TRUE]
  /\ UNCHANGED <<db, page, todo, ctxDone, result>>

BeginFails(w) ==
  /\ ~begun[w] /\ result[w] = "none"
  /\ result' = [result EXCEPT ![w] = "err"]
  /\ UNCHANGED <<db, tx, page, begun, todo, ctxDone>>

(* ON CONFLICT DO NOTHING                                                  *)
InsertAuthor(w) == \E s \in todo[w] :
  /\ s.op = "author" /\ Succeeds(w, s)
  /\ tx' = [tx EXCEPT ![w].authors =
               @ \cup {r \in {s.row} : r.id \notin Ids(SeenAuthors(w))}]

(* ON CONFLICT (id) DO UPDATE                                              *)
InsertIssue(w) == \E s \in todo[w] :
  /\ s.op = "issue" /\ Succeeds(w, s)
  /\ tx' = [tx EXCEPT ![w].issues =
               Upsert(@, {[id |-> s.row.id, of |-> s.row.of, by |-> s.by]})]

DeleteStatusChangesByIssue(w) == \E s \in todo[w] :
  /\ s.op = "delete" /\ Succeeds(w, s)
  /\ tx' = [tx EXCEPT ![w].deleted = @ \cup {c \in SeenChanges(w) : c.issue = s.issue},
                      ![w].inserted = {c \in @ : c.issue # s.issue}]

InsertStatusChange(w) == \E s \in todo[w] :
  /\ s.op = "change" /\ Succeeds(w, s)
  /\ tx' = [tx EXCEPT ![w].inserted = @ \cup {s.row}]

Aborted(w) == EmptyTx(tx[w].open, TRUE)

(* The error of a status change is only logged, and the loop goes on.      *)
StatusChangeFails(w) == \E s \in todo[w] :
  /\ s.op = "change" /\ Executing(w, s)
  /\ tx' = [tx EXCEPT ![w] = Aborted(w)]
  /\ Advance(w, s)
  /\ UNCHANGED <<db, page, begun, ctxDone, result>>

(* Any other error leaves the operation; WithTransaction rolls back.       *)
OperationFails(w) == \E s \in todo[w] :
  /\ s.op # "change" /\ Executing(w, s)
  /\ tx' = [tx EXCEPT ![w] = NoTx]
  /\ result' = [result EXCEPT ![w] = "err"]
  /\ UNCHANGED <<db, page, begun, todo, ctxDone>>

(* Variant: a failed statement leaves the loop of insertProcessedIssue     *)
(* where it is, to be tried again.                                         *)
StatementRetried(w) == \E s \in todo[w] :
  /\ Executing(w, s)
  /\ tx' = [tx EXCEPT ![w] = Aborted(w)]
  /\ UNCHANGED <<db, page, begun, todo, ctxDone, result>>

StatementFails(w) == StatusChangeFails(w) \/ OperationFails(w)

-----------------------------------------------------------------------------
ReachedCommit(w) == begun[w] /\ result[w] = "none" /\ todo[w] = {}

Persist(w) == /\ authors' = SeenAuthors(w)
              /\ issues'  = SeenIssues(w)
              /\ changes' = SeenChanges(w)

CommitEnds(w, r) == /\ tx' = [tx EXCEPT ![w] = NoTx]
                    /\ result' = [result EXCEPT ![w] = r]
                    /\ UNCHANGED <<page, begun, todo, ctxDone>>

(* The answer may be lost after the server has committed.                  *)
Commit(w) ==
  /\ ReachedCommit(w) /\ Usable(w)
  /\ Persist(w)
  /\ \E r \in {"nil", "err"} : CommitEnds(w, r)

(* Variant: the error of Commit is not returned.                           *)
CommitFailsSilently(w) == ReachedCommit(w) /\ CommitEnds(w, "nil") /\ UNCHANGED db

(* Also: COMMIT of an aborted transaction rolls back, which pgx reports.   *)
CommitFails(w) == ReachedCommit(w) /\ CommitEnds(w, "err") /\ UNCHANGED db

(* The timeout of the sync; then database/sql rolls the transaction back.  *)
Timeout(w) ==
  /\ ~ctxDone[w] /\ result[w] = "none"
  /\ ctxDone' = [ctxDone EXCEPT ![w] = TRUE]
  /\ UNCHANGED <<db, tx, page, begun, todo, result>>

AwaitDone(w) ==
  /\ ctxDone[w] /\ tx[w].open
  /\ tx' = [tx EXCEPT ![w] = NoTx]
  /\ UNCHANGED <<db, page, begun, todo, ctxDone, result>>

(* PostgreSQL's deadlock detector: a statement in a cycle of waits fails.  *)
WaitCycle(w) ==
  TransitiveClosure([p \in Writers \X Writers |-> WaitsFor(p[1], p[2])], Writers)[w, w]

BreakDeadlock(w) == WaitCycle(w) /\ StatementFails(w)

Execute(w) ==
  \/ InsertAuthor(w) \/ InsertIssue(w)
  \/ DeleteStatusChangesByIssue(w) \/ InsertStatusChange(w)

CommitPage(w) ==
  \/ Begin(w) \/ BeginFails(w)
  \/ Execute(w) \/ StatementFails(w)
  \/ Commit(w) \/ CommitFails(w)

Returned == \A w \in Writers : result[w] # "none" /\ ~tx[w].open

Next == \/ \E w \in Writers : CommitPage(w) \/ Timeout(w) \/ AwaitDone(w)
        \/ Returned /\ UNCHANGED vars

(* A waiting statement need not fail, except by the deadlock detector, and *)
(* one that cannot succeed does fail.                                      *)
MustFail(w) ==
  /\ \A v \in Writers : ~WaitsFor(w, v)
  /\ StatementFails(w)

Fairness == \A w \in Writers :
  /\ WF_vars(Begin(w) \/ BeginFails(w))
  /\ WF_vars(Execute(w) \/ MustFail(w))
  /\ WF_vars(BreakDeadlock(w))
  /\ WF_vars(Commit(w) \/ CommitFails(w))
  /\ WF_vars(AwaitDone(w))

Spec == Init /\ [][Next]_vars /\ Fairness

-----------------------------------------------------------------------------
(* The ids HashID makes fit the int4 columns, however it overflows on the  *)
(* way, and an aborted transaction holds no rows that others wait for.     *)
TypeOK ==
  /\ Ids(authors) \subseteq 0 .. IntRange - 1
  /\ \A w \in Writers :
       /\ Ids(tx[w].authors) \subseteq 0 .. IntRange - 1
       /\ tx[w].aborted => tx[w].authors \cup tx[w].issues \cup tx[w].inserted = {}
       /\ begun[w] \in BOOLEAN /\ (~begun[w] => ~tx[w].open)
       /\ ctxDone[w] \in BOOLEAN /\ result[w] \in {"none", "nil", "err"}

(* Every author an issue or a status change refers to is in the table when *)
(* the statement runs, also when the insert of that author did nothing     *)
(* because another sync, or another name with the same HashID, had its     *)
(* row.  The exception is the id 0 that HashID gives to a name Jira did    *)
(* not send: nobody inserts it, and the page fails.                        *)
AuthorsResolve ==
  \A w \in Writers : \A s \in todo[w] :
    Usable(w) /\ Executing(w, s)
      => References(s) \ Ids(SeenAuthors(w)) \subseteq {0}

(* The status changes stored for an issue are exactly those of the version *)
(* whose row is stored, none twice and none of another version, whichever  *)
(* syncs wrote the issue at the same time.                                 *)
ChangesMatchIssue ==
  changes = UNION {ChangeRows(r.of, r.by) : r \in issues}

(* The statements together store whole pages, and an error swallowed on    *)
(* the way never makes WithTransaction return nil for a page that is not   *)
(* stored.                                                                 *)
Store == INSTANCE PageStore WITH stored <- {r.of : r \in issues},
                                 known  <- Ids(authors)
ImplementsPageStore == Store!Spec

(* Every commitPage returns and leaves no transaction open, although       *)
(* concurrent pages may lock the same authors in opposite orders.          *)
PageEnds == \A w \in Writers : <>[](result[w] # "none" /\ ~tx[w].open)
=============================================================================
