---------------------------- MODULE PageTxProofs -----------------------------
(***************************************************************************)
(* Proofs about PageTx: the type invariant, AuthorsResolve,                *)
(* ChangesMatchIssue and the refinement of PageStore, for any number of    *)
(* writers, any pages and any width of the integers.                       *)
(*                                                                         *)
(* The inductive invariant says, for a transaction that may still commit,  *)
(* what its rows are in terms of the statements of the page already        *)
(* executed, and that no two transactions hold the same issue.             *)
(***************************************************************************)
EXTENDS PageTx, FiniteSetTheorems, SequenceTheorems, TLAPS

-----------------------------------------------------------------------------
(* The statements of w's page that have been executed.                     *)
Done(w) == Statements(w) \ todo[w]

(* The transaction may still commit.                                       *)
Live(w) == tx[w].open /\ ~tx[w].aborted

IssueRow(w, i) == [id |-> page[w][i].id, of |-> page[w][i], by |-> <<w, i>>]

Written(w, i) == /\ page[w][i].id # Null
                 /\ IssueStatement(page[w][i], <<w, i>>) \notin todo[w]

(* The variables are functions of the writers.                             *)
Shape ==
  /\ page \in [Writers -> Pages]
  /\ todo = [w \in Writers |-> todo[w]]
  /\ begun \in [Writers -> BOOLEAN] /\ ctxDone \in [Writers -> BOOLEAN]
  /\ result \in [Writers -> {"none", "nil", "err"}]
  /\ tx = [w \in Writers |-> tx[w]]

IsTx(t) ==
  /\ t = [open |-> t.open, aborted |-> t.aborted, authors |-> t.authors,
          issues |-> t.issues, inserted |-> t.inserted, deleted |-> t.deleted]
  /\ t.open \in BOOLEAN /\ t.aborted \in BOOLEAN

NoRows(t) == t.authors = {} /\ t.issues = {} /\ t.inserted = {} /\ t.deleted = {}

(* A transaction that cannot commit holds nothing.                         *)
TxOf(w) ==
  /\ IsTx(tx[w])
  /\ tx[w].open => begun[w] /\ result[w] = "none"
  /\ ~Live(w) => NoRows(tx[w])

(* Statements are executed in the order of the loops, and none before the  *)
(* transaction begins.                                                     *)
OrderedOf(w) ==
  /\ todo[w] \subseteq Statements(w)
  /\ ~begun[w] => todo[w] = Statements(w)
  /\ \A d \in Done(w), t \in todo[w] : ~Before(t.at, d.at)

Invalid(i) == [op |-> "invalid", at |-> <<i, 2, 0, 0>>]

(* MapIssueToRaw never succeeds on an issue without an id.                 *)
InvalidOf(w) == \A i \in DOMAIN page[w] :
  page[w][i].id = Null => Invalid(i) \in todo[w]

(* The authors in the transaction are the page's, and each author of an    *)
(* executed statement has a row, the transaction's or somebody else's.     *)
AuthorsOf(w) ==
  /\ \A a \in tx[w].authors : \E s \in Done(w) : s.op = "author" /\ s.row = a
  /\ Live(w) => \A s \in Done(w) : s.op = "author" => s.row.id \in Ids(SeenAuthors(w))

(* The transaction holds the last version executed of each issue.          *)
IssuesOf(w) ==
  /\ \A r \in tx[w].issues : \E i \in DOMAIN page[w] : r = IssueRow(w, i) /\ Written(w, i)
  /\ Live(w) => \A i \in DOMAIN page[w] : Written(w, i) =>
       /\ page[w][i].id \in Ids(tx[w].issues)
       /\ \A r \in tx[w].issues : r.id = page[w][i].id => i <= r.by[2]

LeftRows(w) == {s.row : s \in {t \in todo[w] : t.op = "change"}}
OwnChanges(w, id) == {c \in SeenChanges(w) : c.issue = id}

(* Only the changes of its own issues does the transaction touch, and from *)
(* the delete on it sees of each exactly the changes inserted so far.      *)
ChangesOf(w) ==
  /\ \A c \in tx[w].deleted \cup tx[w].inserted : c.issue \in Ids(tx[w].issues)
  /\ \A r \in tx[w].issues :
       \/ DeleteStatement(r.of, r.by) \in todo[w]
       \/ OwnChanges(w, r.id) = ChangeRows(r.of, r.by) \ LeftRows(w)

WriterInv(w) == /\ TxOf(w) /\ OrderedOf(w) /\ InvalidOf(w)
                /\ AuthorsOf(w) /\ IssuesOf(w) /\ ChangesOf(w)

(* No two transactions hold the same issue.                                *)
Exclusive == \A v, w \in Writers : v # w => Ids(tx[v].issues) \cap Ids(tx[w].issues) = {}

(* The committed rows are well formed.                                     *)
AuthorRange == \A a \in authors : a.id \in 0 .. IntRange - 1
RowsOfIssues == \A r \in issues : r.of.id = r.id

IInv == /\ Shape /\ (\A w \in Writers : WriterInv(w))
        /\ Exclusive /\ AuthorRange /\ RowsOfIssues /\ ChangesMatchIssue

-----------------------------------------------------------------------------
(* Every non-empty set of natural numbers has a least element: the least   *)
(* one makes the smallest of the intervals 1 .. n, and finite sets are     *)
(* well-founded under inclusion.  Inductions over data rest on this fact.  *)
LEMMA NatMin ==
  ASSUME NEW T, T \subseteq Nat, T # {}
  PROVE  \E n \in T : \A m \in T : n <= m
<1> DEFINE F == {1 .. n : n \in T}
<1>1. F \subseteq FiniteSubsetsOf(Nat) /\ F # {}
  <2>1. \A n \in T : IsFiniteSet(1 .. n)
    BY FS_Interval
  <2>2. \A n \in T : 1 .. n \in SUBSET Nat
    OBVIOUS
  <2>3. F # {}
    OBVIOUS
  <2>4. \A n \in T : 1 .. n \in FiniteSubsetsOf(Nat)
    BY <2>1, <2>2 DEF FiniteSubsetsOf
  <2> QED BY <2>3, <2>4
<1>2. IsWellFoundedOn(StrictSubsetOrdering(Nat), FiniteSubsetsOf(Nat))
  BY FS_StrictSubsetOrderingWellFounded
<1>3. PICK s \in F : \A t \in F : ~(<<t, s>> \in StrictSubsetOrdering(Nat))
  <2> HIDE DEF F
  <2> QED BY <1>1, <1>2, WFMin
<1>4. PICK n \in T : s = 1 .. n
  OBVIOUS
<1>5. ASSUME NEW m \in T, ~(n <= m)
      PROVE  FALSE
  <2>1. /\ 1 .. m \subseteq Nat /\ 1 .. n \subseteq Nat
        /\ 1 .. m \subseteq 1 .. n /\ 1 .. m # 1 .. n
    BY <1>5
  <2>2. <<1 .. m, 1 .. n>> \in StrictSubsetOrdering(Nat)
    BY <2>1 DEF StrictSubsetOrdering
  <2>3. 1 .. m \in F
    OBVIOUS
  <2> QED BY <2>2, <2>3, <1>3, <1>4
<1> QED BY <1>5

-----------------------------------------------------------------------------
(* int64 arithmetic and a round of HashID stay among the integers.         *)
LEMMA WrapInt == ASSUME NEW x \in Int PROVE Wrap(x) \in Int
<1>1. x + HalfRange \in Int /\ 2 * HalfRange \in Nat \ {0}
  BY WidthAssumption
<1>2. (x + HalfRange) % (2 * HalfRange) \in Int
  BY <1>1
<1> QED BY <1>2, WidthAssumption DEF Wrap

(* So does one round of HashID.                                            *)
LEMMA MixInt == ASSUME NEW h \in Int, NEW c \in Int PROVE Mix(h, c) \in Int
  BY WrapInt DEF Mix, hashMultiplier

(* f holds the hashes after the first 0, 1, ..., N rounds over str.        *)
IsRounds(f, str, N) == f = [n \in 0 .. N |-> IF n = 0 THEN 0 ELSE Mix(f[n - 1], str[n])]
HasRounds(str, N) == \E f : IsRounds(f, str, N)

(* Without a round there is only the hash 0.                               *)
LEMMA NoRounds == ASSUME NEW str PROVE HasRounds(str, 0)
<1> DEFINE f == [n \in 0 .. 0 |-> 0]
<1>1. f = [n \in 0 .. 0 |-> IF n = 0 THEN 0 ELSE Mix(f[n - 1], str[n])]
  OBVIOUS
<1> QED BY <1>1 DEF IsRounds, HasRounds

(* The loop of HashID can always make one more round.                      *)
LEMMA OneMoreRound ==
  ASSUME NEW str, NEW N \in Nat, HasRounds(str, N)
  PROVE  HasRounds(str, N + 1)
<1>1. PICK f : IsRounds(f, str, N)
  BY DEF HasRounds
<1> DEFINE g == [n \in 0 .. N + 1 |-> IF n = N + 1 THEN Mix(f[N], str[N + 1]) ELSE f[n]]
<1>2. ASSUME NEW n \in 0 .. N + 1
      PROVE g[n] = IF n = 0 THEN 0 ELSE Mix(g[n - 1], str[n])
  <2>1. CASE n = 0
    BY <1>1, <2>1 DEF IsRounds
  <2>2. CASE n = N + 1
    <3>1. g[n] = Mix(f[N], str[N + 1])
      BY <2>2
    <3>2. n - 1 = N /\ n - 1 # N + 1 /\ n - 1 \in 0 .. N + 1 /\ n # 0
      BY <2>2
    <3>3. g[n - 1] = f[N]
      BY <3>2
    <3> QED BY <3>1, <3>2, <3>3, <2>2
  <2>3. CASE n # 0 /\ n # N + 1
    <3>1. n \in 0 .. N /\ n - 1 \in 0 .. N /\ n - 1 # N + 1 /\ n - 1 \in 0 .. N + 1
      BY <2>3
    <3>2. g[n] = f[n] /\ g[n - 1] = f[n - 1]
      BY <3>1, <2>3
    <3>3. f[n] = Mix(f[n - 1], str[n])
      BY <3>1, <2>3, <1>1 DEF IsRounds
    <3> QED BY <3>2, <3>3, <2>3
  <2> QED BY <2>1, <2>2, <2>3
<1>3. IsRounds(g, str, N + 1)
  <2> DEFINE e == [n \in 0 .. N + 1 |-> IF n = 0 THEN 0 ELSE Mix(g[n - 1], str[n])]
  <2>1. \A n \in 0 .. N + 1 : g[n] = e[n]
    <3> HIDE DEF g
    <3> QED BY <1>2
  <2>2. g = [n \in 0 .. N + 1 |-> g[n]] /\ e = [n \in 0 .. N + 1 |-> e[n]]
    OBVIOUS
  <2>3. g = e
    <3> HIDE DEF g, e
    <3> QED BY <2>1, <2>2
  <2> QED BY <2>3 DEF IsRounds
<1> QED BY <1>3 DEF HasRounds

(* Rounds(str), a recursive definition, satisfies its equation.            *)
LEMMA RoundsDef ==
  ASSUME NEW str, Len(str) \in Nat
  PROVE  IsRounds(Rounds(str), str, Len(str))
<1> DEFINE T == {N \in Nat : ~HasRounds(str, N)}
<1>1. T = {}
  <2> SUFFICES ASSUME T # {} PROVE FALSE
    OBVIOUS
  <2>1. PICK n \in T : \A m \in T : n <= m
    <3>1. T \subseteq Nat
      OBVIOUS
    <3> HIDE DEF T
    <3> QED BY <3>1, NatMin
  <2>2. n # 0
    BY NoRounds
  <2>3. n - 1 \in Nat /\ ~(n <= n - 1) /\ (n - 1) + 1 = n
    BY <2>2
  <2>4. n - 1 \notin T
    <3> HIDE DEF T
    <3> QED BY <2>1, <2>3
  <2>5. HasRounds(str, (n - 1) + 1)
    BY <2>3, <2>4, OneMoreRound
  <2> QED BY <2>3, <2>5
<1>2. PICK f : f = [n \in 0 .. Len(str) |-> IF n = 0 THEN 0 ELSE Mix(f[n - 1], str[n])]
  BY <1>1 DEF HasRounds, IsRounds
<1> QED BY <1>2, Zenon DEF IsRounds, Rounds

(* Every hash on the way is an integer.                                    *)
LEMMA RoundsInt ==
  ASSUME NEW str \in Seq(Nat)
  PROVE  \A n \in 0 .. Len(str) : Rounds(str)[n] \in Int
<1> DEFINE r == Rounds(str)
           T == {n \in 0 .. Len(str) : r[n] \notin Int}
<1>1. \A n \in 0 .. Len(str) : r[n] = IF n = 0 THEN 0 ELSE Mix(r[n - 1], str[n])
  <2>1. IsRounds(r, str, Len(str))
    BY RoundsDef
  <2> HIDE DEF r
  <2> QED BY <2>1 DEF IsRounds
<1> HIDE DEF r
<1> SUFFICES ASSUME T # {} PROVE FALSE
  BY DEF r
<1>2. PICK n \in T : \A m \in T : n <= m
  <2>1. T \subseteq Nat
    OBVIOUS
  <2> HIDE DEF T
  <2> QED BY <2>1, NatMin
<1>3. n \in 1 .. Len(str) /\ n - 1 \in 0 .. Len(str) /\ ~(n <= n - 1)
  BY <1>1
<1>4. r[n - 1] \in Int
  <2>1. n - 1 \notin T
    <3> HIDE DEF T
    <3> QED BY <1>2, <1>3
  <2> QED BY <2>1, <1>3
<1>5. str[n] \in Int
  BY <1>3
<1>6. r[n] = Mix(r[n - 1], str[n])
  BY <1>1, <1>3
<1> QED BY <1>4, <1>5, <1>6, MixInt

(* HashID, overflow and all, gives an id that fits its int4 column.        *)
THEOREM HashIDRange ==
  ASSUME NEW str \in Name
  PROVE  HashID(str) \in 0 .. IntRange - 1
<1>1. Rounds(str)[Len(str)] \in Int
  BY RoundsInt DEF Name
<1> QED BY <1>1, WidthAssumption DEF HashID

(* A name Jira did not send has the id 0.                                  *)
LEMMA HashIDAnonymous == HashID(Anonymous) = 0
<1>1. Len(Anonymous) = 0
  BY DEF Anonymous
<1>2. Rounds(Anonymous)[0] = 0
  BY <1>1, RoundsDef DEF IsRounds
<1>3. 0 % IntRange = 0
  BY WidthAssumption
<1> QED BY <1>1, <1>2, <1>3 DEF HashID

-----------------------------------------------------------------------------
(* collectAuthors forgets nobody: a name that is met is first met.         *)
LEMMA FirstMetComplete ==
  ASSUME NEW met \in Seq(Name), NEW k \in DOMAIN met, met[k] # Anonymous
  PROVE  \E n \in DOMAIN FirstMet(met) : FirstMet(met)[n] = met[k]
<1> DEFINE T == {n \in DOMAIN met : met[n] = met[k]}
<1>1. DOMAIN met = 1 .. Len(met) /\ Len(met) \in Nat
  OBVIOUS
<1>2. PICK n \in T : \A m \in T : n <= m
  <2>1. T \subseteq Nat /\ T # {}
    BY <1>1
  <2> HIDE DEF T
  <2> QED BY <2>1, NatMin
<1>3. n \in DOMAIN met /\ met[n] = met[k]
  OBVIOUS
<1>4. ASSUME NEW m \in 1 .. n - 1
      PROVE  met[m] # met[n]
  <2>1. m \in DOMAIN met /\ ~(n <= m)
    BY <1>1, <1>3
  <2>2. m \notin T
    <3> HIDE DEF T
    <3> QED BY <2>1, <1>2
  <2> QED BY <2>1, <2>2, <1>3
<1>5. n \in DOMAIN FirstMet(met) /\ FirstMet(met)[n] = met[n]
  BY <1>3, <1>4 DEF FirstMet
<1> QED BY <1>3, <1>5

(* The names collectAuthors adds are the names an issue mentions.          *)
Mentions(issue) == {issue.creator, issue.assignee}
                   \cup {issue.histories[h].author : h \in DOMAIN issue.histories}

(* collectAuthors returns every name the issue mentions and Jira sent, in  *)
(* a changelog of any length, and nothing that is not a name.              *)
THEOREM CollectsAuthors ==
  ASSUME NEW issue \in JiraIssue
  PROVE  /\ \A name \in Mentions(issue) \ {Anonymous} :
              \E n \in DOMAIN collectAuthors(issue) : collectAuthors(issue)[n] = name
         /\ \A n \in DOMAIN collectAuthors(issue) : collectAuthors(issue)[n] \in Name
<1> DEFINE two == <<issue.creator, issue.assignee>>
           rest == [h \in DOMAIN issue.histories |-> issue.histories[h].author]
           met == two \o rest
<1>1. issue.creator \in Name /\ issue.assignee \in Name /\ issue.histories \in Seq(History)
  BY DEF JiraIssue
<1>2. two \in Seq(Name) /\ Len(two) = 2
  BY <1>1
<1>3. DOMAIN issue.histories = 1 .. Len(issue.histories) /\ Len(issue.histories) \in Nat
  BY <1>1
<1>4. \A h \in DOMAIN issue.histories : issue.histories[h].author \in Name
  <2>1. \A h \in 1 .. Len(issue.histories) : issue.histories[h] \in History
    BY <1>1, ElementOfSeq
  <2> QED BY <2>1, <1>3 DEF History
<1>5. rest \in Seq(Name) /\ Len(rest) = Len(issue.histories)
  BY <1>3, <1>4
<1>6. /\ met \in Seq(Name) /\ Len(met) = 2 + Len(rest)
      /\ \A k \in 1 .. 2 + Len(rest) : met[k] = IF k <= 2 THEN two[k] ELSE rest[k - 2]
  <2> HIDE DEF two, rest
  <2>1. two \o rest \in Seq(Name)
    BY <1>2, <1>5, ConcatProperties
  <2>2. Len(two \o rest) = Len(two) + Len(rest)
    BY <1>2, <1>5, ConcatProperties
  <2>3. \A k \in 1 .. Len(two) + Len(rest) :
          (two \o rest)[k] = IF k <= Len(two) THEN two[k] ELSE rest[k - Len(two)]
    BY <1>2, <1>5, ConcatProperties, ZenonT(60)
  <2> QED BY <2>1, <2>2, <2>3, <1>2
<1>7. met[1] = issue.creator /\ met[2] = issue.assignee
  <2>1. met[1] = two[1] /\ met[2] = two[2]
    <3> HIDE DEF two, rest, met
    <3> QED BY <1>6, <1>5, <1>3
  <2> QED BY <2>1
<1>8. \A h \in DOMAIN issue.histories : met[h + 2] = issue.histories[h].author
  <2>1. \A h \in 1 .. Len(rest) : met[h + 2] = rest[h]
    <3> HIDE DEF two, rest, met
    <3> QED BY <1>6, <1>5, <1>3
  <2>2. \A h \in DOMAIN issue.histories : met[h + 2] = rest[h]
    <3> HIDE DEF two, rest, met
    <3> QED BY <2>1, <1>3, <1>5
  <2> HIDE DEF met
  <2> QED BY <2>2
<1>9. DOMAIN met = 1 .. Len(met)
  <2> HIDE DEF met
  <2> QED BY <1>6
<1>10. collectAuthors(issue) = FirstMet(met)
  BY DEF collectAuthors
<1>11. ASSUME NEW name \in Mentions(issue) \ {Anonymous}
       PROVE  \E n \in DOMAIN collectAuthors(issue) : collectAuthors(issue)[n] = name
  <2>1. \E k \in DOMAIN met : met[k] = name
    <3>1. 1 \in DOMAIN met /\ 2 \in DOMAIN met
      <4> HIDE DEF met
      <4> QED BY <1>5, <1>6, <1>9, <1>3
    <3>2. \A h \in DOMAIN issue.histories : h + 2 \in DOMAIN met
      <4> HIDE DEF met, rest
      <4> QED BY <1>3, <1>5, <1>6, <1>9
    <3> HIDE DEF met
    <3> QED BY <3>1, <3>2, <1>7, <1>8 DEF Mentions
  <2> HIDE DEF met
  <2>2. PICK k \in DOMAIN met : met[k] = name
    BY <2>1
  <2> QED BY <2>2, <1>6, <1>10, FirstMetComplete
<1>12. \A n \in DOMAIN collectAuthors(issue) : collectAuthors(issue)[n] \in Name
  <2> HIDE DEF met
  <2>1. \A n \in DOMAIN met : met[n] \in Name
    BY <1>6
  <2> QED BY <1>10, <2>1 DEF FirstMet
<1> QED BY <1>11, <1>12

-----------------------------------------------------------------------------
(* Which statement of which issue of w's page s is.                        *)
Kind(w, s, i) ==
  \/ /\ s.op = "author"
     /\ \E n \in DOMAIN collectAuthors(page[w][i]) :
          s.at = <<i, 1, n, 0>> /\ s.row = MapAuthorToRaw(collectAuthors(page[w][i])[n])
  \/ s.op = "invalid" /\ page[w][i].id = Null /\ s.at = <<i, 2, 0, 0>>
  \/ s.op = "issue" /\ page[w][i].id # Null /\ s = IssueStatement(page[w][i], <<w, i>>)
  \/ s.op = "delete" /\ page[w][i].id # Null /\ s = DeleteStatement(page[w][i], <<w, i>>)
  \/ /\ s.op = "change" /\ page[w][i].id # Null
     /\ \E r \in ChangeRows(page[w][i], <<w, i>>) :
          s = [op |-> "change", at |-> <<i, 4, r.at[1], r.at[2]>>, row |-> r]

(* Every statement of commitPage is one of the five kinds.                 *)
LEMMA Kinds ==
  ASSUME NEW w, NEW s \in Statements(w)
  PROVE  \E i \in DOMAIN page[w] : Kind(w, s, i)
<1>1. PICK i \in DOMAIN page[w] : s \in insertProcessedIssue(page[w][i], <<w, i>>)
  BY DEF Statements
<1> DEFINE issue == page[w][i]
<1>2. CASE s \in AuthorStatements(issue, <<w, i>>)
  BY <1>2 DEF AuthorStatements, Kind
<1>3. CASE issue.id = Null /\ s = [op |-> "invalid", at |-> <<i, 2, 0, 0>>]
  BY <1>3 DEF Kind
<1>4. CASE issue.id # Null /\ s = IssueStatement(issue, <<w, i>>)
  BY <1>4 DEF Kind, IssueStatement
<1>5. CASE issue.id # Null /\ s = DeleteStatement(issue, <<w, i>>)
  BY <1>5 DEF Kind, DeleteStatement
<1>6. CASE issue.id # Null /\ s \in ChangeStatements(issue, <<w, i>>)
  BY <1>6 DEF Kind, ChangeStatements
<1> QED BY <1>1, <1>2, <1>3, <1>4, <1>5, <1>6 DEF insertProcessedIssue

(* The statements that each issue of a page has.                           *)
LEMMA HasStatements ==
  ASSUME NEW w, NEW i \in DOMAIN page[w]
  PROVE  /\ \A n \in DOMAIN collectAuthors(page[w][i]) :
              \E s \in Statements(w) :
                /\ s.op = "author" /\ s.at = <<i, 1, n, 0>>
                /\ s.row = MapAuthorToRaw(collectAuthors(page[w][i])[n])
         /\ page[w][i].id # Null =>
              /\ IssueStatement(page[w][i], <<w, i>>) \in Statements(w)
              /\ DeleteStatement(page[w][i], <<w, i>>) \in Statements(w)
              /\ ChangeStatements(page[w][i], <<w, i>>) \subseteq Statements(w)
         /\ page[w][i].id = Null =>
              [op |-> "invalid", at |-> <<i, 2, 0, 0>>] \in Statements(w)
<1> DEFINE all == insertProcessedIssue(page[w][i], <<w, i>>)
<1>1. all \subseteq Statements(w)
  BY DEF Statements
<1>2. \A n \in DOMAIN collectAuthors(page[w][i]) :
        [op |-> "author", at |-> <<i, 1, n, 0>>,
         row |-> MapAuthorToRaw(collectAuthors(page[w][i])[n])] \in all
  BY DEF insertProcessedIssue, AuthorStatements
<1>3. page[w][i].id # Null =>
        /\ IssueStatement(page[w][i], <<w, i>>) \in all
        /\ DeleteStatement(page[w][i], <<w, i>>) \in all
        /\ ChangeStatements(page[w][i], <<w, i>>) \subseteq all
  BY DEF insertProcessedIssue
<1>4. page[w][i].id = Null => [op |-> "invalid", at |-> <<i, 2, 0, 0>>] \in all
  BY DEF insertProcessedIssue
<1> HIDE DEF all
<1>5. ASSUME NEW n \in DOMAIN collectAuthors(page[w][i])
      PROVE  \E s \in Statements(w) :
                /\ s.op = "author" /\ s.at = <<i, 1, n, 0>>
                /\ s.row = MapAuthorToRaw(collectAuthors(page[w][i])[n])
  <2> DEFINE s == [op |-> "author", at |-> <<i, 1, n, 0>>,
                   row |-> MapAuthorToRaw(collectAuthors(page[w][i])[n])]
  <2>1. s \in Statements(w)
    BY <1>1, <1>2
  <2> QED BY <2>1
<1> QED BY <1>1, <1>3, <1>4, <1>5

(* The order of places: by issue first, then by part.                      *)
LEMMA EarlierIssue ==
  ASSUME NEW p, NEW q, p[1] < q[1]
  PROVE  Before(p, q)
  BY DEF Before

(* Within an issue the authors come first, the status changes last.        *)
LEMMA EarlierPart ==
  ASSUME NEW p, NEW q, p[1] = q[1], p[2] < q[2]
  PROVE  Before(p, q)
  BY DEF Before

-----------------------------------------------------------------------------
(* What a transaction without rows is made of.                             *)
LEMMA EmptyTxFacts ==
  ASSUME NEW o \in BOOLEAN, NEW a \in BOOLEAN
  PROVE  /\ IsTx(EmptyTx(o, a)) /\ NoRows(EmptyTx(o, a))
         /\ EmptyTx(o, a).open = o /\ EmptyTx(o, a).aborted = a
  BY DEF IsTx, NoRows, EmptyTx

(* The transaction there is not has no rows.                               *)
LEMMA NoTxFacts == IsTx(NoTx) /\ NoRows(NoTx) /\ ~NoTx.open /\ ~NoTx.aborted
  BY EmptyTxFacts DEF NoTx

(* Before commitPage begins, nothing is executed and nothing is stored.    *)
LEMMA InitInv == Init => IInv
<1> SUFFICES ASSUME Init PROVE IInv
  OBVIOUS
<1>1. Shape
  BY DEF Init, Shape
<1>2. ASSUME NEW w \in Writers
      PROVE  WriterInv(w)
  <2>1. tx[w] = NoTx /\ todo[w] = Statements(w) /\ ~begun[w]
    BY DEF Init
  <2>2. NoRows(tx[w]) /\ ~Live(w) /\ ~tx[w].open /\ IsTx(tx[w])
    BY <2>1, NoTxFacts DEF Live
  <2>3. Done(w) = {}
    BY <2>1 DEF Done
  <2>4. InvalidOf(w)
    BY <2>1, HasStatements DEF InvalidOf, Invalid
  <2>5. AuthorsOf(w) /\ IssuesOf(w) /\ ChangesOf(w)
    BY <2>2 DEF AuthorsOf, IssuesOf, ChangesOf, NoRows
  <2> QED BY <2>1, <2>2, <2>3, <2>4, <2>5 DEF WriterInv, TxOf, OrderedOf
<1>3. Exclusive
  BY NoTxFacts DEF Init, Exclusive, NoRows, Ids
<1>4. AuthorRange /\ RowsOfIssues /\ ChangesMatchIssue
  BY DEF Init, AuthorRange, RowsOfIssues, ChangesMatchIssue
<1> QED BY <1>1, <1>2, <1>3, <1>4 DEF IInv

-----------------------------------------------------------------------------
(* A writer is not disturbed by the steps of the others: they leave its    *)
(* transaction alone and commit no changes of the issues it holds.         *)
LEMMA OtherWriter ==
  ASSUME NEW v, WriterInv(v), page' = page, tx'[v] = tx[v], todo'[v] = todo[v],
         begun'[v] = begun[v], tx[v].open => result'[v] = result[v],
         authors \subseteq authors',
         \A c : c.issue \in Ids(tx[v].issues) => (c \in changes' <=> c \in changes)
  PROVE  WriterInv(v)'
<1>1. TxOf(v)'
  BY DEF WriterInv, TxOf, Live
<1>2. Statements(v)' = Statements(v) /\ Done(v)' = Done(v)
  BY DEF Statements, Done
<1>3. OrderedOf(v)'
  BY <1>2 DEF WriterInv, OrderedOf
<1>4. InvalidOf(v)'
  BY DEF WriterInv, InvalidOf
<1>5. AuthorsOf(v)'
  <2>1. Ids(SeenAuthors(v)) \subseteq Ids(SeenAuthors(v))'
    BY DEF Ids, SeenAuthors
  <2>2. AuthorsOf(v) /\ Live(v)' = Live(v)
    BY DEF WriterInv, Live
  <2> QED BY <1>2, <2>1, <2>2 DEF AuthorsOf
<1>6. IssuesOf(v)'
  BY DEF WriterInv, IssuesOf, Live, Written, IssueRow
<1>7. ChangesOf(v)'
  <2>1. ChangesOf(v) /\ LeftRows(v)' = LeftRows(v)
    BY DEF WriterInv, LeftRows
  <2>2. ASSUME NEW r \in tx[v].issues
        PROVE  OwnChanges(v, r.id)' = OwnChanges(v, r.id)
    <3>1. r.id \in Ids(tx[v].issues)
      BY DEF Ids
    <3>2. ASSUME NEW c PROVE c \in OwnChanges(v, r.id)' <=> c \in OwnChanges(v, r.id)
      BY <3>1 DEF OwnChanges, SeenChanges
    <3> QED BY <3>2 DEF OwnChanges
  <2> QED BY <2>1, <2>2 DEF ChangesOf
<1> QED BY <1>1, <1>3, <1>4, <1>5, <1>6, <1>7 DEF WriterInv

(* A transaction that is rolled back or aborted holds nothing any more,    *)
(* whichever statement failed.                                             *)
LEMMA Abandoned ==
  ASSUME NEW w, WriterInv(w), page' = page, begun'[w] = begun[w],
         IsTx(tx'[w]), NoRows(tx'[w]), ~Live(w)',
         tx'[w].open => begun'[w] /\ result'[w] = "none",
         todo'[w] = todo[w] \/ \E s \in todo[w] :
           s.op = "change" /\ Executing(w, s) /\ todo'[w] = todo[w] \ {s}
  PROVE  WriterInv(w)'
<1>1. TxOf(w)'
  BY DEF TxOf
<1>2. Statements(w)' = Statements(w) /\ Done(w)' = Statements(w) \ todo'[w]
  BY DEF Statements, Done
<1>3. OrderedOf(w)'
  <2>1. OrderedOf(w)
    BY DEF WriterInv
  <2>2. CASE todo'[w] = todo[w]
    BY <1>2, <2>1, <2>2 DEF OrderedOf, Done
  <2>3. CASE todo'[w] # todo[w]
    BY <1>2, <2>1, <2>3 DEF OrderedOf, Done, Executing
  <2> QED BY <2>2, <2>3
<1>4. InvalidOf(w)'
  <2>1. \A i : Invalid(i).op # "change"
    BY DEF Invalid
  <2> QED BY <2>1 DEF WriterInv, InvalidOf
<1>5. AuthorsOf(w)' /\ IssuesOf(w)' /\ ChangesOf(w)'
  BY DEF AuthorsOf, IssuesOf, ChangesOf, NoRows
<1> QED BY <1>1, <1>3, <1>4, <1>5 DEF WriterInv

-----------------------------------------------------------------------------
(* Issues are numbered, and they are what Jira sends.                      *)
LEMMA PageIssues ==
  ASSUME Shape, NEW w \in Writers
  PROVE  \A i \in DOMAIN page[w] : i \in Nat /\ page[w][i] \in JiraIssue
<1>1. page[w] \in Seq(JiraIssue)
  BY PagesAssumption DEF Shape
<1>2. DOMAIN page[w] = 1 .. Len(page[w]) /\ Len(page[w]) \in Nat
  BY <1>1
<1>3. \A i \in 1 .. Len(page[w]) : page[w][i] \in JiraIssue
  BY <1>1, ElementOfSeq
<1> QED BY <1>2, <1>3

(* What a successful statement does whatever it is.                        *)
LEMMA Executed ==
  ASSUME NEW w \in Writers, Shape, WriterInv(w), NEW s \in todo[w], Succeeds(w, s)
  PROVE  /\ page' = page /\ begun' = begun /\ result' = result /\ ctxDone' = ctxDone
         /\ authors' = authors /\ issues' = issues /\ changes' = changes
         /\ todo' = [todo EXCEPT ![w] = todo[w] \ {s}]
         /\ todo'[w] = todo[w] \ {s}
         /\ \A v \in Writers : v # w => todo'[v] = todo[v]
         /\ Live(w) /\ s \in Statements(w)
         /\ Statements(w)' = Statements(w)
         /\ Done(w)' = Done(w) \cup {s}
         /\ OrderedOf(w)'
<1>1. /\ page' = page /\ begun' = begun /\ result' = result /\ ctxDone' = ctxDone
      /\ authors' = authors /\ issues' = issues /\ changes' = changes
      /\ todo' = [todo EXCEPT ![w] = todo[w] \ {s}]
  BY DEF Succeeds, Advance, db
<1>2. /\ todo'[w] = todo[w] \ {s}
      /\ \A v \in Writers : v # w => todo'[v] = todo[v]
  BY <1>1 DEF Shape
<1>3. OrderedOf(w)
  BY DEF WriterInv
<1>4. Live(w) /\ s \in Statements(w)
  BY <1>3 DEF Succeeds, Usable, Live, OrderedOf
<1>5. Statements(w)' = Statements(w) /\ Done(w)' = Statements(w) \ todo'[w]
  BY <1>1 DEF Statements, Done
<1>6. Done(w)' = Done(w) \cup {s}
  BY <1>2, <1>4, <1>5 DEF Done
<1>7. OrderedOf(w)'
  <2>1. \A t \in todo[w] : ~Before(t.at, s.at)
    BY DEF Succeeds, Executing
  <2>2. begun[w]
    BY DEF Succeeds, Executing
  <2> QED BY <1>1, <1>2, <1>3, <1>5, <1>6, <2>1, <2>2 DEF OrderedOf
<1> QED BY <1>1, <1>2, <1>4, <1>5, <1>6, <1>7

(* The loops' order, for the statement being executed.                     *)
LEMMA OrderAround ==
  ASSUME NEW w, OrderedOf(w), NEW s \in todo[w], Executing(w, s), NEW t \in Statements(w)
  PROVE  /\ Before(t.at, s.at) => t \notin todo[w]
         /\ Before(s.at, t.at) => t \in todo[w]
  BY DEF OrderedOf, Executing, Done

(* A statement that writes no author keeps what is known of the authors;   *)
(* one that writes no issue keeps what is known of the issues.             *)
LEMMA ExecutedKeeps ==
  ASSUME NEW w \in Writers, Shape, WriterInv(w), NEW s \in todo[w], Succeeds(w, s),
         IsTx(tx'[w]), tx'[w].open = tx[w].open, tx'[w].aborted = tx[w].aborted
  PROVE  /\ TxOf(w)'
         /\ s.op # "invalid" => InvalidOf(w)'
         /\ s.op # "author" /\ tx'[w].authors = tx[w].authors => AuthorsOf(w)'
         /\ s.op # "issue" /\ tx'[w].issues = tx[w].issues => IssuesOf(w)'
<1>1. /\ page' = page /\ begun' = begun /\ result' = result /\ authors' = authors
      /\ todo'[w] = todo[w] \ {s} /\ Live(w) /\ Done(w)' = Done(w) \cup {s}
  BY Executed
<1>2. Live(w)'
  BY <1>1 DEF Live
<1>3. TxOf(w)'
  BY <1>1, <1>2 DEF WriterInv, TxOf
<1>4. ASSUME s.op # "invalid"
      PROVE  InvalidOf(w)'
  <2>1. \A i : Invalid(i).op = "invalid"
    BY DEF Invalid
  <2>2. InvalidOf(w)
    BY DEF WriterInv
  <2> QED BY <1>1, <1>4, <2>1, <2>2 DEF InvalidOf
<1>5. ASSUME s.op # "author", tx'[w].authors = tx[w].authors
      PROVE  AuthorsOf(w)'
  <2>1. AuthorsOf(w)
    BY DEF WriterInv
  <2>2. SeenAuthors(w)' = SeenAuthors(w)
    BY <1>1, <1>5 DEF SeenAuthors
  <2>3. Ids(SeenAuthors(w))' = Ids(SeenAuthors(w))
    BY <2>2 DEF Ids
  <2> QED BY <1>1, <1>5, <2>1, <2>3 DEF AuthorsOf
<1>6. ASSUME s.op # "issue", tx'[w].issues = tx[w].issues
      PROVE  IssuesOf(w)'
  <2>1. IssuesOf(w)
    BY DEF WriterInv
  <2>2. \A i : IssueStatement(page[w][i], <<w, i>>).op = "issue"
    BY DEF IssueStatement
  <2>3. \A i : Written(w, i)' <=> Written(w, i)
    BY <1>1, <1>6, <2>2 DEF Written
  <2>4. \A i : IssueRow(w, i)' = IssueRow(w, i)
    BY <1>1 DEF IssueRow
  <2>5. Ids(tx[w].issues)' = Ids(tx[w].issues)
    BY <1>6 DEF Ids
  <2> QED BY <1>1, <1>6, <2>1, <2>3, <2>4, <2>5 DEF IssuesOf
<1> QED BY <1>3, <1>4, <1>5, <1>6

-----------------------------------------------------------------------------
(* InsertAuthor: after it the author has a row, if only somebody else's.   *)
LEMMA InsertAuthorInv ==
  ASSUME NEW w \in Writers, Shape, WriterInv(w), InsertAuthor(w)
  PROVE  WriterInv(w)' /\ tx'[w].issues = tx[w].issues
<1>1. PICK s \in todo[w] :
        /\ s.op = "author" /\ Succeeds(w, s)
        /\ tx' = [tx EXCEPT ![w].authors =
                    @ \cup {r \in {s.row} : r.id \notin Ids(SeenAuthors(w))}]
  BY DEF InsertAuthor
<1>2. /\ page' = page /\ authors' = authors /\ changes' = changes
      /\ todo'[w] = todo[w] \ {s} /\ Live(w) /\ Done(w)' = Done(w) \cup {s} /\ OrderedOf(w)'
  BY <1>1, Executed
<1>3. IsTx(tx[w]) /\ ChangesOf(w) /\ AuthorsOf(w)
  BY DEF WriterInv, TxOf
<1> DEFINE new == tx[w].authors \cup {r \in {s.row} : r.id \notin Ids(SeenAuthors(w))}
<1>4. /\ tx'[w].open = tx[w].open /\ tx'[w].aborted = tx[w].aborted
      /\ tx'[w].authors = new /\ tx'[w].issues = tx[w].issues
      /\ tx'[w].inserted = tx[w].inserted /\ tx'[w].deleted = tx[w].deleted
      /\ IsTx(tx'[w])
  <2> HIDE DEF new
  <2>1. tx'[w] = [tx[w] EXCEPT !.authors = new]
    BY <1>1 DEF Shape, new
  <2> QED BY <2>1, <1>3 DEF IsTx
<1>5. TxOf(w)' /\ InvalidOf(w)' /\ IssuesOf(w)'
  BY <1>1, <1>4, ExecutedKeeps
<1>6. AuthorsOf(w)'
  <2>1. \A a \in tx'[w].authors : a = s.row \/ a \in tx[w].authors
    BY <1>4
  <2>2. \A a \in tx'[w].authors : \E t \in Done(w)' : t.op = "author" /\ t.row = a
    BY <2>1, <1>1, <1>2, <1>3 DEF AuthorsOf
  <2>3. SeenAuthors(w) \subseteq SeenAuthors(w)'
    BY <1>2, <1>4 DEF SeenAuthors
  <2>4. Ids(SeenAuthors(w)) \subseteq Ids(SeenAuthors(w))'
    BY <2>3 DEF Ids
  <2>5. s.row.id \in Ids(SeenAuthors(w))'
    <3>1. CASE s.row.id \in Ids(SeenAuthors(w))
      BY <3>1, <2>4
    <3>2. CASE s.row.id \notin Ids(SeenAuthors(w))
      <4>1. s.row \in SeenAuthors(w)'
        BY <3>2, <1>4 DEF SeenAuthors
      <4> QED BY <4>1 DEF Ids
    <3> QED BY <3>1, <3>2
  <2>6. \A t \in Done(w) : t.op = "author" => t.row.id \in Ids(SeenAuthors(w))
    BY <1>2, <1>3 DEF AuthorsOf
  <2>7. \A t \in Done(w)' : t.op = "author" => t.row.id \in Ids(SeenAuthors(w))'
    BY <1>2, <2>4, <2>5, <2>6
  <2> QED BY <2>2, <2>7 DEF AuthorsOf
<1>7. ChangesOf(w)'
  <2>1. SeenChanges(w)' = SeenChanges(w)
    BY <1>2, <1>4 DEF SeenChanges
  <2>2. \A id : OwnChanges(w, id)' = OwnChanges(w, id)
    BY <2>1 DEF OwnChanges
  <2>3. LeftRows(w)' = LeftRows(w)
    BY <1>1, <1>2 DEF LeftRows
  <2>4. \A r : DeleteStatement(r.of, r.by).op = "delete"
    BY DEF DeleteStatement
  <2>5. Ids(tx[w].issues)' = Ids(tx[w].issues)
    BY <1>4 DEF Ids
  <2> QED BY <1>1, <1>2, <1>3, <1>4, <2>2, <2>3, <2>4, <2>5 DEF ChangesOf
<1> QED BY <1>2, <1>4, <1>5, <1>6, <1>7 DEF WriterInv

(* InsertIssue: its row replaces an earlier version of the same page, and  *)
(* the delete that follows it is still to come.                            *)
LEMMA InsertIssueInv ==
  ASSUME NEW w \in Writers, Shape, WriterInv(w), InsertIssue(w)
  PROVE  /\ WriterInv(w)'
         /\ \A v \in Writers \ {w} :
              Ids(tx'[w].issues) \cap Ids(tx[v].issues) \subseteq
              Ids(tx[w].issues) \cap Ids(tx[v].issues)
<1>1. PICK s \in todo[w] :
        /\ s.op = "issue" /\ Succeeds(w, s)
        /\ tx' = [tx EXCEPT ![w].issues =
                    Upsert(@, {[id |-> s.row.id, of |-> s.row.of, by |-> s.by]})]
  BY DEF InsertIssue
<1>2. /\ page' = page /\ authors' = authors /\ changes' = changes
      /\ todo'[w] = todo[w] \ {s} /\ Live(w) /\ Done(w)' = Done(w) \cup {s} /\ OrderedOf(w)'
      /\ s \in Statements(w)
  BY <1>1, Executed
<1>3. IsTx(tx[w]) /\ ChangesOf(w) /\ IssuesOf(w) /\ OrderedOf(w)
  BY DEF WriterInv, TxOf
<1>4. PICK i \in DOMAIN page[w] :
        page[w][i].id # Null /\ s = IssueStatement(page[w][i], <<w, i>>)
  <2>1. PICK i \in DOMAIN page[w] : Kind(w, s, i)
    BY <1>2, Kinds
  <2> QED BY <2>1, <1>1 DEF Kind
<1>5. [id |-> s.row.id, of |-> s.row.of, by |-> s.by] = IssueRow(w, i)
  BY <1>4 DEF IssueStatement, MapIssueToRaw, IssueRow
<1> DEFINE new == Upsert(tx[w].issues, {IssueRow(w, i)})
<1>6. /\ tx'[w].open = tx[w].open /\ tx'[w].aborted = tx[w].aborted
      /\ tx'[w].authors = tx[w].authors /\ tx'[w].issues = new
      /\ tx'[w].inserted = tx[w].inserted /\ tx'[w].deleted = tx[w].deleted
      /\ IsTx(tx'[w])
  <2> HIDE DEF new
  <2>1. tx'[w] = [tx[w] EXCEPT !.issues = new]
    BY <1>1, <1>5 DEF Shape, new
  <2> QED BY <2>1, <1>3 DEF IsTx
<1>7. TxOf(w)' /\ InvalidOf(w)' /\ AuthorsOf(w)'
  BY <1>1, <1>6, ExecutedKeeps
<1> DEFINE row == IssueRow(w, i)
<1>8. row.id = page[w][i].id /\ row.of = page[w][i] /\ row.by = <<w, i>> /\ row.by[2] = i
  BY DEF IssueRow
<1> HIDE DEF row
<1>9. /\ row \in tx'[w].issues
      /\ \A r \in tx'[w].issues : r = row \/ (r \in tx[w].issues /\ r.id # row.id)
      /\ \A r \in tx[w].issues : r.id # row.id => r \in tx'[w].issues
  BY <1>6 DEF Upsert, row
<1>10. \A r : r \in tx[w].issues => r.id \in Ids(tx'[w].issues)
  BY <1>9 DEF Ids
<1>11. row.id \in Ids(tx'[w].issues)
  BY <1>9 DEF Ids
<1>12. \A t : t.op # "issue" /\ t \in todo[w] => t \in todo'[w]
  BY <1>1, <1>2
<1>13. s.at = <<i, 2, 0, 0>> /\ Executing(w, s)
  BY <1>1, <1>4 DEF IssueStatement, Succeeds
<1>14. IssuesOf(w)'
  <2>1. \A j : Written(w, j) => Written(w, j)'
    BY <1>2 DEF Written
  <2>2. Written(w, i)'
    BY <1>2, <1>4 DEF Written
  <2>3. \A j : IssueRow(w, j)' = IssueRow(w, j)
    BY <1>2 DEF IssueRow
  <2>4. \A r \in tx'[w].issues : \E j \in DOMAIN page[w] : r = IssueRow(w, j) /\ Written(w, j)'
    BY <1>3, <1>9, <2>1, <2>2 DEF IssuesOf, row
  <2>5. ASSUME NEW j \in DOMAIN page[w], Written(w, j)'
        PROVE  /\ page[w][j].id \in Ids(tx'[w].issues)
               /\ \A r \in tx'[w].issues : r.id = page[w][j].id => j <= r.by[2]
    <3>1. CASE j = i
      <4>1. i \in Nat
        BY PageIssues
      <4> QED BY <3>1, <4>1, <1>8, <1>9, <1>11
    <3>2. CASE j # i
      <4> DEFINE t == IssueStatement(page[w][j], <<w, j>>)
      <4>1. t.at = <<j, 2, 0, 0>>
        BY DEF IssueStatement
      <4>2. t # s
        BY <4>1, <1>13, <3>2
      <4>3. Written(w, j)
        BY <4>2, <2>5, <1>2 DEF Written
      <4>4. t \in Statements(w) /\ t \notin todo[w]
        BY <4>3, HasStatements DEF Written
      <4>5. j <= i
        <5>1. i \in Nat /\ j \in Nat
          BY PageIssues
        <5>2. ~Before(s.at, t.at)
          BY <1>1, <1>3, <1>13, <4>4, OrderAround
        <5>3. ~(s.at[1] < t.at[1])
          BY <5>2, EarlierIssue
        <5> QED BY <5>1, <5>3, <4>1, <1>13
      <4>6. /\ page[w][j].id \in Ids(tx[w].issues)
            /\ \A r \in tx[w].issues : r.id = page[w][j].id => j <= r.by[2]
        BY <4>3, <1>2, <1>3 DEF IssuesOf
      <4>7. page[w][j].id \in Ids(tx'[w].issues)
        BY <4>6, <1>10 DEF Ids
      <4> QED BY <4>5, <4>6, <4>7, <1>8, <1>9
    <3> QED BY <3>1, <3>2
  <2> QED BY <2>3, <2>4, <2>5, <1>2 DEF IssuesOf
<1>15. ChangesOf(w)'
  <2>1. SeenChanges(w)' = SeenChanges(w)
    BY <1>2, <1>6 DEF SeenChanges
  <2>2. \A id : OwnChanges(w, id)' = OwnChanges(w, id)
    BY <2>1 DEF OwnChanges
  <2>3. LeftRows(w)' = LeftRows(w)
    BY <1>1, <1>2 DEF LeftRows
  <2>4. \A r : DeleteStatement(r.of, r.by).op = "delete"
    BY DEF DeleteStatement
  <2>5. Ids(tx[w].issues) \subseteq Ids(tx'[w].issues)
    BY <1>10 DEF Ids
  <2>6. DeleteStatement(row.of, row.by) \in todo'[w]
    <3> DEFINE d == DeleteStatement(page[w][i], <<w, i>>)
    <3>1. d \in Statements(w) /\ d.at = <<i, 3, 0, 0>> /\ d.op = "delete"
      BY <1>4, HasStatements DEF DeleteStatement
    <3>2. Before(s.at, d.at)
      BY <3>1, <1>13, EarlierPart
    <3>3. d \in todo[w]
      BY <3>1, <3>2, <1>3, <1>13, <1>1, OrderAround
    <3> QED BY <3>1, <3>3, <1>8, <1>12
  <2>7. \A c \in tx'[w].deleted \cup tx'[w].inserted : c.issue \in Ids(tx'[w].issues)
    BY <2>5, <1>3, <1>6 DEF ChangesOf
  <2>8. ASSUME NEW r \in tx'[w].issues
        PROVE  \/ DeleteStatement(r.of, r.by) \in todo'[w]
               \/ OwnChanges(w, r.id)' = ChangeRows(r.of, r.by) \ LeftRows(w)'
    <3>1. CASE r = row
      BY <3>1, <2>6
    <3>2. CASE r \in tx[w].issues
      BY <3>2, <2>2, <2>3, <2>4, <1>3, <1>12 DEF ChangesOf
    <3> QED BY <3>1, <3>2, <1>9
  <2>9. Ids(tx[w].issues)' = Ids(tx'[w].issues)
    BY DEF Ids
  <2> QED BY <2>7, <2>8, <2>9 DEF ChangesOf
<1>16. ASSUME NEW v \in Writers \ {w}
       PROVE  Ids(tx'[w].issues) \cap Ids(tx[v].issues) \subseteq
              Ids(tx[w].issues) \cap Ids(tx[v].issues)
  <2>1. ~Waits(w, s, v)
    BY <1>1 DEF Succeeds
  <2>2. s.row.id \notin Ids(tx[v].issues)
    BY <2>1, <1>1 DEF Waits
  <2>3. s.row.id = row.id
    BY <1>4, <1>8 DEF IssueStatement, MapIssueToRaw
  <2>4. \A id \in Ids(tx'[w].issues) : id = row.id \/ id \in Ids(tx[w].issues)
    BY <1>9 DEF Ids
  <2> QED BY <2>2, <2>3, <2>4
<1> QED BY <1>2, <1>7, <1>14, <1>15, <1>16 DEF WriterInv

(* While the status changes of issue i are replaced, the row that the      *)
(* transaction holds for its id is the one just written.                   *)
LEMMA CurrentRow ==
  ASSUME NEW w \in Writers, Shape, WriterInv(w), Live(w), NEW s \in todo[w], Executing(w, s),
         NEW i \in DOMAIN page[w], page[w][i].id # Null, s.at[1] = i, 2 < s.at[2]
  PROVE  /\ page[w][i].id \in Ids(tx[w].issues)
         /\ \A r \in tx[w].issues : r.id = page[w][i].id => r = IssueRow(w, i)
<1>1. IssuesOf(w) /\ OrderedOf(w)
  BY DEF WriterInv
<1>2. \A j : IssueStatement(page[w][j], <<w, j>>).at = <<j, 2, 0, 0>>
  BY DEF IssueStatement
<1>3. Written(w, i)
  <2> DEFINE t == IssueStatement(page[w][i], <<w, i>>)
  <2>1. t \in Statements(w) /\ t.at[1] = i /\ t.at[2] = 2
    <3>1. t \in Statements(w)
      BY HasStatements
    <3>2. t.at = <<i, 2, 0, 0>>
      BY <1>2
    <3> HIDE DEF t
    <3> QED BY <3>1, <3>2
  <2>2. Before(t.at, s.at)
    <3> HIDE DEF t
    <3> QED BY <2>1, EarlierPart
  <2> QED BY <2>1, <2>2, <1>1, OrderAround DEF Written
<1>4. page[w][i].id \in Ids(tx[w].issues)
  BY <1>1, <1>3 DEF IssuesOf
<1>5. ASSUME NEW r \in tx[w].issues, r.id = page[w][i].id
      PROVE  r = IssueRow(w, i)
  <2>1. PICK j \in DOMAIN page[w] : r = IssueRow(w, j) /\ Written(w, j)
    BY <1>1 DEF IssuesOf
  <2>2. r.by[2] = j
    BY <2>1 DEF IssueRow
  <2>3. i <= j
    BY <1>1, <1>3, <1>5, <2>2 DEF IssuesOf
  <2>4. i \in Nat /\ j \in Nat
    BY PageIssues
  <2>5. ~(i < j)
    <3> DEFINE t == IssueStatement(page[w][j], <<w, j>>)
    <3>1. t \in Statements(w) /\ t \notin todo[w] /\ t.at[1] = j
      <4>1. t \in Statements(w) /\ t \notin todo[w]
        BY <2>1, HasStatements DEF Written
      <4>2. t.at = <<j, 2, 0, 0>>
        BY <1>2
      <4> HIDE DEF t
      <4> QED BY <4>1, <4>2
    <3>2. ~Before(s.at, t.at)
      BY <3>1, <1>1, OrderAround
    <3> HIDE DEF t
    <3> QED BY <3>1, <3>2, EarlierIssue
  <2> QED BY <2>1, <2>3, <2>4, <2>5
<1> QED BY <1>4, <1>5

(* The rows of a changelog name the issue and the run that writes them.    *)
LEMMA ChangeRowOf ==
  ASSUME NEW issue, NEW by, NEW c \in ChangeRows(issue, by)
  PROVE  c.issue = issue.id /\ c.by = by
  BY DEF ChangeRows

(* DeleteStatusChangesByIssue: no change of the issue is left to be seen,  *)
(* and all those of the new version are still to come.                     *)
LEMMA DeleteInv ==
  ASSUME NEW w \in Writers, Shape, WriterInv(w), DeleteStatusChangesByIssue(w)
  PROVE  WriterInv(w)' /\ tx'[w].issues = tx[w].issues
<1>1. PICK s \in todo[w] :
        /\ s.op = "delete" /\ Succeeds(w, s)
        /\ tx' = [tx EXCEPT ![w].deleted = @ \cup {c \in SeenChanges(w) : c.issue = s.issue},
                            ![w].inserted = {c \in @ : c.issue # s.issue}]
  BY DEF DeleteStatusChangesByIssue
<1>2. /\ page' = page /\ authors' = authors /\ changes' = changes
      /\ todo'[w] = todo[w] \ {s} /\ Live(w) /\ Done(w)' = Done(w) \cup {s} /\ OrderedOf(w)'
      /\ s \in Statements(w)
  BY <1>1, Executed
<1>3. IsTx(tx[w]) /\ ChangesOf(w) /\ IssuesOf(w) /\ OrderedOf(w)
  BY DEF WriterInv, TxOf
<1>4. PICK i \in DOMAIN page[w] :
        page[w][i].id # Null /\ s = DeleteStatement(page[w][i], <<w, i>>)
  <2>1. PICK i \in DOMAIN page[w] : Kind(w, s, i)
    BY <1>2, Kinds
  <2> QED BY <2>1, <1>1 DEF Kind
<1>5. s.at = <<i, 3, 0, 0>> /\ s.issue = page[w][i].id
  BY <1>4 DEF DeleteStatement
<1> DEFINE del == tx[w].deleted \cup {c \in SeenChanges(w) : c.issue = s.issue}
           ins == {c \in tx[w].inserted : c.issue # s.issue}
<1>6. /\ tx'[w].open = tx[w].open /\ tx'[w].aborted = tx[w].aborted
      /\ tx'[w].authors = tx[w].authors /\ tx'[w].issues = tx[w].issues
      /\ tx'[w].inserted = ins /\ tx'[w].deleted = del
      /\ IsTx(tx'[w])
  <2> HIDE DEF del, ins
  <2>1. tx'[w] = [tx[w] EXCEPT !.deleted = del, !.inserted = ins]
    BY <1>1, <1>3 DEF Shape, del, ins, IsTx
  <2> QED BY <2>1, <1>3 DEF IsTx
<1>7. TxOf(w)' /\ InvalidOf(w)' /\ AuthorsOf(w)' /\ IssuesOf(w)'
  BY <1>1, <1>6, ExecutedKeeps
<1>8. Executing(w, s)
  BY <1>1 DEF Succeeds
<1>9. /\ s.issue \in Ids(tx[w].issues)
      /\ \A r \in tx[w].issues : r.id = s.issue => r = IssueRow(w, i)
  BY <1>2, <1>4, <1>5, <1>8, CurrentRow
<1>10. ASSUME NEW c
       PROVE  c \in SeenChanges(w)' <=> c \in SeenChanges(w) /\ c.issue # s.issue
  BY <1>2, <1>6 DEF SeenChanges
<1>11. LeftRows(w)' = LeftRows(w)
  BY <1>1, <1>2 DEF LeftRows
<1>12. \A c \in tx'[w].deleted \cup tx'[w].inserted : c.issue \in Ids(tx[w].issues)
  BY <1>3, <1>6, <1>9 DEF ChangesOf
<1>13. ASSUME NEW r \in tx[w].issues
       PROVE  \/ DeleteStatement(r.of, r.by) \in todo'[w]
              \/ OwnChanges(w, r.id)' = ChangeRows(r.of, r.by) \ LeftRows(w)'
  <2>1. CASE r.id = s.issue
    <3>1. r.of = page[w][i] /\ r.by = <<w, i>>
      BY <1>9, <2>1 DEF IssueRow
    <3>2. OwnChanges(w, r.id)' = {}
      BY <1>10, <2>1 DEF OwnChanges
    <3>3. ASSUME NEW c \in ChangeRows(r.of, r.by)
          PROVE  c \in LeftRows(w)
      <4> DEFINE t == [op |-> "change", at |-> <<i, 4, c.at[1], c.at[2]>>, row |-> c]
      <4>1. t \in ChangeStatements(page[w][i], <<w, i>>)
        BY <3>1 DEF ChangeStatements
      <4>2. t \in Statements(w)
        BY <4>1, <1>4, HasStatements
      <4>3. t.op = "change" /\ t.row = c /\ t.at[1] = i /\ t.at[2] = 4
        OBVIOUS
      <4> HIDE DEF t
      <4>4. Before(s.at, t.at)
        BY <4>3, <1>5, EarlierPart
      <4>5. t \in todo[w]
        BY <4>2, <4>4, <1>3, <1>8, OrderAround
      <4> QED BY <4>3, <4>5 DEF LeftRows
    <3> QED BY <3>2, <3>3, <1>11
  <2>2. CASE r.id # s.issue
    <3>1. OwnChanges(w, r.id)' = OwnChanges(w, r.id)
      BY <1>10, <2>2 DEF OwnChanges
    <3>2. r.of.id = r.id
      BY <1>3 DEF IssuesOf, IssueRow
    <3>3. DeleteStatement(r.of, r.by).issue # s.issue
      BY <3>2, <2>2 DEF DeleteStatement
    <3> QED BY <3>1, <3>3, <1>2, <1>3, <1>11 DEF ChangesOf
  <2> QED BY <2>1, <2>2
<1>14. ChangesOf(w)'
  <2>1. Ids(tx[w].issues)' = Ids(tx[w].issues)
    BY <1>6 DEF Ids
  <2> QED BY <1>6, <1>12, <1>13, <2>1 DEF ChangesOf
<1> QED BY <1>2, <1>6, <1>7, <1>14 DEF WriterInv

(* InsertStatusChange adds to what is seen of its issue the one change     *)
(* that it takes from those to come.                                       *)
LEMMA InsertStatusChangeInv ==
  ASSUME NEW w \in Writers, Shape, WriterInv(w), InsertStatusChange(w)
  PROVE  WriterInv(w)' /\ tx'[w].issues = tx[w].issues
<1>1. PICK s \in todo[w] :
        /\ s.op = "change" /\ Succeeds(w, s)
        /\ tx' = [tx EXCEPT ![w].inserted = @ \cup {s.row}]
  BY DEF InsertStatusChange
<1>2. /\ page' = page /\ authors' = authors /\ changes' = changes
      /\ todo'[w] = todo[w] \ {s} /\ Live(w) /\ Done(w)' = Done(w) \cup {s} /\ OrderedOf(w)'
      /\ s \in Statements(w)
  BY <1>1, Executed
<1>3. IsTx(tx[w]) /\ ChangesOf(w) /\ IssuesOf(w) /\ OrderedOf(w)
  BY DEF WriterInv, TxOf
<1>4. PICK i \in DOMAIN page[w] : page[w][i].id # Null /\ \E q \in ChangeRows(page[w][i], <<w, i>>) :
        s = [op |-> "change", at |-> <<i, 4, q.at[1], q.at[2]>>, row |-> q]
  <2>1. PICK i \in DOMAIN page[w] : Kind(w, s, i)
    BY <1>2, Kinds
  <2> QED BY <2>1, <1>1 DEF Kind
<1>5. PICK q \in ChangeRows(page[w][i], <<w, i>>) :
        s = [op |-> "change", at |-> <<i, 4, q.at[1], q.at[2]>>, row |-> q]
  BY <1>4
<1>6. s.at[1] = i /\ s.at[2] = 4 /\ s.row = q /\ q.issue = page[w][i].id /\ q.by = <<w, i>>
  BY <1>5, ChangeRowOf
<1>7. /\ tx'[w].open = tx[w].open /\ tx'[w].aborted = tx[w].aborted
      /\ tx'[w].authors = tx[w].authors /\ tx'[w].issues = tx[w].issues
      /\ tx'[w].inserted = tx[w].inserted \cup {q} /\ tx'[w].deleted = tx[w].deleted
      /\ IsTx(tx'[w])
  <2>1. tx'[w] = [tx[w] EXCEPT !.inserted = tx[w].inserted \cup {q}]
    BY <1>1, <1>6 DEF Shape
  <2> QED BY <2>1, <1>3 DEF IsTx
<1>8. TxOf(w)' /\ InvalidOf(w)' /\ AuthorsOf(w)' /\ IssuesOf(w)'
  BY <1>1, <1>7, ExecutedKeeps
<1>9. Executing(w, s)
  BY <1>1 DEF Succeeds
<1>10. /\ q.issue \in Ids(tx[w].issues)
       /\ \A r \in tx[w].issues : r.id = q.issue => r = IssueRow(w, i)
  <2>1. s.at[1] = i /\ 2 < s.at[2]
    BY <1>6
  <2> QED BY <1>2, <1>4, <1>6, <1>9, <2>1, CurrentRow
<1>11. SeenChanges(w)' = SeenChanges(w) \cup {q}
  BY <1>2, <1>7 DEF SeenChanges
<1>12. LeftRows(w)' = LeftRows(w) \ {q}
  <2>1. ASSUME NEW t \in todo[w], t.op = "change", t.row = q
        PROVE  t = s
    <3>1. t \in Statements(w)
      BY <1>3 DEF OrderedOf
    <3>2. PICK j \in DOMAIN page[w] : \E c \in ChangeRows(page[w][j], <<w, j>>) :
            t = [op |-> "change", at |-> <<j, 4, c.at[1], c.at[2]>>, row |-> c]
      <4>1. PICK j \in DOMAIN page[w] : Kind(w, t, j)
        BY <3>1, Kinds
      <4> QED BY <4>1, <2>1 DEF Kind
    <3>3. PICK c \in ChangeRows(page[w][j], <<w, j>>) :
            t = [op |-> "change", at |-> <<j, 4, c.at[1], c.at[2]>>, row |-> c]
      BY <3>2
    <3>4. c = q
      BY <3>3, <2>1
    <3>5. c.by = <<w, j>>
      BY ChangeRowOf
    <3>6. i = j
      BY <3>4, <3>5, <1>6
    <3> QED BY <3>3, <3>4, <3>6, <1>5
  <2>2. \A c : c \in LeftRows(w) <=> \E t \in todo[w] : t.op = "change" /\ t.row = c
    BY DEF LeftRows
  <2>3. \A c : c \in LeftRows(w)' <=> \E t \in todo'[w] : t.op = "change" /\ t.row = c
    BY DEF LeftRows
  <2>4. \A c : c \in LeftRows(w)' <=> c \in LeftRows(w) /\ c # q
    BY <2>1, <2>2, <2>3, <1>1, <1>2, <1>6
  <2> QED BY <2>4
<1>13. \A c \in tx'[w].deleted \cup tx'[w].inserted : c.issue \in Ids(tx[w].issues)
  BY <1>3, <1>7, <1>10 DEF ChangesOf
<1>14. ASSUME NEW r \in tx[w].issues
       PROVE  \/ DeleteStatement(r.of, r.by) \in todo'[w]
              \/ OwnChanges(w, r.id)' = ChangeRows(r.of, r.by) \ LeftRows(w)'
  <2>1. CASE r.id = q.issue
    <3>1. r.of = page[w][i] /\ r.by = <<w, i>>
      BY <1>10, <2>1 DEF IssueRow
    <3>2. DeleteStatement(r.of, r.by) \notin todo[w]
      <4> DEFINE d == DeleteStatement(page[w][i], <<w, i>>)
      <4>1. d \in Statements(w) /\ d.at[1] = i /\ d.at[2] = 3
        BY <1>4, HasStatements DEF DeleteStatement
      <4> HIDE DEF d
      <4>2. Before(d.at, s.at)
        BY <4>1, <1>6, EarlierPart
      <4>3. d \notin todo[w]
        BY <4>1, <4>2, <1>3, <1>9, OrderAround
      <4> QED BY <4>3, <3>1 DEF d
    <3>3. OwnChanges(w, r.id) = ChangeRows(r.of, r.by) \ LeftRows(w)
      BY <3>2, <1>3 DEF ChangesOf
    <3>4. OwnChanges(w, r.id)' = OwnChanges(w, r.id) \cup {q}
      BY <1>11, <2>1 DEF OwnChanges
    <3>5. q \in ChangeRows(r.of, r.by)
      BY <3>1
    <3> QED BY <3>3, <3>4, <3>5, <1>12
  <2>2. CASE r.id # q.issue
    <3>1. OwnChanges(w, r.id)' = OwnChanges(w, r.id)
      BY <1>11, <2>2 DEF OwnChanges
    <3>2. r.of.id = r.id
      BY <1>3 DEF IssuesOf, IssueRow
    <3>3. q \notin ChangeRows(r.of, r.by)
      BY <3>2, <2>2, ChangeRowOf
    <3>4. DeleteStatement(r.of, r.by) # s
      BY <1>1 DEF DeleteStatement
    <3> QED BY <3>1, <3>3, <3>4, <1>2, <1>3, <1>12 DEF ChangesOf
  <2> QED BY <2>1, <2>2
<1>15. ChangesOf(w)'
  <2>1. Ids(tx[w].issues)' = Ids(tx[w].issues)
    BY <1>7 DEF Ids
  <2> QED BY <1>7, <1>13, <1>14, <2>1 DEF ChangesOf
<1> QED BY <1>2, <1>7, <1>8, <1>15 DEF WriterInv

-----------------------------------------------------------------------------
(* The authors in a transaction are mentioned by its page.                 *)
LEMMA AuthorOfPage ==
  ASSUME Shape, NEW w \in Writers, AuthorsOf(w), NEW a \in tx[w].authors
  PROVE  /\ a.id \in 0 .. IntRange - 1
         /\ \E i \in DOMAIN page[w] : \E n \in DOMAIN collectAuthors(page[w][i]) :
              a.id = HashID(collectAuthors(page[w][i])[n])
<1>1. PICK s \in Statements(w) : s.op = "author" /\ s.row = a
  BY DEF AuthorsOf, Done
<1>2. PICK i \in DOMAIN page[w] : Kind(w, s, i)
  BY Kinds
<1>3. PICK n \in DOMAIN collectAuthors(page[w][i]) :
        a = MapAuthorToRaw(collectAuthors(page[w][i])[n])
  BY <1>1, <1>2 DEF Kind
<1>4. a.id = HashID(collectAuthors(page[w][i])[n])
  BY <1>3 DEF MapAuthorToRaw
<1>5. collectAuthors(page[w][i])[n] \in Name
  BY PageIssues, CollectsAuthors
<1> QED BY <1>4, <1>5, HashIDRange

(* What the database holds once w has committed: with every statement      *)
(* executed, the changes w sees are those of the issues it sees.           *)
LEMMA CommitRows ==
  ASSUME IInv, NEW w \in Writers, Live(w), todo[w] = {}, Persist(w)
  PROVE  /\ ChangesMatchIssue' /\ RowsOfIssues' /\ AuthorRange'
         /\ authors \subseteq authors'
         /\ \A v \in Writers \ {w} :
              \A c : c.issue \in Ids(tx[v].issues) => (c \in changes' <=> c \in changes)
<1>1. AuthorsOf(w) /\ IssuesOf(w) /\ ChangesOf(w) /\ Shape
  BY DEF IInv, WriterInv
<1>2. authors' = SeenAuthors(w) /\ issues' = SeenIssues(w) /\ changes' = SeenChanges(w)
  BY DEF Persist
<1>3. /\ \A r \in issues : r.of.id = r.id
      /\ \A r \in tx[w].issues : r.of.id = r.id
  BY <1>1 DEF IInv, RowsOfIssues, IssuesOf, IssueRow
<1>4. RowsOfIssues'
  BY <1>2, <1>3 DEF RowsOfIssues, SeenIssues, Upsert
<1>5. AuthorRange'
  <2>1. \A a \in tx[w].authors : a.id \in 0 .. IntRange - 1
    BY <1>1, AuthorOfPage
  <2> QED BY <2>1, <1>2 DEF IInv, AuthorRange, SeenAuthors
<1>6. \A c : c \in changes <=> \E r \in issues : c \in ChangeRows(r.of, r.by)
  BY DEF IInv, ChangesMatchIssue
<1>7. \A c : c.issue \notin Ids(tx[w].issues) => (c \in changes' <=> c \in changes)
  BY <1>1, <1>2 DEF ChangesOf, SeenChanges
<1>8. ASSUME NEW r \in tx[w].issues, NEW c
      PROVE  c \in changes' /\ c.issue = r.id <=> c \in ChangeRows(r.of, r.by)
  <2>1. LeftRows(w) = {}
    BY DEF LeftRows
  <2>2. OwnChanges(w, r.id) = ChangeRows(r.of, r.by)
    BY <2>1, <1>1 DEF ChangesOf
  <2>3. c \in OwnChanges(w, r.id) <=> c \in changes' /\ c.issue = r.id
    BY <1>2 DEF OwnChanges
  <2> QED BY <2>2, <2>3
<1>9. /\ tx[w].issues \subseteq issues'
      /\ \A r \in issues' : r \in tx[w].issues \/ (r \in issues /\ r.id \notin Ids(tx[w].issues))
      /\ \A r \in issues : r.id \notin Ids(tx[w].issues) => r \in issues'
  BY <1>2 DEF SeenIssues, Upsert, Ids
<1>10. ASSUME NEW c
       PROVE  c \in changes' <=> \E r \in issues' : c \in ChangeRows(r.of, r.by)
  <2>1. CASE c.issue \in Ids(tx[w].issues)
    <3>1. PICK r \in tx[w].issues : r.id = c.issue
      BY <2>1 DEF Ids
    <3>2. ASSUME c \in changes'
          PROVE  \E q \in issues' : c \in ChangeRows(q.of, q.by)
      BY <3>1, <3>2, <1>8, <1>9
    <3>3. ASSUME NEW q \in issues', c \in ChangeRows(q.of, q.by)
          PROVE  c \in changes'
      <4>1. q.id = c.issue
        BY <3>3, <1>3, <1>9, ChangeRowOf
      <4>2. q \in tx[w].issues
        BY <4>1, <2>1, <1>9
      <4> QED BY <4>2, <3>3, <1>8
    <3> QED BY <3>2, <3>3
  <2>2. CASE c.issue \notin Ids(tx[w].issues)
    <3>1. \A r \in issues : c \in ChangeRows(r.of, r.by) => r \in issues'
      BY <2>2, <1>3, <1>9, ChangeRowOf
    <3>2. \A r \in issues' : c \in ChangeRows(r.of, r.by) => r \in issues
      <4>1. ASSUME NEW r \in tx[w].issues
            PROVE  c \notin ChangeRows(r.of, r.by)
        BY <1>8, <2>2 DEF Ids
      <4> QED BY <4>1, <1>9
    <3> QED BY <3>1, <3>2, <2>2, <1>6, <1>7
  <2> QED BY <2>1, <2>2
<1>11. ChangesMatchIssue'
  <2>1. \A c : c \in UNION {ChangeRows(r.of, r.by) : r \in issues'}
                <=> \E r \in issues' : c \in ChangeRows(r.of, r.by)
    OBVIOUS
  <2> QED BY <2>1, <1>10 DEF ChangesMatchIssue
<1>12. ASSUME NEW v \in Writers \ {w}, NEW c, c.issue \in Ids(tx[v].issues)
       PROVE  c \in changes' <=> c \in changes
  <2>1. c.issue \notin Ids(tx[w].issues)
    BY <1>12 DEF IInv, Exclusive
  <2> QED BY <2>1, <1>7
<1>13. authors \subseteq authors'
  BY <1>2 DEF SeenAuthors
<1> QED BY <1>4, <1>5, <1>11, <1>12, <1>13

-----------------------------------------------------------------------------
(* What a step of w leaves alone.                                          *)
Others(w) ==
  /\ page' = page
  /\ \A v \in Writers : v # w =>
       tx'[v] = tx[v] /\ todo'[v] = todo[v] /\ begun'[v] = begun[v] /\ result'[v] = result[v]

(* Putting a step of w together: its own part of the invariant, and the    *)
(* ids it holds, decide.                                                   *)
LEMMA StepOf ==
  ASSUME IInv, NEW w \in Writers, Others(w), Shape', WriterInv(w)',
         authors' = authors, issues' = issues, changes' = changes,
         \A v \in Writers \ {w} :
           Ids(tx'[w].issues) \cap Ids(tx[v].issues) \subseteq
           Ids(tx[w].issues) \cap Ids(tx[v].issues)
  PROVE  IInv'
<1>1. \A v \in Writers : WriterInv(v)'
  <2>1. ASSUME NEW v \in Writers, v # w
        PROVE  WriterInv(v)'
    <3>1. /\ page' = page /\ tx'[v] = tx[v] /\ todo'[v] = todo[v]
          /\ begun'[v] = begun[v] /\ result'[v] = result[v]
      BY <2>1 DEF Others
    <3> QED BY <3>1, OtherWriter DEF IInv
  <2> QED BY <2>1
<1>2. Exclusive'
  <2>1. \A v \in Writers \ {w} : Ids(tx'[w].issues) \cap Ids(tx[v].issues) = {}
    BY DEF IInv, Exclusive
  <2>2. \A v \in Writers \ {w} : tx'[v] = tx[v]
    BY DEF Others
  <2>3. \A u, v \in Writers : u # v => Ids(tx'[u].issues) \cap Ids(tx'[v].issues) = {}
    BY <2>1, <2>2 DEF IInv, Exclusive
  <2>4. \A v \in Writers : Ids(tx[v].issues)' = Ids(tx'[v].issues)
    BY DEF Ids
  <2> QED BY <2>3, <2>4 DEF Exclusive
<1>3. AuthorRange' /\ RowsOfIssues' /\ ChangesMatchIssue'
  BY DEF IInv, AuthorRange, RowsOfIssues, ChangesMatchIssue
<1> QED BY <1>1, <1>2, <1>3 DEF IInv

(* A function of the writers stays one under EXCEPT.                       *)
LEMMA Except ==
  ASSUME NEW f, NEW g, f = [v \in Writers |-> f[v]], NEW w \in Writers, NEW x,
         g = [f EXCEPT ![w] = x]
  PROVE  /\ g = [v \in Writers |-> g[v]] /\ g[w] = x
         /\ \A v \in Writers : v # w => g[v] = f[v]
  OBVIOUS

(* The steps that touch no statement: NewTx fails, the timeout passes.     *)
LEMMA IdleStep ==
  ASSUME IInv, NEW w \in Writers, BeginFails(w) \/ Timeout(w)
  PROVE  IInv'
<1>1. /\ tx' = tx /\ page' = page /\ begun' = begun /\ todo' = todo
      /\ authors' = authors /\ issues' = issues /\ changes' = changes
  BY DEF BeginFails, Timeout, db
<1>2. tx[w].open => result'[w] = result[w]
  <2>1. TxOf(w)
    BY DEF IInv, WriterInv
  <2> QED BY <2>1 DEF TxOf, BeginFails, Timeout
<1>3. WriterInv(w)'
  <2>1. WriterInv(w)
    BY DEF IInv
  <2> QED BY <1>1, <1>2, <2>1, OtherWriter
<1>4. Others(w) /\ Shape'
  BY <1>1 DEF IInv, Shape, Others, BeginFails, Timeout
<1>5. \A v \in Writers \ {w} : Ids(tx'[w].issues) = Ids(tx[w].issues)
  BY <1>1
<1> QED BY <1>1, <1>3, <1>4, <1>5, StepOf

(* NewTx: a transaction begins before any statement.                       *)
LEMMA BeginStep ==
  ASSUME IInv, NEW w \in Writers, Begin(w)
  PROVE  IInv'
<1> DEFINE t == EmptyTx(TRUE, FALSE)
<1>1. /\ tx' = [tx EXCEPT ![w] = t] /\ begun' = [begun EXCEPT ![w] = TRUE]
      /\ page' = page /\ todo' = todo /\ result' = result /\ ctxDone' = ctxDone
      /\ authors' = authors /\ issues' = issues /\ changes' = changes
      /\ ~begun[w] /\ result[w] = "none"
  BY DEF Begin, db
<1>2. IsTx(t) /\ NoRows(t) /\ t.open /\ ~t.aborted
  BY EmptyTxFacts
<1> HIDE DEF t
<1>3. Shape /\ WriterInv(w)
  BY DEF IInv
<1>4. /\ tx' = [v \in Writers |-> tx'[v]] /\ tx'[w] = t
      /\ \A v \in Writers : v # w => tx'[v] = tx[v]
  BY <1>1, <1>3, Except DEF Shape
<1>5. Shape' /\ Others(w) /\ begun'[w] = TRUE
  BY <1>1, <1>3, <1>4 DEF Shape, Others
<1>6. WriterInv(w)'
  <2>1. TxOf(w)'
    BY <1>1, <1>2, <1>4, <1>5 DEF TxOf, Live
  <2>2. Done(w)' = {} /\ todo'[w] = Statements(w)' /\ InvalidOf(w)'
    BY <1>1, <1>3 DEF WriterInv, OrderedOf, InvalidOf, Done, Statements
  <2>3. OrderedOf(w)'
    BY <2>2 DEF OrderedOf
  <2>4. AuthorsOf(w)' /\ ChangesOf(w)'
    BY <2>2, <1>2, <1>4 DEF AuthorsOf, ChangesOf, NoRows
  <2>5. \A i \in DOMAIN page[w] : ~Written(w, i)'
    <3>1. todo[w] = Statements(w)
      BY <1>1, <1>3 DEF WriterInv, OrderedOf
    <3> QED BY <3>1, <1>1, HasStatements DEF Written
  <2>6. IssuesOf(w)'
    BY <2>5, <1>1, <1>2, <1>4 DEF IssuesOf, NoRows
  <2> QED BY <2>1, <2>2, <2>3, <2>4, <2>6 DEF WriterInv
<1>7. Ids(tx'[w].issues) = {}
  BY <1>2, <1>4 DEF Ids, NoRows
<1> QED BY <1>1, <1>5, <1>6, <1>7, StepOf

(* A statement is executed.                                                *)
LEMMA ExecuteStep ==
  ASSUME IInv, NEW w \in Writers, Execute(w)
  PROVE  IInv'
<1>1. Shape /\ WriterInv(w)
  BY DEF IInv
<1>2. PICK s \in todo[w] : Succeeds(w, s)
  BY DEF Execute, InsertAuthor, InsertIssue, DeleteStatusChangesByIssue, InsertStatusChange
<1>3. /\ page' = page /\ begun' = begun /\ result' = result /\ ctxDone' = ctxDone
      /\ authors' = authors /\ issues' = issues /\ changes' = changes
      /\ todo' = [todo EXCEPT ![w] = todo[w] \ {s}]
      /\ \A v \in Writers : v # w => todo'[v] = todo[v]
  BY <1>1, <1>2, Executed
<1>4. tx' = [v \in Writers |-> tx'[v]] /\ \A v \in Writers : v # w => tx'[v] = tx[v]
  BY <1>1 DEF Execute, InsertAuthor, InsertIssue, DeleteStatusChangesByIssue,
              InsertStatusChange, Shape
<1>5. todo' = [v \in Writers |-> todo'[v]]
  BY <1>1, <1>3, Except DEF Shape
<1>6. Shape' /\ Others(w)
  BY <1>1, <1>3, <1>4, <1>5 DEF Shape, Others
<1>7. /\ WriterInv(w)'
      /\ \A v \in Writers \ {w} :
           Ids(tx'[w].issues) \cap Ids(tx[v].issues) \subseteq
           Ids(tx[w].issues) \cap Ids(tx[v].issues)
  <2>1. CASE InsertAuthor(w)
    BY <2>1, <1>1, InsertAuthorInv
  <2>2. CASE InsertIssue(w)
    BY <2>2, <1>1, InsertIssueInv
  <2>3. CASE DeleteStatusChangesByIssue(w)
    BY <2>3, <1>1, DeleteInv
  <2>4. CASE InsertStatusChange(w)
    BY <2>4, <1>1, InsertStatusChangeInv
  <2> QED BY <2>1, <2>2, <2>3, <2>4 DEF Execute
<1> QED BY <1>3, <1>6, <1>7, StepOf

(* A transaction is given up: a statement or the commit fails, or          *)
(* database/sql rolls back after the timeout.                              *)
LEMMA GiveUpStep ==
  ASSUME IInv, NEW w \in Writers,
         StatementFails(w) \/ CommitFails(w) \/ AwaitDone(w)
  PROVE  IInv'
<1>1. Shape /\ WriterInv(w)
  BY DEF IInv
<1>2. /\ page' = page /\ begun' = begun /\ ctxDone' = ctxDone
      /\ authors' = authors /\ issues' = issues /\ changes' = changes
  BY DEF StatementFails, StatusChangeFails, OperationFails, CommitFails, CommitEnds,
         AwaitDone, db
<1>3. tx' = [tx EXCEPT ![w] = NoTx] \/ (tx' = [tx EXCEPT ![w] = Aborted(w)] /\ result' = result)
  BY DEF StatementFails, StatusChangeFails, OperationFails, CommitFails, CommitEnds, AwaitDone
<1>4. \/ todo' = todo
      \/ \E s \in todo[w] : /\ s.op = "change" /\ Executing(w, s)
                            /\ todo' = [todo EXCEPT ![w] = todo[w] \ {s}]
  BY DEF StatementFails, StatusChangeFails, OperationFails, CommitFails, CommitEnds,
         AwaitDone, Advance
<1>5. /\ result' \in [Writers -> {"none", "nil", "err"}]
      /\ \A v \in Writers : v # w => result'[v] = result[v]
  BY <1>1 DEF StatementFails, StatusChangeFails, OperationFails, CommitFails, CommitEnds,
              AwaitDone, Shape
<1>6. IsTx(Aborted(w)) /\ NoRows(Aborted(w)) /\ Aborted(w).aborted /\ Aborted(w).open = tx[w].open
  <2>1. tx[w].open \in BOOLEAN
    BY <1>1 DEF WriterInv, TxOf, IsTx
  <2> QED BY <2>1, EmptyTxFacts DEF Aborted
<1>7. /\ tx' = [v \in Writers |-> tx'[v]]
      /\ tx'[w] = NoTx \/ (tx'[w] = Aborted(w) /\ result' = result)
      /\ \A v \in Writers : v # w => tx'[v] = tx[v]
  BY <1>1, <1>3, Except DEF Shape
<1>8. /\ todo' = [v \in Writers |-> todo'[v]]
      /\ todo'[w] = todo[w] \/ \E s \in todo[w] :
           s.op = "change" /\ Executing(w, s) /\ todo'[w] = todo[w] \ {s}
      /\ \A v \in Writers : v # w => todo'[v] = todo[v]
  BY <1>1, <1>4 DEF Shape
<1>9. Shape' /\ Others(w)
  BY <1>1, <1>2, <1>5, <1>7, <1>8 DEF Shape, Others
<1>10. IsTx(tx'[w]) /\ NoRows(tx'[w]) /\ ~Live(w)'
  BY <1>6, <1>7, NoTxFacts DEF Live
<1>11. tx'[w].open => begun'[w] /\ result'[w] = "none"
  BY <1>1, <1>2, <1>6, <1>7, NoTxFacts DEF WriterInv, TxOf
<1>12. WriterInv(w)'
  BY <1>1, <1>2, <1>8, <1>10, <1>11, Abandoned
<1>13. Ids(tx'[w].issues) = {}
  BY <1>10 DEF Ids, NoRows
<1> QED BY <1>2, <1>9, <1>12, <1>13, StepOf

(* The transaction commits.                                                *)
LEMMA CommitStep ==
  ASSUME IInv, NEW w \in Writers, Commit(w)
  PROVE  IInv'
<1>1. Shape /\ WriterInv(w)
  BY DEF IInv
<1>2. /\ page' = page /\ begun' = begun /\ ctxDone' = ctxDone /\ todo' = todo
      /\ tx' = [tx EXCEPT ![w] = NoTx] /\ Persist(w) /\ Live(w) /\ todo[w] = {}
  BY DEF Commit, CommitEnds, Usable, Live, ReachedCommit
<1>3. /\ result' \in [Writers -> {"none", "nil", "err"}]
      /\ \A v \in Writers : v # w => result'[v] = result[v]
  BY <1>1 DEF Commit, CommitEnds, Shape
<1>4. /\ tx' = [v \in Writers |-> tx'[v]] /\ tx'[w] = NoTx
      /\ \A v \in Writers : v # w => tx'[v] = tx[v]
  BY <1>1, <1>2, Except DEF Shape
<1>5. /\ ChangesMatchIssue' /\ RowsOfIssues' /\ AuthorRange'
      /\ authors \subseteq authors'
      /\ \A v \in Writers \ {w} :
           \A c : c.issue \in Ids(tx[v].issues) => (c \in changes' <=> c \in changes)
  BY <1>2, CommitRows
<1>6. Shape'
  BY <1>1, <1>2, <1>3, <1>4 DEF Shape
<1>7. WriterInv(w)'
  <2>1. IsTx(tx'[w]) /\ NoRows(tx'[w]) /\ ~tx'[w].open /\ ~Live(w)'
    BY <1>4, NoTxFacts DEF Live
  <2> QED BY <1>1, <1>2, <2>1, Abandoned
<1>8. \A v \in Writers : WriterInv(v)'
  <2>1. ASSUME NEW v \in Writers, v # w
        PROVE  WriterInv(v)'
    <3>1. /\ tx'[v] = tx[v] /\ todo'[v] = todo[v] /\ begun'[v] = begun[v]
          /\ result'[v] = result[v]
      BY <2>1, <1>2, <1>3, <1>4
    <3>2. \A c : c.issue \in Ids(tx[v].issues) => (c \in changes' <=> c \in changes)
      BY <1>5, <2>1
    <3>3. WriterInv(v)
      BY DEF IInv
    <3> QED BY <3>1, <3>2, <3>3, <1>2, <1>5, OtherWriter
  <2> QED BY <2>1, <1>7
<1>9. Exclusive'
  <2>1. \A v \in Writers : tx'[v] = tx[v] \/ tx'[v].issues = {}
    BY <1>4, NoTxFacts DEF NoRows
  <2>2. \A v \in Writers : Ids(tx[v].issues)' \subseteq Ids(tx[v].issues)
    BY <2>1 DEF Ids
  <2> QED BY <2>2 DEF IInv, Exclusive
<1> QED BY <1>5, <1>6, <1>8, <1>9 DEF IInv

(* IInv is inductive.                                                      *)
LEMMA StepInv == IInv /\ [Next]_vars => IInv'
<1> SUFFICES ASSUME IInv, [Next]_vars PROVE IInv'
  OBVIOUS
<1>1. ASSUME NEW w \in Writers, CommitPage(w) \/ Timeout(w) \/ AwaitDone(w)
      PROVE  IInv'
  BY <1>1, IdleStep, BeginStep, ExecuteStep, GiveUpStep, CommitStep DEF CommitPage
<1>2. CASE UNCHANGED vars
  <2>1. /\ authors' = authors /\ issues' = issues /\ changes' = changes /\ tx' = tx
        /\ page' = page /\ begun' = begun /\ todo' = todo /\ ctxDone' = ctxDone
        /\ result' = result
    BY <1>2 DEF vars
  <2>2. \A w \in Writers : WriterInv(w)'
    BY <2>1, OtherWriter DEF IInv
  <2>3. Exclusive'
    BY <2>1 DEF IInv, Exclusive, Ids
  <2> QED BY <2>1, <2>2, <2>3
          DEF IInv, Shape, AuthorRange, RowsOfIssues, ChangesMatchIssue
<1> QED BY <1>1, <1>2 DEF Next

(* IInv holds throughout.                                                  *)
THEOREM Invariance == Spec => []IInv
  BY InitInv, StepInv, PTL DEF Spec

(* The ids HashID makes fit the int4 columns, however it overflows on the  *)
(* way, and an aborted transaction holds no rows that others wait for.     *)
THEOREM TypeCorrect == Spec => []TypeOK
<1>1. IInv => TypeOK
  <2> SUFFICES ASSUME IInv PROVE TypeOK
    OBVIOUS
  <2>1. Ids(authors) \subseteq 0 .. IntRange - 1
    BY DEF IInv, AuthorRange, Ids
  <2>2. ASSUME NEW w \in Writers
        PROVE  /\ Ids(tx[w].authors) \subseteq 0 .. IntRange - 1
               /\ tx[w].aborted => tx[w].authors \cup tx[w].issues \cup tx[w].inserted = {}
               /\ begun[w] \in BOOLEAN /\ (~begun[w] => ~tx[w].open)
               /\ ctxDone[w] \in BOOLEAN /\ result[w] \in {"none", "nil", "err"}
    <3>1. Shape /\ AuthorsOf(w) /\ TxOf(w)
      BY DEF IInv, WriterInv
    <3>2. Ids(tx[w].authors) \subseteq 0 .. IntRange - 1
      BY <3>1, AuthorOfPage DEF Ids
    <3>3. tx[w].aborted => tx[w].authors \cup tx[w].issues \cup tx[w].inserted = {}
      BY <3>1 DEF TxOf, Live, NoRows
    <3>4. begun[w] \in BOOLEAN /\ ctxDone[w] \in BOOLEAN /\ result[w] \in {"none", "nil", "err"}
      BY <3>1 DEF Shape
    <3> QED BY <3>1, <3>2, <3>3, <3>4 DEF TxOf
  <2> QED BY <2>1, <2>2 DEF TypeOK
<1> QED BY <1>1, Invariance, PTL

(* Whom a statement after the authors of its issue mentions has a row.     *)
LEMMA MentionedResolve ==
  ASSUME IInv, NEW w \in Writers, Live(w), NEW s \in todo[w], Executing(w, s),
         NEW i \in DOMAIN page[w], s.at[1] = i, 1 < s.at[2],
         NEW name \in Mentions(page[w][i])
  PROVE  HashID(name) \in Ids(SeenAuthors(w)) \/ HashID(name) = 0
<1>1. CASE name = Anonymous
  BY <1>1, HashIDAnonymous
<1>2. CASE name # Anonymous
  <2>1. AuthorsOf(w) /\ OrderedOf(w) /\ Shape
    BY DEF IInv, WriterInv
  <2>2. PICK n \in DOMAIN collectAuthors(page[w][i]) : collectAuthors(page[w][i])[n] = name
    BY <1>2, <2>1, PageIssues, CollectsAuthors
  <2>3. PICK t \in Statements(w) :
          /\ t.op = "author" /\ t.at = <<i, 1, n, 0>>
          /\ t.row = MapAuthorToRaw(collectAuthors(page[w][i])[n])
    BY HasStatements
  <2>4. t.at[1] = i /\ t.at[2] = 1
    BY <2>3
  <2>5. Before(t.at, s.at)
    BY <2>4, EarlierPart
  <2>6. t \in Done(w)
    BY <2>1, <2>5, OrderAround DEF Done
  <2>7. t.row.id \in Ids(SeenAuthors(w))
    BY <2>1, <2>3, <2>6 DEF AuthorsOf
  <2>8. t.row.id = HashID(name)
    BY <2>2, <2>3 DEF MapAuthorToRaw
  <2> QED BY <2>7, <2>8
<1> QED BY <1>1, <1>2

(* A status change refers to somebody its issue mentions.                  *)
LEMMA ChangeAuthor ==
  ASSUME NEW issue, NEW by, NEW c \in ChangeRows(issue, by)
  PROVE  \E name \in Mentions(issue) : c.author = HashID(name)
<1> DEFINE ids == MapChangelogToRaw(issue)
<1>1. PICK p \in DOMAIN ids : c.author = ids[p]
  BY DEF ChangeRows
<1>2. p[1] \in DOMAIN issue.histories /\ ids[p] = HashID(issue.histories[p[1]].author)
  BY DEF MapChangelogToRaw
<1> QED BY <1>1, <1>2 DEF Mentions

(* Every author an issue or a status change refers to is in the table when *)
(* the statement runs, whoever inserted that row; only the id 0 of a name  *)
(* Jira did not send may be missing.                                       *)
THEOREM AuthorsAlwaysResolve == Spec => []AuthorsResolve
<1>1. IInv => AuthorsResolve
  <2> SUFFICES ASSUME IInv, NEW w \in Writers, NEW s \in todo[w], Usable(w), Executing(w, s),
                      NEW x \in References(s), x \notin Ids(SeenAuthors(w))
               PROVE  x = 0
    BY DEF AuthorsResolve
  <2>1. Live(w) /\ s \in Statements(w)
    BY DEF IInv, WriterInv, OrderedOf, Usable, Live
  <2>2. PICK i \in DOMAIN page[w] : Kind(w, s, i)
    BY <2>1, Kinds
  <2>3. s.op = "issue" \/ s.op = "change"
    BY DEF References
  <2>4. s.at[1] = i /\ 1 < s.at[2]
    BY <2>2, <2>3 DEF Kind, IssueStatement
  <2>5. \E name \in Mentions(page[w][i]) : x = HashID(name)
    <3>1. CASE s.op = "issue"
      <4>1. s = IssueStatement(page[w][i], <<w, i>>)
        BY <3>1, <2>2 DEF Kind
      <4>2. /\ s.row.author = HashID(page[w][i].creator)
            /\ s.row.assignee = int64Ptr(HashID(page[w][i].assignee))
        BY <4>1 DEF IssueStatement, MapIssueToRaw
      <4>3. x \in {s.row.author, s.row.assignee} \ {Null}
        BY <3>1 DEF References
      <4>4. x = HashID(page[w][i].creator) \/ x = HashID(page[w][i].assignee)
        BY <4>2, <4>3 DEF int64Ptr
      <4> QED BY <4>4 DEF Mentions
    <3>2. CASE s.op = "change"
      <4>1. PICK r \in ChangeRows(page[w][i], <<w, i>>) : s.row = r
        BY <3>2, <2>2 DEF Kind
      <4>2. x = s.row.author
        BY <3>2 DEF References
      <4> QED BY <4>1, <4>2, ChangeAuthor
    <3> QED BY <3>1, <3>2, <2>3
  <2> QED BY <2>1, <2>4, <2>5, MentionedResolve
<1> QED BY <1>1, Invariance, PTL

(* The status changes stored for an issue are exactly those of the version *)
(* stored, whichever syncs wrote the issue at the same time.               *)
THEOREM ChangesAlwaysMatch == Spec => []ChangesMatchIssue
<1>1. IInv => ChangesMatchIssue
  BY DEF IInv
<1> QED BY <1>1, Invariance, PTL

-----------------------------------------------------------------------------
(* PageStore reads a changelog and hashes names as commitPage does.        *)
LEMMA SameMapper ==
  /\ \A issue : Store!collectAuthors(issue) = collectAuthors(issue)
  /\ \A name : Store!HashID(name) = HashID(name)
<1>1. ASSUME NEW issue PROVE Store!collectAuthors(issue) = collectAuthors(issue)
  BY DEF Store!collectAuthors, Store!FirstMet, Store!Anonymous, collectAuthors, FirstMet, Anonymous
<1>2. ASSUME NEW name PROVE Store!HashID(name) = HashID(name)
  BY Zenon DEF Store!HashID, Store!Rounds, Store!Mix, Store!Wrap, Store!hashMultiplier,
               HashID, Rounds, Mix, Wrap, hashMultiplier
<1> QED BY <1>1, <1>2

(* The empty database stores nothing and knows nobody.                     *)
LEMMA InitRefines == Init => Store!Init
  BY DEF Init, Store!Init, Ids

(* With every statement executed, the transaction holds of each issue of   *)
(* the page the last version.                                              *)
LEMMA WholePage ==
  ASSUME IInv, NEW w \in Writers, Live(w), todo[w] = {}
  PROVE  /\ \A n \in DOMAIN page[w] : page[w][n].id \in Ids(tx[w].issues)
         /\ \A n \in DOMAIN page[w] : \A r \in tx[w].issues :
              r.id = page[w][n].id => n <= r.by[2]
         /\ \A r \in tx[w].issues : \E j \in DOMAIN page[w] : r = IssueRow(w, j)
<1>1. IssuesOf(w) /\ InvalidOf(w)
  BY DEF IInv, WriterInv
<1>2. \A n \in DOMAIN page[w] : Written(w, n)
  BY <1>1 DEF InvalidOf, Written
<1> QED BY <1>1, <1>2 DEF IssuesOf

(* The issues stored by a commit are those of the page over the others.    *)
LEMMA CommitStores ==
  ASSUME IInv, NEW w \in Writers, Live(w), todo[w] = {}, Persist(w)
  PROVE  {r.of : r \in issues'} = Store!Overwrite({r.of : r \in issues}, page[w])
<1> DEFINE p == page[w]
           last == {n \in DOMAIN p : \A m \in DOMAIN p : m > n => p[m].id # p[n].id}
           old == {i \in {r.of : r \in issues} : \A n \in DOMAIN p : p[n].id # i.id}
<1>1. /\ \A n \in DOMAIN p : p[n].id \in Ids(tx[w].issues)
      /\ \A n \in DOMAIN p : \A r \in tx[w].issues : r.id = p[n].id => n <= r.by[2]
      /\ \A r \in tx[w].issues : \E j \in DOMAIN p : r = IssueRow(w, j)
  BY WholePage
<1>2. \A n \in DOMAIN p : n \in Nat
  BY PageIssues DEF IInv
<1>3. \A j : /\ IssueRow(w, j).id = p[j].id /\ IssueRow(w, j).of = p[j]
             /\ IssueRow(w, j).by[2] = j
  BY DEF IssueRow
<1>4. \A r \in issues : r.of.id = r.id
  BY DEF IInv, RowsOfIssues
<1>5. \A r : r \in issues' <=> r \in tx[w].issues \/ (r \in issues /\ r.id \notin Ids(tx[w].issues))
  BY DEF Persist, SeenIssues, Upsert, Ids
<1>6. \A id \in Ids(tx[w].issues) : \E j \in DOMAIN p : id = p[j].id
  BY <1>1, <1>3 DEF Ids
<1> HIDE DEF p
<1>7. ASSUME NEW r \in tx[w].issues
      PROVE  \E n \in last : r.of = p[n]
  <2>1. PICK j \in DOMAIN p : r = IssueRow(w, j)
    BY <1>1
  <2>2. r.id = p[j].id /\ r.of = p[j] /\ r.by[2] = j
    BY <2>1, <1>3
  <2>3. ASSUME NEW m \in DOMAIN p, m > j, p[m].id = p[j].id
        PROVE  FALSE
    BY <2>2, <2>3, <1>1, <1>2
  <2> QED BY <2>2, <2>3
<1>8. ASSUME NEW n \in last
      PROVE  \E r \in tx[w].issues : r.of = p[n]
  <2>1. PICK r \in tx[w].issues : r.id = p[n].id
    BY <1>1 DEF Ids
  <2>2. PICK j \in DOMAIN p : r = IssueRow(w, j)
    BY <1>1
  <2>3. r.id = p[j].id /\ r.of = p[j] /\ r.by[2] = j
    BY <2>2, <1>3
  <2>4. n <= j
    BY <2>1, <2>3, <1>1
  <2>5. ~(j > n)
    BY <2>1, <2>3
  <2> QED BY <2>3, <2>4, <2>5, <1>2
<1>9. ASSUME NEW r \in issues
      PROVE  r.id \notin Ids(tx[w].issues) <=> \A n \in DOMAIN p : p[n].id # r.of.id
  BY <1>1, <1>4, <1>6
<1>10. \A x : x \in {r.of : r \in issues'} <=> x \in old \/ \E n \in last : x = p[n]
  <2>1. ASSUME NEW r \in issues'
        PROVE  r.of \in old \/ \E n \in last : r.of = p[n]
    BY <1>5, <1>7, <1>9
  <2>2. ASSUME NEW n \in last
        PROVE  p[n] \in {r.of : r \in issues'}
    BY <1>5, <1>8
  <2>3. ASSUME NEW x \in old
        PROVE  x \in {r.of : r \in issues'}
    <3>1. PICK r \in issues : x = r.of
      OBVIOUS
    <3>2. r.id \notin Ids(tx[w].issues)
      BY <3>1, <1>9
    <3> QED BY <3>1, <3>2, <1>5
  <2> HIDE DEF old, last
  <2> QED BY <2>1, <2>2, <2>3
<1>11. Store!Overwrite({r.of : r \in issues}, p) = old \cup {p[n] : n \in last}
  BY DEF Store!Overwrite
<1> HIDE DEF old, last
<1>12. {r.of : r \in issues'} = Store!Overwrite({r.of : r \in issues}, p)
  BY <1>10, <1>11
<1> QED BY <1>12 DEF p

(* The authors known after a commit are those the page mentions as well.   *)
LEMMA CommitKnows ==
  ASSUME IInv, NEW w \in Writers, Live(w), todo[w] = {}, Persist(w)
  PROVE  Ids(authors') = Ids(authors) \cup Store!Mentioned(page[w])
<1>1. AuthorsOf(w) /\ Shape
  BY DEF IInv, WriterInv
<1>2. authors' = authors \cup tx[w].authors
  BY DEF Persist, SeenAuthors
<1>3. \A x : x \in Store!Mentioned(page[w]) <=>
        \E i \in DOMAIN page[w] : \E n \in DOMAIN collectAuthors(page[w][i]) :
          x = HashID(collectAuthors(page[w][i])[n])
  <2>1. \A issue, x : x \in Store!AuthorIds(issue) <=>
          \E n \in DOMAIN collectAuthors(issue) : x = HashID(collectAuthors(issue)[n])
    BY SameMapper DEF Store!AuthorIds
  <2> QED BY <2>1 DEF Store!Mentioned
<1>4. \A a \in tx[w].authors : a.id \in Store!Mentioned(page[w])
  BY <1>1, <1>3, AuthorOfPage
<1>5. ASSUME NEW i \in DOMAIN page[w], NEW n \in DOMAIN collectAuthors(page[w][i])
      PROVE  HashID(collectAuthors(page[w][i])[n]) \in Ids(authors')
  <2>0. \A k \in DOMAIN collectAuthors(page[w][i]) :
          \E s \in Statements(w) :
            /\ s.op = "author" /\ s.at = <<i, 1, k, 0>>
            /\ s.row = MapAuthorToRaw(collectAuthors(page[w][i])[k])
    BY HasStatements, Zenon
  <2>1. PICK s \in Statements(w) :
          /\ s.op = "author" /\ s.at = <<i, 1, n, 0>>
          /\ s.row = MapAuthorToRaw(collectAuthors(page[w][i])[n])
    BY <2>0
  <2>2. s.row.id \in Ids(SeenAuthors(w))
    BY <2>1, <1>1 DEF AuthorsOf, Done
  <2>3. s.row.id = HashID(collectAuthors(page[w][i])[n])
    BY <2>1 DEF MapAuthorToRaw
  <2> QED BY <2>2, <2>3 DEF Persist
<1>6. \A x : x \in Ids(authors') <=> x \in Ids(authors) \/ x \in Ids(tx[w].authors)
  BY <1>2 DEF Ids
<1>7. \A x \in Ids(tx[w].authors) : x \in Store!Mentioned(page[w])
  BY <1>4 DEF Ids
<1>8. \A x \in Store!Mentioned(page[w]) : x \in Ids(authors')
  BY <1>3, <1>5
<1> QED BY <1>6, <1>7, <1>8

(* Each step of commitPage is a step of PageStore or invisible there.      *)
LEMMA NextRefines == IInv /\ [Next]_vars => [Store!Next]_(Store!vars)
<1> SUFFICES ASSUME IInv, [Next]_vars PROVE [Store!Next]_(Store!vars)
  OBVIOUS
<1>1. ASSUME NEW w \in Writers, Commit(w)
      PROVE  Store!Next
  <2>1. /\ Live(w) /\ todo[w] = {} /\ Persist(w) /\ page' = page /\ result[w] = "none"
        /\ \E r \in {"nil", "err"} : result' = [result EXCEPT ![w] = r]
    BY <1>1 DEF Commit, CommitEnds, Usable, Live, ReachedCommit
  <2>2. {r.of : r \in issues'} = Store!Overwrite({r.of : r \in issues}, page[w])
    BY <2>1, CommitStores
  <2>3. Ids(authors') = Ids(authors) \cup Store!Mentioned(page[w])
    BY <2>1, CommitKnows
  <2>4. Ids(authors)' = Ids(authors')
    BY DEF Ids
  <2>5. Store!Store(w)
    BY <2>1, <2>2, <2>3, <2>4 DEF Store!Store
  <2> QED BY <2>5 DEF Store!Next
<1>2. ASSUME NEW w \in Writers, BeginFails(w) \/ OperationFails(w) \/ CommitFails(w)
      PROVE  Store!Next
  <2>1. /\ authors' = authors /\ issues' = issues /\ page' = page /\ result[w] = "none"
        /\ result' = [result EXCEPT ![w] = "err"]
    BY <1>2 DEF BeginFails, OperationFails, CommitFails, CommitEnds, ReachedCommit,
                Executing, db
  <2>2. Ids(authors)' = Ids(authors) /\ {r.of : r \in issues}' = {r.of : r \in issues}
    BY <2>1 DEF Ids
  <2>3. Store!Refuse(w)
    BY <2>1, <2>2 DEF Store!Refuse
  <2> QED BY <2>3 DEF Store!Next
<1>3. ASSUME NEW w \in Writers,
             Begin(w) \/ Execute(w) \/ StatusChangeFails(w) \/ Timeout(w) \/ AwaitDone(w)
      PROVE  UNCHANGED Store!vars
  <2>1. authors' = authors /\ issues' = issues /\ page' = page /\ result' = result
    BY <1>3 DEF Begin, Execute, InsertAuthor, InsertIssue, DeleteStatusChangesByIssue,
                InsertStatusChange, Succeeds, StatusChangeFails, Timeout, AwaitDone, db
  <2> QED BY <2>1 DEF Store!vars, Ids
<1>4. CASE UNCHANGED vars
  BY <1>4 DEF vars, Store!vars, Ids
<1> QED BY <1>1, <1>2, <1>3, <1>4 DEF Next, CommitPage, StatementFails

(* The statements together store whole pages or nothing, an error that is  *)
(* only logged never makes WithTransaction return nil for a page that is   *)
(* not stored, and a commit loses nothing that other pages stored.         *)
THEOREM PagesAreStoredWhole == Spec => ImplementsPageStore
<1>1. IInv /\ [Next]_vars => [Store!Next]_(Store!vars)
  BY NextRefines
<1> QED BY <1>1, InitRefines, Invariance, PTL DEF Spec, ImplementsPageStore, Store!Spec
=============================================================================
