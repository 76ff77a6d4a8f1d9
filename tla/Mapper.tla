------------------------------- MODULE Mapper --------------------------------
(***************************************************************************)
(* internal/mapper/jira_to_raw.go and collectAuthors of sync.go: from a    *)
(* fetched Jira issue to the rows of raw.author, raw.issue and             *)
(* raw.status_changes.                                                     *)
(*                                                                         *)
(* A user name is its sequence of code points, empty when Jira sends none. *)
(* Of an issue only what decides about rows is kept: who created it, who   *)
(* it is assigned to, its changelog, and its id, Null when it is no number.*)
(***************************************************************************)
EXTENDS Int64, Sequences

CONSTANTS
  IntRange,  \* 2^31 in the program: int31Mask + 1
  Null       \* SQL NULL

ASSUME WidthAssumption ==
  /\ IntRange \in Nat \ {0}
  /\ HalfRange \in Nat \ {0} /\ HalfRange % IntRange = 0

(* What Jira sends                                                         *)
Name == Seq(Nat)
History == [author : Name, created : STRING, items : Seq(STRING)]
JiraIssue == [id : Int \cup {Null}, creator : Name, assignee : Name, histories : Seq(History)]

hashMultiplier == 31

(* One round of HashID.  -hash of the smallest integer is that integer, so *)
(* the hash may stay negative until it is masked.                          *)
Mix(hash, c) == LET h == Wrap(hash * hashMultiplier + c)
                IN IF h < 0 THEN Wrap(-h) ELSE h

(* The hash after each round over str.                                     *)
Rounds(str) ==
  LET hash[n \in 0 .. Len(str)] == IF n = 0 THEN 0 ELSE Mix(hash[n - 1], str[n])
  IN hash

(* Variant: the hash is not masked to 31 bits.                             *)
HashIDUnmasked(str) == Rounds(str)[Len(str)]

(* In two's complement, hash & int31Mask is the remainder by 2^31.         *)
HashID(str) == Rounds(str)[Len(str)] % IntRange

int64Ptr(n) == IF n = 0 THEN Null ELSE n

-----------------------------------------------------------------------------
Anonymous == <<>>

(* The places where add of collectAuthors appends a name, with that name:  *)
(* each name where it is first met; one Jira did not send is left out.     *)
FirstMet(met) ==
  [n \in {n \in DOMAIN met : met[n] # Anonymous /\ \A m \in 1 .. n - 1 : met[m] # met[n]}
     |-> met[n]]

(* Variant: the changelog's authors are forgotten.                         *)
collectAuthorsOfFields(issue) == FirstMet(<<issue.creator, issue.assignee>>)

collectAuthors(issue) ==
  FirstMet(<<issue.creator, issue.assignee>>
           \o [h \in DOMAIN issue.histories |-> issue.histories[h].author])

(* The display name is taken to be the name: what matters is whose it is.  *)
MapAuthorToRaw(name) == [id |-> HashID(name), name |-> name]

(* The text and time columns are those of the fetched issue; it stands for *)
(* them.  The assignee's id is 0, and so NULL, also when Jira sent none.   *)
MapIssueToRaw(issue) ==
  [id       |-> issue.id,
   author   |-> HashID(issue.creator),
   assignee |-> int64Ptr(HashID(issue.assignee)),
   of       |-> issue]

(* MapChangelogToRaw: the author ids of the status changes, by the places  *)
(* of history and item.  Histories whose time does not parse are skipped,  *)
(* and so are items that are not about the status.                         *)
StatusItems(history) == {j \in DOMAIN history.items : history.items[j] = "status"}

MapChangelogToRaw(issue) ==
  LET parsed == {h \in DOMAIN issue.histories : issue.histories[h].created = "parses"}
  IN [p \in UNION {{h} \X StatusItems(issue.histories[h]) : h \in parsed}
        |-> HashID(issue.histories[p[1]].author)]
=============================================================================
