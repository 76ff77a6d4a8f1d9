------------------------------ MODULE PageStore ------------------------------
(***************************************************************************)
(* What commitPage promises runSync: the page is stored as a whole or not  *)
(* at all, no error means that it is stored, and nothing stored by another *)
(* page is lost, only replaced by a later version of the same issue.       *)
(***************************************************************************)
EXTENDS Mapper

CONSTANT Writers

VARIABLES
  page,    \* page[w]: the issues the writer has to store
  stored,  \* what the database holds: one version of each issue, by its id
  known,   \* the ids of the authors it holds
  result   \* result[w]: "none", then what commitPage returned

vars == <<page, stored, known, result>>

(* The issues of a page over those already there, the last one winning.    *)
Overwrite(issues, p) ==
  {i \in issues : \A n \in DOMAIN p : p[n].id # i.id}
  \cup {p[n] : n \in {n \in DOMAIN p : \A m \in DOMAIN p : m > n => p[m].id # p[n].id}}

AuthorIds(issue) == {HashID(collectAuthors(issue)[n]) : n \in DOMAIN collectAuthors(issue)}
Mentioned(p) == UNION {AuthorIds(p[n]) : n \in DOMAIN p}

Init == /\ stored = {} /\ known = {}
        /\ result = [w \in Writers |-> "none"]

(* An error may also mean that only the answer to the commit was lost.     *)
Store(w) ==
  /\ result[w] = "none"
  /\ \E r \in {"nil", "err"} : result' = [result EXCEPT ![w] = r]
  /\ stored' = Overwrite(stored, page[w])
  /\ known' = known \cup Mentioned(page[w])
  /\ UNCHANGED page

Refuse(w) ==
  /\ result[w] = "none"
  /\ result' = [result EXCEPT ![w] = "err"]
  /\ UNCHANGED <<page, stored, known>>

Next == \E w \in Writers : Store(w) \/ Refuse(w)

Spec == Init /\ [][Next]_vars
=============================================================================
