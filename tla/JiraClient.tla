----------------------------- MODULE JiraClient -----------------------------
(***************************************************************************)
(* internal/client/jira/jira.go: one call of GetIssue, SearchIssues or     *)
(* GetProjects.  `do` takes a token of the rate limiter, sends, and on a   *)
(* network error, 429 or 503 waits for the current delay, doubles it and   *)
(* tries again; it gives up when the delay has grown past MaxRetry, or     *)
(* when the caller's context ends.  There is no bound on the attempts, and *)
(* a Retry-After header replaces the delay.                                *)
(*                                                                         *)
(* A delay is a time.Duration, an int64.                                   *)
(***************************************************************************)
EXTENDS Int64

CONSTANTS
  MinRetry, MaxRetry,  \* minRetryDelay, maxRetryDelay
  Second,              \* time.Second
  Hints,               \* the numbers Jira may send as Retry-After
  NoHint,              \* no Retry-After, or one that is not a number
  Deadline,            \* does the caller's context carry a deadline?
  MaxCounted           \* bound on the counter of retries

(* config.go replaces delays that are not positive by the defaults.  Left  *)
(* out are configured delays beyond 146 years: twice the limit overflows,  *)
(* or New has wrapped them (module Config).                                *)
ASSUME DelayAssumption ==
  /\ MinRetry \in Nat \ {0} /\ MaxRetry \in Nat \ {0}
  /\ HalfRange \in Nat
  /\ MinRetry < HalfRange /\ 2 * MaxRetry < HalfRange

ASSUME HintAssumption ==
  /\ Second \in Nat \ {0}
  /\ Hints \subseteq Int
  /\ NoHint \notin Int

ASSUME CallAssumption == Deadline \in BOOLEAN /\ MaxCounted \in Nat

VARIABLES
  op,       \* which method was called
  pc,       \* where the call is
  ctxDone,  \* the caller's context has ended
  delay,    \* do's delay
  lastErr,  \* do's lastErr
  answer,   \* what the last request came back with
  body,     \* the answer's body: none, open, closed or read (to its end)
  pending,  \* the error of the attempt a backoff is in progress for
  err,      \* what the call returns
  cause,    \* the error wrapped in err, where the code wraps one
  retries,  \* JiraRetries: the retries counted, up to MaxCounted
  slept,    \* history: backoff waited through before any Retry-After
  hinted    \* history: a Retry-After was obeyed

vars == <<op, pc, ctxDone, delay, lastErr, answer, body, pending, err, cause,
          retries, slept, hinted>>

Ops == {"get_issue", "search_issues", "get_projects"}
Retried == {429, 503}       \* the statuses handleResponse retries
ServerErrors == {500, 503}  \* the 5xx statuses of the model
Statuses == {200, 404} \cup Retried \cup ServerErrors
NoAnswer == [status |-> 0, hint |-> NoHint]
NetError == [status |-> -1, hint |-> NoHint]
Answers == {NoAnswer, NetError}
           \cup [status : Statuses, hint : Hints \cup {NoHint}]

Init ==
  /\ op \in Ops
  /\ pc = "limiter"
  /\ ctxDone = FALSE
  /\ delay = MinRetry
  /\ lastErr = "nil" /\ err = "nil" /\ cause = "nil" /\ pending = "nil"
  /\ answer = NoAnswer
  /\ body = "none"
  /\ retries = 0 /\ slept = 0
  /\ hinted = FALSE

Return(e, c) ==
  /\ pc' = "done"
  /\ err' = e /\ cause' = c
  /\ UNCHANGED <<op, ctxDone, delay, lastErr, answer, pending, retries, slept,
                 hinted>>

-----------------------------------------------------------------------------
(* limiter.Wait fails at once when the context is over or when its         *)
(* deadline would pass before the token is due.                            *)
LimiterFails ==
  /\ pc = "limiter"
  /\ ctxDone \/ Deadline
  /\ Return("limiter", "nil")
  /\ UNCHANGED body

LimiterReserves ==
  /\ pc = "limiter"
  /\ ~ctxDone
  /\ pc' = "token"
  /\ UNCHANGED <<op, ctxDone, delay, lastErr, answer, body, pending, err,
                 cause, retries, slept, hinted>>

LimiterInterrupted ==
  /\ pc = "token"
  /\ ctxDone
  /\ Return("limiter", "nil")
  /\ UNCHANGED body

LimiterPasses ==
  /\ pc = "token"
  /\ pc' = "send"
  /\ UNCHANGED <<op, ctxDone, delay, lastErr, answer, body, pending, err,
                 cause, retries, slept, hinted>>

(* Variant: the limiter is not given the caller's context.                 *)
LimiterOwnContext ==
  /\ pc \in {"limiter", "token"}
  /\ pc' = "send"
  /\ UNCHANGED <<op, ctxDone, delay, lastErr, answer, body, pending, err,
                 cause, retries, slept, hinted>>

LimiterWait == \/ LimiterFails \/ LimiterReserves
               \/ LimiterInterrupted \/ LimiterPasses

(* http.NewRequestWithContext rejects the URL.                             *)
RequestFails ==
  /\ pc = "send"
  /\ Return("request", "nil")
  /\ UNCHANGED body

(* client.Do: any status, with or without Retry-After, or a network error. *)
Send ==
  /\ pc = "send"
  /\ answer' \in Answers \ {NoAnswer}
  /\ body' = IF answer' = NetError THEN "none" ELSE "open"
  /\ pc' = "handle"
  /\ UNCHANGED <<op, ctxDone, delay, lastErr, pending, err, cause, retries,
                 slept, hinted>>

-----------------------------------------------------------------------------
(* handleResponse                                                          *)
IsRetried(a) == a.status \in Retried

(* handleErrorResponse reads the body; a body that is closed already only  *)
(* gives a read error.                                                     *)
ErrorResponses == IF body = "open" THEN {"api", "unread"} ELSE {"unread"}

HandleReturn ==
  /\ pc = "handle"
  /\ answer.status = 200
  /\ pc' = "decode"
  /\ UNCHANGED <<op, ctxDone, delay, lastErr, answer, body, pending, err,
                 cause, retries, slept, hinted>>

HandleError ==
  /\ pc = "handle"
  /\ answer.status \in Statuses \ {200}
  /\ ~IsRetried(answer)
  /\ \E e \in ErrorResponses : Return(e, "nil")
  /\ body' = "read"

(* The wait of waitWithBackoff begins, for d, after the error e.           *)
BeginBackoff(d, e) ==
  /\ pc' = "backoff"
  /\ delay' = d
  /\ pending' = e
  /\ UNCHANGED <<op, ctxDone, lastErr, answer, err, cause, retries, slept>>

(* Variant: the delay is not compared with its limit.                      *)
HandleNetworkErrorUnlimited ==
  /\ pc = "handle"
  /\ answer = NetError
  /\ \/ ctxDone /\ Return("cancelled", "net")
     \/ ~ctxDone /\ BeginBackoff(delay, "net") /\ UNCHANGED hinted
  /\ UNCHANGED body

HandleNetworkError ==
  /\ pc = "handle"
  /\ answer = NetError
  /\ \/ ctxDone /\ Return("cancelled", "net")
     \/ ~ctxDone /\ delay > MaxRetry /\ Return("netMax", lastErr)
     \/ ~ctxDone /\ delay <= MaxRetry /\ BeginBackoff(delay, "net")
        /\ UNCHANGED hinted
  /\ UNCHANGED body

(* Retry-After, in seconds, takes the place of the delay.                  *)
Hinted(d) == IF answer.hint = NoHint THEN d ELSE Wrap(answer.hint * Second)

(* Variant: the delay is compared with its limit before Retry-After is     *)
(* read.                                                                   *)
HandleRetryStatusChecksFirst ==
  /\ pc = "handle"
  /\ IsRetried(answer)
  /\ \/ delay > MaxRetry /\ Return("statusMax", "unread")
     \/ /\ delay <= MaxRetry
        /\ BeginBackoff(Hinted(delay), "unread")
        /\ hinted' = (hinted \/ answer.hint # NoHint)
  /\ body' = "closed"

(* The body is closed before handleErrorResponse reads it.                 *)
HandleRetryStatus ==
  /\ pc = "handle"
  /\ IsRetried(answer)
  /\ LET d == Hinted(delay)
     IN \/ d > MaxRetry /\ Return("statusMax", "unread")
        \/ /\ d <= MaxRetry
           /\ BeginBackoff(d, "unread")
           /\ hinted' = (hinted \/ answer.hint # NoHint)
  /\ body' = "closed"

(* Variant: the delay shrinks.                                             *)
NextDelayHalved(d) == d \div 2

(* delay * retryBackoffMultiplier                                          *)
NextDelay(d) == Wrap(2 * d)

IncJiraRetry == retries' = IF retries < MaxCounted THEN retries + 1 ELSE retries

(* Variant: do forgets the error it retries after.                         *)
BackoffElapsedNoLastErr ==
  /\ pc = "backoff"
  /\ pc' = "limiter"
  /\ delay' = NextDelay(delay)
  /\ pending' = "nil"
  /\ IncJiraRetry
  /\ slept' = IF hinted THEN slept ELSE slept + delay
  /\ UNCHANGED <<op, ctxDone, lastErr, answer, body, err, cause, hinted>>

(* The timer fires; do counts the retry and goes round.                    *)
BackoffElapsed ==
  /\ pc = "backoff"
  /\ pc' = "limiter"
  /\ delay' = NextDelay(delay)
  /\ lastErr' = pending
  /\ pending' = "nil"
  /\ IncJiraRetry
  /\ slept' = IF hinted THEN slept ELSE slept + delay
  /\ UNCHANGED <<op, ctxDone, answer, body, err, cause, hinted>>

BackoffInterrupted ==
  /\ pc = "backoff"
  /\ ctxDone
  /\ Return("backoff", "nil")
  /\ UNCHANGED body

-----------------------------------------------------------------------------
(* Variant: the body is left open.                                         *)
DecodeLeavesOpen ==
  /\ pc = "decode"
  /\ op \in {"get_issue", "search_issues"}
  /\ \E e \in {"nil", "decode"} : Return(e, "nil")
  /\ UNCHANGED body

(* fetchIssue, searchIssues: decode, and close the body on the way out.    *)
Decode ==
  /\ pc = "decode"
  /\ op \in {"get_issue", "search_issues"}
  /\ \E e \in {"nil", "decode"} : Return(e, "nil")
  /\ body' = "closed"

(* parseProjectsResponse reads the whole body first, then tries a bare     *)
(* list and a paginated object.                                            *)
ParseProjects ==
  /\ pc = "decode"
  /\ op = "get_projects"
  /\ \E e \in {"nil", "unread", "decode"} : Return(e, "nil")
  /\ body' = "closed"

(* external: the caller cancels, or its deadline passes.                   *)
CtxEnds ==
  /\ ~ctxDone
  /\ pc # "done"
  /\ ctxDone' = TRUE
  /\ UNCHANGED <<op, pc, delay, lastErr, answer, body, pending, err, cause,
                 retries, slept, hinted>>

Terminated == pc = "done" /\ UNCHANGED vars

Call == \/ LimiterWait \/ RequestFails \/ Send
        \/ HandleReturn \/ HandleError
        \/ HandleNetworkError \/ HandleRetryStatus
        \/ BackoffElapsed \/ BackoffInterrupted
        \/ Decode \/ ParseProjects

Next == Call \/ CtxEnds \/ Terminated

Safety == Init /\ [][Next]_vars

(* The limiter hands out tokens, http.Client has a timeout of its own, and *)
(* timers fire: the call always takes its next step.  Nothing obliges the  *)
(* caller's context to end.                                                *)
Spec == Safety /\ WF_vars(Call)

-----------------------------------------------------------------------------
Errors == {"nil", "limiter", "request", "api", "unread", "cancelled",
           "netMax", "statusMax", "backoff", "decode"}
Causes == {"nil", "net", "unread"}

(* Every variable keeps its type, and the delay never falls below the      *)
(* first one by itself: do stops doubling it before the product overflows. *)
(* Only a Retry-After makes it small, zero or negative.                    *)
TypeOK ==
  /\ op \in Ops
  /\ pc \in {"limiter", "token", "send", "handle", "backoff", "decode", "done"}
  /\ ctxDone \in BOOLEAN /\ hinted \in BOOLEAN
  /\ delay \in Int64s /\ (~hinted => delay >= MinRetry)
  /\ lastErr \in Causes /\ cause \in Causes /\ pending \in Causes
  /\ answer \in Answers
  /\ body \in {"none", "open", "closed", "read"}
  /\ err \in Errors
  /\ retries \in 0 .. MaxCounted
  /\ slept \in Nat

(* One wait is never longer than MaxRetry, whatever Retry-After says, and  *)
(* without Retry-After all the waits of a call together stay below twice   *)
(* MaxRetry: the exponential backoff is what bounds the retries of do, and *)
(* doubling past the limit by one round would break this.                  *)
BackoffBudget ==
  /\ pc = "backoff" => delay <= MaxRetry
  /\ ~hinted => slept < 2 * MaxRetry

(* When do gives up on a network error it wraps an earlier error, never    *)
(* nil, provided the first delay is allowed at all: only then has some     *)
(* attempt failed before.                                                  *)
CauseKnown ==
  err = "netMax" /\ MinRetry <= MaxRetry => cause # "nil"

(* No body is left open: not when the call waits to try again (or it would *)
(* keep one connection per retry), not when it has returned.               *)
BodyReleased == pc \in {"limiter", "token", "send", "done"} => body # "open"

(* Without Retry-After the call ends by itself: the backoff sees to that,  *)
(* however long the context lives.                                         *)
EndsUnaided == <>(pc = "done" \/ hinted)

(* With Retry-After the attempts have no bound (a value of 0 resets the    *)
(* delay for good), but the call never outlives its context: whichever     *)
(* step it is in when the context ends, it returns.                        *)
EndsWithContext == ctxDone ~> pc = "done"
=============================================================================
