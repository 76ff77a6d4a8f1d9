-------------------------- MODULE JiraClientProofs --------------------------
(***************************************************************************)
(* Proofs about JiraClient, for every delay, every set of Retry-After      *)
(* values and every width of the durations.                                *)
(*                                                                         *)
(* The waits of a call are bounded because, as long as no Retry-After was  *)
(* obeyed, what has been slept is what the delay has grown by (Grown), and *)
(* the delay is doubled only when it was within MaxRetry.                  *)
(***************************************************************************)
EXTENDS JiraClient, TLAPS

Grown == ~hinted => /\ slept = delay - MinRetry
                    /\ delay = MinRetry \/ delay <= 2 * MaxRetry

(* Without an earlier error the delay is the first one, or a hint that     *)
(* passed the comparison with MaxRetry.                                    *)
FailedBefore == /\ lastErr = "nil" => delay = MinRetry \/ delay <= MaxRetry
                /\ pc = "backoff" => pending # "nil"

(* A network error comes without a body, a backoff has closed it.          *)
BodyInv == pc = "backoff" \/ answer = NetError => body # "open"

IInv == TypeOK /\ BackoffBudget /\ Grown /\ FailedBefore /\ CauseKnown
        /\ BodyInv /\ BodyReleased

(* int64 arithmetic stays in its range ...                                 *)
LEMMA WrapInRange ==
  ASSUME NEW x \in Int PROVE Wrap(x) \in Int64s
  BY DelayAssumption DEF Wrap, Int64s

(* ... and is exact there.                                                 *)
LEMMA WrapExact ==
  ASSUME NEW x \in Int64s PROVE Wrap(x) = x
  BY DelayAssumption DEF Wrap, Int64s

(* A Retry-After gives a duration, without one the delay stays.            *)
LEMMA HintedIsDuration ==
  ASSUME TypeOK, IsRetried(answer)
  PROVE  /\ Hinted(delay) \in Int64s
         /\ answer.hint = NoHint => Hinted(delay) = delay
  <1>1. answer.hint = NoHint \/ answer.hint \in Int
    <2>1. answer \in Answers
      BY DEF TypeOK
    <2>2. CASE answer \in {NoAnswer, NetError}
      BY <2>2 DEF NoAnswer, NetError
    <2>3. CASE answer \in [status : Statuses, hint : Hints \cup {NoHint}]
      BY <2>3, HintAssumption
    <2> QED BY <2>1, <2>2, <2>3 DEF Answers
  <1>2. CASE answer.hint = NoHint
    BY <1>2 DEF Hinted, TypeOK
  <1>3. CASE answer.hint \in Int /\ answer.hint # NoHint
    <2>1. answer.hint * Second \in Int
      BY <1>3, HintAssumption
    <2> QED BY <1>3, <2>1, WrapInRange DEF Hinted
  <1> QED BY <1>1, <1>2, <1>3

(* The initial states satisfy the invariant.                               *)
LEMMA InitInv == Init => IInv
  <1> SUFFICES ASSUME Init PROVE IInv
    OBVIOUS
  <1>1. TypeOK
    <2>1. delay \in Int64s /\ delay >= MinRetry
      BY DelayAssumption DEF Init, Int64s
    <2>2. answer \in Answers
      BY DEF Init, Answers
    <2>3. retries \in 0 .. MaxCounted /\ slept \in Nat
      BY CallAssumption DEF Init
    <2> QED BY <2>1, <2>2, <2>3 DEF Init, TypeOK, Errors, Causes
  <1> QED
    BY <1>1, DelayAssumption
    DEF Init, IInv, NoAnswer, NetError, BackoffBudget, Grown, FailedBefore, CauseKnown, BodyInv,
        BodyReleased

(* A step of the call that returns keeps the invariant if it leaves no     *)
(* body open and names a cause.                                            *)
LEMMA ReturnInv ==
  ASSUME IInv, NEW e \in Errors, NEW c \in Causes, Return(e, c),
         body' \in {"none", "closed", "read"},
         e = "netMax" /\ MinRetry <= MaxRetry => c # "nil"
  PROVE  IInv'
  BY DEF IInv, TypeOK, BackoffBudget, Grown, FailedBefore, CauseKnown, BodyInv,
         BodyReleased, Return

(* Steps that only move the program counter.                               *)
LEMMA MoveInv ==
  ASSUME IInv,
         pc' \in {"limiter", "token", "send", "decode"},
         UNCHANGED <<op, ctxDone, delay, lastErr, answer, body, pending, err,
                     cause, retries, slept, hinted>>,
         pc' \in {"limiter", "token", "send"} => body # "open"
  PROVE  IInv'
  BY DEF IInv, TypeOK, BackoffBudget, Grown, FailedBefore, CauseKnown, BodyInv,
         BodyReleased

(* Every step keeps the invariant.                                         *)
LEMMA NextInv == IInv /\ [Next]_vars => IInv'
  <1> SUFFICES ASSUME IInv, [Next]_vars PROVE IInv'
    OBVIOUS
  <1> USE DelayAssumption
  <1>1. CASE LimiterWait
    <2>1. CASE LimiterFails
      BY <2>1, ReturnInv DEF LimiterFails, Errors, Causes, IInv, TypeOK,
         BodyReleased
    <2>2. CASE LimiterReserves
      BY <2>2, MoveInv DEF LimiterReserves, IInv, BodyReleased
    <2>3. CASE LimiterInterrupted
      BY <2>3, ReturnInv DEF LimiterInterrupted, Errors, Causes, IInv, TypeOK,
         BodyReleased
    <2>4. CASE LimiterPasses
      BY <2>4, MoveInv DEF LimiterPasses, IInv, BodyReleased
    <2> QED BY <1>1, <2>1, <2>2, <2>3, <2>4 DEF LimiterWait
  <1>12. CASE RequestFails
    BY <1>12, ReturnInv DEF RequestFails, Errors, Causes, IInv, TypeOK,
       BodyReleased
  <1>2. CASE Send
    BY <1>2 DEF Send, IInv, TypeOK, BackoffBudget, Grown, FailedBefore,
       CauseKnown, BodyInv, BodyReleased
  <1>3. CASE HandleReturn
    BY <1>3, MoveInv DEF HandleReturn
  <1>4. CASE HandleError
    BY <1>4, ReturnInv DEF HandleError, ErrorResponses, Errors, Causes
  <1>5. CASE HandleNetworkError
    <2> USE <1>5
    <2>1. body' = body /\ body \in {"none", "closed", "read"}
      BY DEF HandleNetworkError, IInv, TypeOK, BodyInv
    <2>2. CASE ctxDone /\ Return("cancelled", "net")
      BY <2>1, <2>2, ReturnInv DEF Errors, Causes
    <2>3. CASE delay > MaxRetry /\ Return("netMax", lastErr)
      <3>1. MinRetry <= MaxRetry => lastErr # "nil"
        BY <2>3 DEF IInv, FailedBefore, TypeOK, Int64s
      <3>2. lastErr \in Causes /\ "netMax" \in Errors
        BY DEF IInv, TypeOK, Errors
      <3> QED BY <2>1, <2>3, <3>1, <3>2, ReturnInv
    <2>4. CASE delay <= MaxRetry /\ BeginBackoff(delay, "net")
               /\ UNCHANGED hinted
      BY <2>1, <2>4
      DEF BeginBackoff, IInv, TypeOK, BackoffBudget, Grown, FailedBefore,
          CauseKnown, BodyInv, BodyReleased, Causes
    <2> QED BY <2>2, <2>3, <2>4 DEF HandleNetworkError
  <1>6. CASE HandleRetryStatus
    <2> DEFINE d == Hinted(delay)
    <2>1. /\ d \in Int64s
          /\ answer.hint = NoHint => d = delay
      BY <1>6, HintedIsDuration DEF HandleRetryStatus, IInv
    <2> HIDE DEF d
    <2>2. CASE d > MaxRetry /\ Return("statusMax", "unread")
      BY <1>6, <2>2, ReturnInv DEF HandleRetryStatus, Errors, Causes
    <2>3. CASE /\ d <= MaxRetry
               /\ BeginBackoff(d, "unread")
               /\ hinted' = (hinted \/ answer.hint # NoHint)
      BY <1>6, <2>1, <2>3
      DEF HandleRetryStatus, BeginBackoff, IInv, TypeOK, BackoffBudget, Grown,
          FailedBefore, CauseKnown, BodyInv, BodyReleased, Causes
    <2> QED BY <1>6, <2>2, <2>3 DEF HandleRetryStatus, d
  <1>7. CASE BackoffElapsed
    <2>1. delay \in Int64s /\ delay <= MaxRetry
      BY <1>7 DEF BackoffElapsed, IInv, TypeOK, BackoffBudget
    <2>2. delay' = Wrap(2 * delay) /\ 2 * delay \in Int
      BY <1>7, <2>1 DEF BackoffElapsed, NextDelay, Int64s
    <2>3. delay' \in Int64s
      BY <2>2, WrapInRange
    <2>4. ~hinted => delay' = 2 * delay
      <3> SUFFICES ASSUME ~hinted PROVE delay' = 2 * delay
        OBVIOUS
      <3>1. 2 * delay \in Int64s
        BY <2>1 DEF IInv, Grown, TypeOK, Int64s
      <3> QED BY <2>2, <3>1, WrapExact
    <2>5. retries' \in 0 .. MaxCounted
      BY <1>7, CallAssumption DEF BackoffElapsed, IncJiraRetry, IInv, TypeOK
    <2>6. Grown' /\ slept' \in Nat
      BY <1>7, <2>1, <2>4 DEF BackoffElapsed, IInv, Grown, TypeOK, Int64s
    <2>7. ~hinted' => delay' >= MinRetry
      BY <1>7, <2>1, <2>4 DEF BackoffElapsed, IInv, TypeOK, Int64s
    <2>8. TypeOK' /\ FailedBefore' /\ CauseKnown' /\ BodyInv' /\ BodyReleased'
      BY <1>7, <2>3, <2>5, <2>6, <2>7
      DEF BackoffElapsed, IInv, TypeOK, FailedBefore, CauseKnown, BodyInv,
          BodyReleased, Causes
    <2>9. BackoffBudget'
      BY <1>7, <2>6, <2>8
      DEF BackoffElapsed, BackoffBudget, Grown, TypeOK, Int64s
    <2> QED BY <2>6, <2>8, <2>9 DEF IInv
  <1>8. CASE BackoffInterrupted
    BY <1>8, ReturnInv DEF BackoffInterrupted, Errors, Causes, IInv, TypeOK,
       BodyInv
  <1>9. CASE Decode \/ ParseProjects
    BY <1>9, ReturnInv DEF Decode, ParseProjects, Errors, Causes
  <1>10. CASE CtxEnds
    BY <1>10 DEF CtxEnds, IInv, TypeOK, BackoffBudget, Grown, FailedBefore,
       CauseKnown, BodyInv, BodyReleased
  <1>11. CASE UNCHANGED vars
    BY <1>11 DEF vars, IInv, TypeOK, BackoffBudget, Grown, FailedBefore,
       CauseKnown, BodyInv, BodyReleased
  <1> QED
    BY <1>1, <1>2, <1>3, <1>4, <1>5, <1>6, <1>7, <1>8, <1>9, <1>10, <1>11,
       <1>12
    DEF Next, Call, Terminated

-----------------------------------------------------------------------------
(* The invariant holds in every state of a call.                           *)
THEOREM CallInvariance == Safety => []IInv
  BY InitInv, NextInv, PTL DEF Safety

(* TypeOK: every variable keeps its type, and without Retry-After the      *)
(* doubled delay never overflows.                                          *)
THEOREM CallTypeCorrect == Safety => []TypeOK
  <1>1. IInv => TypeOK
    BY DEF IInv
  <1> QED BY <1>1, CallInvariance, PTL

(* BackoffBudget: no wait of waitWithBackoff exceeds maxRetryDelay, and    *)
(* without Retry-After a call spends less than twice that waiting.         *)
THEOREM BackoffIsBounded == Safety => []BackoffBudget
  <1>1. IInv => BackoffBudget
    BY DEF IInv
  <1> QED BY <1>1, CallInvariance, PTL

(* CauseKnown: do never wraps a nil lastErr when minRetryDelay is within   *)
(* maxRetryDelay.                                                          *)
THEOREM CauseIsKnown == Safety => []CauseKnown
  <1>1. IInv => CauseKnown
    BY DEF IInv
  <1> QED BY <1>1, CallInvariance, PTL

(* BodyReleased: no response body is left open across a retry or after the *)
(* return.                                                                 *)
THEOREM BodiesAreReleased == Safety => []BodyReleased
  <1>1. IInv => BodyReleased
    BY DEF IInv
  <1> QED BY <1>1, CallInvariance, PTL
=============================================================================
