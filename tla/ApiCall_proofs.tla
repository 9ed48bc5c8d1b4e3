--------------------------- MODULE ApiCall_proofs ---------------------------
(***************************************************************************)
(* Proofs about ApiCall, for any number of attempts and of error details.  *)
(***************************************************************************)
EXTENDS ApiCall, WellFoundedInduction, TLAPS

USE RetryAssumption

\* The client waits for, judges or is about to repeat an attempt.
Trying == {"send", "await", "backoff"}

\* A judged answer is one; another attempt is left when one is to be made.
Answered ==
    /\ pc = "judge" => answer # None
    /\ pc \in {"send", "backoff"} => attempts <= RetryMax
    /\ late <= attempts

\* Nothing is returned before the call is over.
Outcome ==
    /\ pc = "done" <=> result # "none"
    /\ pc # "done" => diags = <<>>

\* An interrupt lets through one attempt, which is then judged.
Interrupted ==
    /\ ctx = "live" => late = 0
    /\ ctx = "canceled" /\ pc \in Trying => late = 0

IInv == /\ TypeOK /\ Answered /\ Outcome /\ Interrupted
        /\ SettledIsFinal /\ CancelStops /\ ErrorsReported /\ QuotaShadowed

-----------------------------------------------------------------------------
(* Lemmas about the answers and the policy *)

\* The HTTP status of every code.
LEMMA Statuses ==
    /\ DOMAIN StatusOf =
          {"ok", "not_found", "already_exists", "failed_precondition",
           "invalid_argument", "unauthenticated", "permission_denied",
           "resource_exhausted", "internal", "unimplemented", "unavailable"}
    /\ \A c \in DOMAIN StatusOf : StatusOf[c] \in Nat
    /\ StatusOf["resource_exhausted"] = 429
    /\ \A c \in DOMAIN StatusOf :
          StatusOf[c] >= 500 /\ StatusOf[c] # 501
             <=> c \in {"internal", "unavailable"}
    /\ \A c \in DOMAIN StatusOf :
          StatusOf[c] = 429 <=> c = "resource_exhausted"
  BY DEF StatusOf

\* An answer is none, a transport error, or a status with its details.
LEMMA AnswerCases ==
    ASSUME NEW a \in Answers
    PROVE  \/ a = None
           \/ a.kind = "transport" /\ a.code \in Causes \cup Ends
           \/ /\ a.kind = "status" /\ a.code \in DOMAIN StatusOf
              /\ a.details \in DetailLists
  BY DEF Answers, None, Transport, Status

\* What the policy is content with, for want of a reason to ask again.
LEMMA Settled ==
    ASSUME answer \in Answers, answer # None, ctx = "live"
    PROVE  /\ Definite(answer) => ~RetryPolicy /\ ~PolicyError
           /\ ~RetryPolicy /\ ~PolicyError
                 => /\ Definite(answer)
                    /\ answer.code \in DOMAIN StatusOf
                    /\ answer.details \in DetailLists
  <1>1. CASE answer.kind = "transport"
    BY <1>1 DEF PolicyError, Definite
  <1>2. CASE /\ answer.kind = "status" /\ answer.code \in DOMAIN StatusOf
             /\ answer.details \in DetailLists
    <2>1. answer.code # "timeout"
      BY <1>2, Statuses
    <2>2. Retryable(answer) <=>
             answer.code \in {"internal", "unavailable", "resource_exhausted"}
      BY <1>2, Statuses DEF Retryable
    <2>3. PolicyError <=> answer.code \in {"internal", "unavailable"}
      BY <1>2, Statuses DEF PolicyError
    <2> QED
      BY <1>2, <2>1, <2>2, <2>3 DEF RetryPolicy, Definite
  <1> QED
    BY <1>1, <1>2, AnswerCases

-----------------------------------------------------------------------------
(* Lemmas about the diagnostics *)

\* A non-empty set of natural numbers has a least element.
LEMMA Least ==
    ASSUME NEW S, S \subseteq Nat, S # {}
    PROVE  \E i \in S : \A j \in S : i <= j
  <1>1. PICK i \in S : \A j \in S : ~ (<<j, i>> \in OpToRel(<, Nat))
    BY WFMin, NatLessThanWellFounded, Zenon
  <1>2. \A j \in S : ~ (j < i)
    BY <1>1 DEF OpToRel
  <1> QED
    BY <1>2

\* The details make a list of diagnostics.
LEMMA FromDetailsType ==
    ASSUME NEW code, NEW details \in DetailLists
    PROVE  FromDetails(code, details) \in Seq({"plain", "specific"})
  <1> DEFINE ends == {i \in DOMAIN details : details[i] # "other"}
             last == CHOOSE i \in ends : \A j \in ends : i <= j
             before == IF ends = {} THEN Len(details) ELSE last - 1
             plain == [i \in 1..before |-> "plain"]
  <1>1. details \in Seq(DetailKinds)
    BY DEF DetailLists
  <1>2. before \in Nat
    <2>1. CASE ends = {}
      BY <1>1, <2>1
    <2>2. CASE ends # {}
      <3>1. ends \subseteq Nat \ {0}
        BY <1>1
      <3>2. last \in ends
        BY <2>2, <3>1, Least
      <3> QED
        BY <2>2, <3>1, <3>2
    <2> QED
      BY <2>1, <2>2
  <1>3. plain \in Seq({"plain", "specific"})
    BY <1>2
  <1>4. /\ <<"plain">> \in Seq({"plain", "specific"})
        /\ <<"specific">> \in Seq({"plain", "specific"})
        /\ <<>> \in Seq({"plain", "specific"})
    OBVIOUS
  <1> HIDE DEF plain
  <1>5. /\ plain \o <<"plain">> \in Seq({"plain", "specific"})
        /\ plain \o <<"specific">> \in Seq({"plain", "specific"})
        /\ plain \o <<>> \in Seq({"plain", "specific"})
    BY <1>3, <1>4
  <1> USE DEF plain
  <1> QED
    BY <1>3, <1>5, Zenon DEF FromDetails

\* Every code but "ok" leaves a diagnostic, and "ok" leaves none.
LEMMA Diagnosed ==
    ASSUME NEW code, NEW details \in DetailLists
    PROVE  /\ HandleAPIError(code, details) \in Seq({"plain", "specific"})
           /\ code = "ok" <=> HandleAPIError(code, details) = <<>>
  <1> DEFINE found == FromDetails(code, details)
  <1>1. found \in Seq({"plain", "specific"})
    BY FromDetailsType
  <1>2. HandleAPIError(code, details) =
           IF code = "ok" THEN <<>>
           ELSE IF code \notin Detailed \/ found = <<>> THEN <<"plain">>
           ELSE found
    BY DEF HandleAPIError
  <1>3. /\ <<>> \in Seq({"plain", "specific"})
        /\ <<"plain">> \in Seq({"plain", "specific"})
        /\ <<"plain">> # <<>>
    OBVIOUS
  <1> HIDE DEF found
  <1>4. "ok" \notin Detailed
    BY DEF Detailed
  <1>5. CASE code = "ok"
    BY <1>2, <1>3, <1>5
  <1>6. CASE code # "ok"
    BY <1>1, <1>2, <1>3, <1>6, Zenon
  <1> QED
    BY <1>5, <1>6

-----------------------------------------------------------------------------
(* The invariant *)

LEMMA InitIInv == Init => IInv
  <1> SUFFICES ASSUME Init PROVE IInv
    OBVIOUS
  <1>1. TypeOK
    BY DEF Init, TypeOK, Answers
  <1>2. Answered /\ Outcome /\ Interrupted
    BY DEF Init, Answered, Outcome, Interrupted
  <1>3. SettledIsFinal
    BY DEF Init, SettledIsFinal, Definite, None
  <1>4. CancelStops /\ ErrorsReported /\ QuotaShadowed
    BY DEF Init, CancelStops, ErrorsReported, QuotaShadowed
  <1> QED
    BY <1>1, <1>2, <1>3, <1>4 DEF IInv

\* The call returns a code, and the diagnostics HandleAPIError makes of it.
LEMMA ReturnPreserves ==
    ASSUME IInv, NEW code \in Codes, NEW details \in DetailLists,
           pc # "done", Return(code, details),
           UNCHANGED <<call, reply, answer, ctx, object>>,
           code # "resource_exhausted",
           ctx = "live" /\ Definite(answer) => code = answer.code,
           ctx = "canceled" => late <= 1
    PROVE  IInv'
  <1>0. "none" \notin Codes
    BY Statuses DEF Codes, Ends
  <1>1. /\ diags' \in Seq({"plain", "specific"})
        /\ result' = "ok" <=> diags' = <<>>
    BY Diagnosed DEF Return
  <1>2. TypeOK'
    BY <1>1 DEF IInv, TypeOK, Return, call
  <1>3. Answered' /\ Outcome' /\ Interrupted'
    BY <1>0 DEF IInv, Answered, Outcome, Interrupted, Return, call, Trying
  <1>4. SettledIsFinal'
    BY DEF SettledIsFinal, Return, Definite
  <1>5. CancelStops' /\ ErrorsReported' /\ QuotaShadowed'
    BY <1>1 DEF CancelStops, ErrorsReported, QuotaShadowed, Return, call
  <1> QED
    BY <1>2, <1>3, <1>4, <1>5 DEF IInv

\* An attempt is made, judged or repeated; the call is not over.
LEMMA SendPreserves ==
    ASSUME IInv, Send
    PROVE  IInv'
  <1>1. TypeOK'
    BY DEF IInv, TypeOK, Answered, Send, Answers
  <1>2. Answered' /\ Outcome' /\ Interrupted'
    BY DEF IInv, TypeOK, Answered, Outcome, Interrupted, Send, Trying
  <1>3. SettledIsFinal'
    BY DEF IInv, SettledIsFinal, Send, Definite
  <1>4. CancelStops' /\ ErrorsReported' /\ QuotaShadowed'
    BY DEF IInv, CancelStops, ErrorsReported, QuotaShadowed, Send
  <1> QED
    BY <1>1, <1>2, <1>3, <1>4 DEF IInv

LEMMA SendFailsPreserves ==
    ASSUME IInv, SendFails
    PROVE  IInv'
  <1>0. PICK c \in Causes \cup Ends : answer' = Transport(c)
    BY DEF IInv, TypeOK, SendFails
  <1>1. answer' \in Answers /\ answer' # None
    BY <1>0 DEF Answers, Transport, None
  <1>2. late' \in 0..attempts' /\ attempts' \in 0..(RetryMax + 1)
    BY DEF IInv, TypeOK, Answered, SendFails
  <1>3. TypeOK'
    BY <1>1, <1>2 DEF IInv, TypeOK, Answered, SendFails, Answers
  <1>4. Answered' /\ Outcome' /\ Interrupted'
    BY <1>1, <1>2 DEF IInv, TypeOK, Answered, Outcome, Interrupted, SendFails, Trying
  <1>5. SettledIsFinal'
    BY DEF SettledIsFinal, SendFails
  <1>6. CancelStops' /\ ErrorsReported' /\ QuotaShadowed'
    BY DEF IInv, TypeOK, CancelStops, ErrorsReported, QuotaShadowed, SendFails,
           Interrupted, Trying
  <1> QED
    BY <1>3, <1>4, <1>5, <1>6 DEF IInv

\* A reply is no part of the other conjuncts.
LEMMA ServePreserves ==
    ASSUME IInv, NEW n \in inflight,
           ServeCreate(n) \/ ServeDelete(n) \/ Refuse(n)
    PROVE  IInv'
  <1>1. PICK c \in DOMAIN StatusOf, d \in DetailLists : Replies(n, Status(c, d))
    <2>1. CASE ServeCreate(n)
      BY <2>1, Statuses DEF ServeCreate
    <2>2. CASE ServeDelete(n)
      BY <2>2, Statuses DEF ServeDelete
    <2>3. CASE Refuse(n)
      BY <2>3 DEF Refuse
    <2> QED
      BY <2>1, <2>2, <2>3
  <1>2. reply' \in Answers
    BY <1>1 DEF Replies, Answers, IInv, TypeOK
  <1>3. object' \in {"absent", "ours", "foreign"}
    BY DEF ServeCreate, ServeDelete, Refuse, IInv, TypeOK
  <1>4. TypeOK'
    BY <1>1, <1>2, <1>3 DEF IInv, TypeOK, Replies
  <1>5. Answered' /\ Outcome' /\ Interrupted'
    BY <1>1 DEF IInv, Answered, Outcome, Interrupted, Replies
  <1>6. SettledIsFinal'
    BY <1>1 DEF IInv, SettledIsFinal, Replies, Definite
  <1>7. CancelStops' /\ ErrorsReported' /\ QuotaShadowed'
    BY <1>1 DEF IInv, CancelStops, ErrorsReported, QuotaShadowed, Replies
  <1> QED
    BY <1>4, <1>5, <1>6, <1>7 DEF IInv

LEMMA ArrivalPreserves ==
    ASSUME IInv, Receive \/ Lose
    PROVE  IInv'
  <1>1. answer' \in Answers /\ answer' # None
    <2>1. CASE Receive
      BY <2>1 DEF Receive, IInv, TypeOK
    <2>2. CASE Lose
      <3>1. CASE \E c \in Causes \cup Ends : answer' = Transport(c)
        BY <3>1 DEF Answers, Transport, None
      <3>2. CASE answer' = Status("unavailable", <<>>)
        <4>1. <<>> \in DetailLists /\ "unavailable" \in DOMAIN StatusOf
          BY Statuses DEF DetailLists
        <4> QED
          BY <3>2, <4>1 DEF Answers, Status, None
      <3> QED
        BY <2>2, <3>1, <3>2 DEF Lose, IInv, TypeOK, Causes
    <2> QED
      BY <2>1, <2>2
  <1>2. /\ pc = "await" /\ pc' = "judge"
        /\ UNCHANGED <<call, reply, ctx, object, result, diags>>
    BY DEF Receive, Lose
  <1>3. TypeOK'
    BY <1>1, <1>2 DEF IInv, TypeOK, call
  <1>4. Answered' /\ Outcome' /\ Interrupted'
    BY <1>1, <1>2 DEF IInv, Answered, Outcome, Interrupted, call, Trying
  <1>5. SettledIsFinal'
    BY <1>2 DEF SettledIsFinal
  <1>6. CancelStops' /\ ErrorsReported' /\ QuotaShadowed'
    BY <1>2 DEF IInv, CancelStops, ErrorsReported, QuotaShadowed, call
  <1> QED
    BY <1>3, <1>4, <1>5, <1>6 DEF IInv

LEMMA RetryPreserves ==
    ASSUME IInv, Retry
    PROVE  IInv'
  <1>1. ctx # "canceled"
    BY DEF Retry, RetryPolicy
  <1>2. ctx # "live" \/ ~Definite(answer)
    BY Settled DEF Retry, IInv, TypeOK, Answered
  <1>3. TypeOK'
    BY DEF IInv, TypeOK, Retry, call
  <1>4. Answered' /\ Outcome' /\ Interrupted'
    BY <1>1 DEF IInv, Answered, Outcome, Interrupted, Retry, call
  <1>5. SettledIsFinal'
    BY <1>2 DEF SettledIsFinal, Retry, Definite
  <1>6. CancelStops' /\ ErrorsReported' /\ QuotaShadowed'
    BY DEF IInv, CancelStops, ErrorsReported, QuotaShadowed, Retry, call
  <1> QED
    BY <1>3, <1>4, <1>5, <1>6 DEF IInv

LEMMA FinishPreserves ==
    ASSUME IInv, Finish
    PROVE  IInv'
  <1>0. <<>> \in DetailLists
    BY DEF DetailLists
  <1>1. CASE RetryPolicy \/ PolicyError
    <2>1. ErrorCode \in Codes /\ ErrorCode # "resource_exhausted"
      BY Statuses DEF ErrorCode, Codes, Ends, IInv, TypeOK
    <2>2. ~(ctx = "live" /\ Definite(answer))
      BY <1>1, Settled DEF Finish, IInv, TypeOK, Answered
    <2> QED
      BY <1>0, <1>1, <2>1, <2>2, ReturnPreserves DEF Finish, IInv, CancelStops
  <1>2. CASE ~RetryPolicy /\ ~PolicyError
    <2>1. ctx = "live"
      BY <1>2 DEF PolicyError
    <2>2. /\ Definite(answer) /\ answer.code \in DOMAIN StatusOf
          /\ answer.details \in DetailLists
      BY <1>2, <2>1, Settled DEF Finish, IInv, TypeOK, Answered
    <2>3. answer.code \in Codes /\ answer.code # "resource_exhausted"
      BY <2>2 DEF Codes, Definite
    <2> QED
      BY <1>2, <2>1, <2>2, <2>3, ReturnPreserves DEF Finish
  <1> QED
    BY <1>1, <1>2

LEMMA BackoffPreserves ==
    ASSUME IInv, Backoff \/ BackoffAborted
    PROVE  IInv'
  <1>1. CASE Backoff
    <2>1. TypeOK'
      BY <1>1 DEF IInv, TypeOK, Backoff, call
    <2>2. Answered' /\ Outcome' /\ Interrupted'
      BY <1>1 DEF IInv, Answered, Outcome, Interrupted, Backoff, call, Trying
    <2>3. SettledIsFinal'
      BY <1>1 DEF IInv, SettledIsFinal, Backoff, Definite
    <2>4. CancelStops' /\ ErrorsReported' /\ QuotaShadowed'
      BY <1>1 DEF IInv, CancelStops, ErrorsReported, QuotaShadowed, Backoff, call
    <2> QED
      BY <2>1, <2>2, <2>3, <2>4 DEF IInv
  <1>2. CASE BackoffAborted
    <2>1. <<>> \in DetailLists
      BY DEF DetailLists
    <2>2. ctx \in Codes /\ ctx # "resource_exhausted" /\ ctx # "live"
      BY <1>2 DEF BackoffAborted, IInv, TypeOK, Codes, Ends
    <2> QED
      BY <1>2, <2>1, <2>2, ReturnPreserves DEF BackoffAborted, IInv, CancelStops
  <1> QED
    BY <1>1, <1>2

LEMMA ContextPreserves ==
    ASSUME IInv, ContextEnds
    PROVE  IInv'
  <1>1. ctx' \in Ends /\ ctx' # "live"
    BY DEF ContextEnds, Ends
  <1>2. TypeOK'
    BY <1>1 DEF IInv, TypeOK, ContextEnds, call
  <1>3. Answered' /\ Outcome' /\ Interrupted'
    BY <1>1 DEF IInv, Answered, Outcome, Interrupted, ContextEnds, call
  <1>4. SettledIsFinal'
    BY <1>1 DEF SettledIsFinal, ContextEnds
  <1>5. CancelStops' /\ ErrorsReported' /\ QuotaShadowed'
    BY DEF IInv, CancelStops, ErrorsReported, QuotaShadowed, ContextEnds, call,
           Interrupted
  <1> QED
    BY <1>2, <1>3, <1>4, <1>5 DEF IInv

LEMMA NextIInv == IInv /\ [Next]_vars => IInv'
  <1> SUFFICES ASSUME IInv, [Next]_vars PROVE IInv'
    OBVIOUS
  <1>1. CASE UNCHANGED vars
    BY <1>1 DEF vars, IInv, TypeOK, Answered, Outcome, Interrupted, Trying,
       SettledIsFinal, CancelStops, ErrorsReported, QuotaShadowed, Definite
  <1>2. CASE Next
    BY <1>1, <1>2, SendPreserves, SendFailsPreserves, ServePreserves,
       ArrivalPreserves, RetryPreserves, FinishPreserves, BackoffPreserves,
       ContextPreserves DEF Next, Terminated
  <1> QED
    BY <1>1, <1>2

-----------------------------------------------------------------------------
(* Theorems *)

\* Everything below follows from one invariant of the call.
THEOREM Invariance == Spec => []IInv
  BY InitIInv, NextIInv, PTL DEF Spec

\* Every reachable state of a call is well-typed (client.go, retry.go).
THEOREM TypeCorrect == Spec => []TypeOK
  <1>1. IInv => TypeOK
    BY DEF IInv
  <1> QED
    BY <1>1, Invariance, PTL

\* No answer the server settled is asked for again, and it is what the caller
\* learns (baseRetryPolicy), however many attempts there are.
THEOREM VerdictsFinal == Spec => []SettledIsFinal
  <1>1. IInv => SettledIsFinal
    BY DEF IInv
  <1> QED
    BY <1>1, Invariance, PTL

\* After an interrupt at most one attempt is made (retry.go:88).
THEOREM CancellationStops == Spec => []CancelStops
  <1>1. IInv => CancelStops
    BY DEF IInv
  <1> QED
    BY <1>1, Invariance, PTL

\* A call that fails leaves a diagnostic for any list of details
\* (HandleAPIError).
THEOREM FailuresDiagnosed == Spec => []ErrorsReported
  <1>1. IInv => ErrorsReported
    BY DEF IInv
  <1> QED
    BY <1>1, Invariance, PTL

\* The branch of HandleAPIError for an exceeded quota is never reached.
THEOREM QuotaNeverSeen == Spec => []QuotaShadowed
  <1>1. IInv => QuotaShadowed
    BY DEF IInv
  <1> QED
    BY <1>1, Invariance, PTL
=============================================================================
