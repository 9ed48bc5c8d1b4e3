------------------------------ MODULE ApiCall ------------------------------
(***************************************************************************)
(* One call of the CoreWeave API: the retrying HTTP client that NewClient  *)
(* builds (src/coreweave/client.go), the policy that decides on a retry    *)
(* (retry.go) and the diagnostics HandleAPIError makes of the outcome.     *)
(*                                                                         *)
(* The call creates or deletes one object, both by POST.  A request that   *)
(* the client no longer waits for stays in flight, and the server may      *)
(* still execute it.  The loop around the policy is go-retryablehttp's,    *)
(* the code of an answer is Connect's; both are external.                  *)
(***************************************************************************)
EXTENDS Naturals, Sequences

CONSTANTS
    RetryMax,     \* 10
    MaxDetails    \* the longest list of error details the server attaches

ASSUME RetryAssumption == {RetryMax, MaxDetails} \subseteq Nat

VARIABLES
    op,        \* "create" or "delete"
    pc,        \* where the call is
    attempts,  \* how many times the HTTP client was asked
    inflight,  \* the attempts the server has not served yet
    reply,     \* the server's answer to the present attempt
    answer,    \* what the HTTP client returned last
    ctx,       \* the context of the call
    object,    \* does the object exist, and whose is it?
    result,    \* the code the call returns
    diags,     \* the error diagnostics added for it
    late       \* history: attempts made since the context ended

call == <<op, attempts, inflight, late>>
vars == <<op, pc, attempts, inflight, reply, answer, ctx, object, result,
          diags, late>>

-----------------------------------------------------------------------------
\* Answers

\* The HTTP status Connect gives a code.
StatusOf ==
    [ok |-> 200, not_found |-> 404, already_exists |-> 409,
     failed_precondition |-> 400, invalid_argument |-> 400,
     unauthenticated |-> 401, permission_denied |-> 403,
     resource_exhausted |-> 429, internal |-> 500, unimplemented |-> 501,
     unavailable |-> 503]

\* What a transport error is about, and how a context ends.
Causes == {"redirects", "scheme", "header", "tls", "reset", "timeout"}
Ends == {"canceled", "deadline_exceeded"}

Codes == DOMAIN StatusOf \cup Ends

\* An error detail does not parse, is of another type than the code calls
\* for, or is of that type and lists no, or some, violations.
DetailKinds == {"unreadable", "other", "empty", "listed"}
DetailLists == UNION {[1..n -> DetailKinds] : n \in 0..MaxDetails}

Status(code, details) == [kind |-> "status", code |-> code, details |-> details]
Transport(cause) == [kind |-> "transport", code |-> cause, details |-> <<>>]
None == [kind |-> "none", code |-> "none", details |-> <<>>]

Answers ==
    {None} \cup {Transport(c) : c \in Causes \cup Ends}
           \cup {Status(c, d) : c \in DOMAIN StatusOf, d \in DetailLists}

-----------------------------------------------------------------------------
\* The policy

\* errors.Is(err, v) with v a nil *url.Error: no error is that pointer.
IsNilURLError(cause) == FALSE

\* The four regular expressions and the TLS check behind that condition.
Unrecoverable(cause) ==
    IsNilURLError(cause) /\ cause \in {"redirects", "scheme", "header", "tls"}

\* Mutant of Retryable: 501 is not excepted, as if every 5xx passed.
MutEvery5xx(a) ==
    \/ a.kind = "transport" /\ ~Unrecoverable(a.code)
    \/ a.kind = "status" /\ (StatusOf[a.code] = 429 \/ StatusOf[a.code] >= 500)

\* Another: 429 is left to the caller.
MutNo429(a) ==
    \/ a.kind = "transport" /\ ~Unrecoverable(a.code)
    \/ /\ a.kind = "status"
       /\ StatusOf[a.code] >= 500 /\ StatusOf[a.code] # 501

\* baseRetryPolicy: errors, 429 and 5xx except 501.
Retryable(a) ==
    \/ a.kind = "transport" /\ ~Unrecoverable(a.code)
    \/ /\ a.kind = "status"
       /\ \/ StatusOf[a.code] = 429
          \/ StatusOf[a.code] >= 500 /\ StatusOf[a.code] # 501

\* Mutant of RetryPolicy: it does not look at the context.
MutNoContext == Retryable(answer)

\* RetryPolicy: a cancelled context is final, an expired one is not.
RetryPolicy ==
    \/ ctx = "deadline_exceeded"
    \/ ctx = "live" /\ (answer.code = "timeout" \/ Retryable(answer))

\* Mutant of PolicyError: an attempt without an answer passes for an answer.
MutForgetsError ==
    /\ answer.kind = "status"
    /\ StatusOf[answer.code] >= 500 /\ StatusOf[answer.code] # 501

\* The error the policy returns with its verdict hides the answer.
PolicyError ==
    \/ ctx # "live"
    \/ answer.kind = "transport"
    \/ StatusOf[answer.code] >= 500 /\ StatusOf[answer.code] # 501

-----------------------------------------------------------------------------
\* The diagnostics

\* The codes whose details HandleAPIError goes through.
Detailed == {"not_found", "already_exists", "failed_precondition",
             "invalid_argument", "resource_exhausted"}

\* A detail of another type adds the plain error; the first other one ends
\* the loop, with the plain error if it is unreadable, with one diagnostic per
\* violation if it is of the right type.
FromDetails(code, details) ==
    LET ends == {i \in DOMAIN details : details[i] # "other"}
        last == CHOOSE i \in ends : \A j \in ends : i <= j
        before == IF ends = {} THEN Len(details) ELSE last - 1
        plain == [i \in 1..before |-> "plain"]
    IN  IF ends = {} THEN plain
        ELSE plain \o (IF details[last] = "unreadable" THEN <<"plain">>
                       ELSE IF \/ details[last] = "listed"
                               \/ code \in {"not_found", "already_exists"}
                       THEN <<"specific">> ELSE <<>>)

\* Mutant of HandleAPIError: no safeguard.
MutNoSafeguard(code, details) ==
    IF code = "ok" THEN <<>>
    ELSE IF code \in Detailed THEN FromDetails(code, details) ELSE <<"plain">>

HandleAPIError(code, details) ==
    LET found == FromDetails(code, details)
    IN  IF code = "ok" THEN <<>>
        ELSE IF code \notin Detailed \/ found = <<>> THEN <<"plain">>
        ELSE found

-----------------------------------------------------------------------------
\* The loop

Return(code, details) ==
    /\ pc' = "done"
    /\ result' = code
    /\ diags' = HandleAPIError(code, details)

\* The request leaves.
Send ==
    /\ pc = "send" /\ ctx = "live"
    /\ attempts' = attempts + 1
    /\ inflight' = inflight \cup {attempts + 1}
    /\ reply' = None
    /\ pc' = "await"
    /\ UNCHANGED <<op, answer, ctx, object, result, diags, late>>

\* It does not, because it cannot be sent or the context is over.
SendFails ==
    /\ pc = "send"
    /\ attempts' = attempts + 1
    /\ \E c \in IF ctx = "live" THEN Causes ELSE {ctx} :
          answer' = Transport(c)
    /\ reply' = None
    /\ late' = IF ctx = "live" THEN 0 ELSE late + 1
    /\ pc' = "judge"
    /\ UNCHANGED <<op, inflight, ctx, object, result, diags>>

Replies(n, a) ==
    /\ inflight' = inflight \ {n}
    /\ reply' = IF n = attempts /\ pc = "await" THEN a ELSE reply
    /\ UNCHANGED <<op, pc, attempts, answer, ctx, result, diags, late>>

\* The server executes a request, which somebody may still wait for or not.
ServeCreate(n) ==
    /\ n \in inflight /\ op = "create"
    /\ \E d \in DetailLists :
          IF object = "absent" THEN /\ d = <<>> /\ object' = "ours"
                                    /\ Replies(n, Status("ok", d))
          ELSE UNCHANGED object /\ Replies(n, Status("already_exists", d))

ServeDelete(n) ==
    /\ n \in inflight /\ op = "delete"
    /\ object' = "absent"
    /\ \E d \in DetailLists :
          IF object = "absent" THEN Replies(n, Status("not_found", d))
          ELSE d = <<>> /\ Replies(n, Status("ok", d))

\* The server refuses a request, for another reason.
Refuse(n) ==
    /\ n \in inflight
    /\ \E c \in DOMAIN StatusOf \ {"ok", "not_found", "already_exists"},
          d \in DetailLists :
             /\ c \notin Detailed => d = <<>>
             /\ Replies(n, Status(c, d))
    /\ UNCHANGED object

\* The answer arrives.
Receive ==
    /\ pc = "await" /\ reply # None
    /\ answer' = reply
    /\ pc' = "judge"
    /\ UNCHANGED <<call, reply, ctx, object, result, diags>>

\* It does not: the connection breaks, a proxy answers instead, the client's
\* timeout passes or the context ends.
Lose ==
    /\ pc = "await"
    /\ \/ answer' \in {Transport("reset"), Transport("timeout"),
                       Transport("redirects"), Status("unavailable", <<>>)}
       \/ ctx # "live" /\ answer' = Transport(ctx)
    /\ pc' = "judge"
    /\ UNCHANGED <<call, reply, ctx, object, result, diags>>

\* CheckRetry allows another attempt, and there is one left.
Retry ==
    /\ pc = "judge" /\ RetryPolicy /\ attempts <= RetryMax
    /\ pc' = "backoff"
    /\ UNCHANGED <<call, reply, answer, ctx, object, result, diags>>

\* The code of an error that Connect did not get from the server.
ErrorCode == IF ctx # "live" THEN ctx
             ELSE IF answer.code = "timeout" THEN "deadline_exceeded"
             ELSE "unavailable"

\* The loop ends: with the answer if the policy is content with it.
Finish ==
    /\ pc = "judge" /\ ~(RetryPolicy /\ attempts <= RetryMax)
    /\ IF RetryPolicy \/ PolicyError THEN Return(ErrorCode, <<>>)
       ELSE Return(answer.code, answer.details)
    /\ UNCHANGED <<call, reply, answer, ctx, object>>

\* The back-off ends.  If the context ended too, select takes either.
Backoff ==
    /\ pc = "backoff"
    /\ pc' = "send"
    /\ UNCHANGED <<call, reply, answer, ctx, object, result, diags>>

BackoffAborted ==
    /\ pc = "backoff" /\ ctx # "live"
    /\ Return(ctx, <<>>)
    /\ UNCHANGED <<call, reply, answer, ctx, object>>

\* The user interrupts, or a deadline of the caller's passes.
ContextEnds ==
    /\ pc # "done" /\ ctx = "live"
    /\ ctx' \in Ends
    /\ UNCHANGED <<call, pc, reply, answer, object, result, diags>>

\* The call is over, and so are its stray requests.
Terminated == pc = "done" /\ inflight = {} /\ UNCHANGED vars

-----------------------------------------------------------------------------
Init ==
    /\ op \in {"create", "delete"}
    /\ object \in IF op = "create" THEN {"absent", "foreign"}
                   ELSE {"absent", "ours"}
    /\ pc = "send" /\ ctx = "live"
    /\ attempts = 0 /\ late = 0 /\ inflight = {}
    /\ reply = None /\ answer = None
    /\ result = "none" /\ diags = <<>>

Next ==
    \/ Send \/ SendFails \/ Receive \/ Lose
    \/ Retry \/ Finish \/ Backoff \/ BackoffAborted
    \/ \E n \in inflight : ServeCreate(n) \/ ServeDelete(n) \/ Refuse(n)
    \/ ContextEnds
    \/ Terminated

Spec == Init /\ [][Next]_vars

-----------------------------------------------------------------------------
TypeOK ==
    /\ op \in {"create", "delete"}
    /\ pc \in {"send", "await", "judge", "backoff", "done"}
    /\ attempts \in 0..(RetryMax + 1) /\ late \in 0..(RetryMax + 1)
    /\ inflight \subseteq 1..attempts
    /\ {reply, answer} \subseteq Answers
    /\ ctx \in {"live"} \cup Ends
    /\ object \in {"absent", "ours", "foreign"}
    /\ result \in Codes \cup {"none"}
    /\ diags \in Seq({"plain", "specific"})

\* Answers that settle the request: asking again cannot change them.
Definite(a) ==
    a.kind = "status" /\ a.code \notin {"internal", "unavailable",
                                       "resource_exhausted"}

\* A request the server has settled is not sent again, and the caller learns
\* that verdict unless the context ended: no retry stands between an answer
\* such as NotFound, which Read and Delete act on, and the resource.
\* (baseRetryPolicy, retry.go:63-74)
SettledIsFinal ==
    /\ pc \in {"backoff", "send", "await"} => ctx # "live" \/ ~Definite(answer)
    /\ pc = "done" /\ ctx = "live" /\ Definite(answer) => result = answer.code

\* "do not retry on context.Canceled errors" (retry.go:88): after the user
\* interrupts there is at most one more attempt, the one a back-off that
\* ended at the same moment lets through, and it does not reach the server.
CancelStops == ctx = "canceled" => late <= 1

\* Every call that fails leaves an error diagnostic, whatever details the
\* server attached, so that Terraform does not take it for a success
\* (the safeguard at client.go:206).
ErrorsReported == pc = "done" => (result = "ok" <=> diags = <<>>)

\* The retry policy takes every ResourceExhausted, which Connect sends as
\* 429, so the branch of HandleAPIError that reports an exceeded quota is not
\* reached: the call ends as unavailable (retry.go:63 against client.go:174).
QuotaShadowed == result # "resource_exhausted"
=============================================================================
