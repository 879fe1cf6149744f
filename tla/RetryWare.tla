----------------------------- MODULE RetryWare -----------------------------
(***************************************************************************)
(* The query frontend's retry middleware, retryWare.RoundTrip              *)
(* (modules/frontend/retry.go), serving one request while a client may     *)
(* cancel the request's context at any moment.                             *)
(*                                                                         *)
(* The loop checks ctx.Err(), calls next.RoundTrip, returns a response     *)
(* that is not a 5xx, returns an httpgrpc error whose code is not a 5xx,   *)
(* otherwise counts the failed try and either gives up (tries >=           *)
(* maxRetries) or goes round again.  The deferred histogram observation    *)
(* records tries.  What next.RoundTrip answers is an input: a response     *)
(* with a status code, an httpgrpc error carrying a code, or a plain error *)
(* (a transport error, or context.Canceled once the context is done).      *)
(***************************************************************************)
EXTENDS Integers, Sequences

CONSTANTS
    MaxRetries,   \* retryWare.maxRetries (cfg.MaxRetries)
    StatusCodes   \* the HTTP status codes next.RoundTrip may answer with

ASSUME RetryAssumption ==
    /\ MaxRetries \in Int
    /\ StatusCodes \subseteq Nat
    /\ 0 \notin StatusCodes

\* What next.RoundTrip returns, abstracted to what retryWare tests:
\*   [resp |-> c, grpc |-> 0]   a response with status c and a nil error
\*   [resp |-> 0, grpc |-> c]   a nil response and an httpgrpc error of code c
\*   [resp |-> 0, grpc |-> 0]   a nil response and any other error
\* (0 stands for "absent", as statusCode := 0 does in RoundTrip).
Outcome ==
    {[resp |-> c, grpc |-> 0] : c \in StatusCodes} \cup
    {[resp |-> 0, grpc |-> c] : c \in StatusCodes} \cup
    {[resp |-> 0, grpc |-> 0]}

\* The answer RoundTrip returns when the context is done.
CtxErr == [resp |-> 0, grpc |-> 0, ctx |-> TRUE]

VARIABLES
    pc,        \* "check": at ctx.Err(); "call": calling next; "done": returned
    tries,     \* the local tries counter
    canceled,  \* the request context is done
    history,   \* every answer of next.RoundTrip, in order
    cancelAt,  \* Len(history) when the context was canceled, -1 before
    result,    \* what RoundTrip returned (meaningful when pc = "done")
    observed   \* the value given to retriesCount.Observe, -1 before return

vars == <<pc, tries, canceled, history, cancelAt, result, observed>>

TypeOK ==
    /\ pc \in {"check", "call", "done"}
    /\ tries \in Nat
    /\ canceled \in BOOLEAN
    /\ history \in Seq(Outcome)
    /\ cancelAt \in -1..Len(history)
    /\ result \in Outcome \cup {CtxErr}
    /\ observed \in -1..Len(history)

Init ==
    /\ pc = "check"
    /\ tries = 0
    /\ canceled = FALSE
    /\ history = <<>>
    /\ cancelAt = -1
    /\ result = [resp |-> 0, grpc |-> 0]
    /\ observed = -1

-----------------------------------------------------------------------------

\* shouldRetry: statusCode/100 == 5.
ShouldRetry(code) == code \div 100 = 5

\* RoundTrip returns this answer at once, without counting a try: a response
\* with a nil error and a status that is not 5xx, or an httpgrpc error whose
\* code is not 5xx.
ReturnsAtOnce(o) ==
    \/ o.grpc = 0 /\ o.resp # 0 /\ ~ShouldRetry(o.resp)
    \/ o.grpc # 0 /\ ~ShouldRetry(o.grpc)

\* The client cancels the request context.
Cancel ==
    /\ ~canceled
    /\ pc # "done"
    /\ canceled' = TRUE
    /\ cancelAt' = Len(history)
    /\ UNCHANGED <<pc, tries, history, result, observed>>

\* Mutant: a done context makes the loop go round again instead of
\* returning (a continue where the code returns).
CheckContextSpin ==
    /\ pc = "check"
    /\ IF canceled
         THEN UNCHANGED <<pc, result, observed>>
         ELSE /\ pc' = "call"
              /\ UNCHANGED <<result, observed>>
    /\ UNCHANGED <<tries, canceled, history, cancelAt>>

\* Mutant: the context is never checked.
CheckContextNever ==
    /\ pc = "check"
    /\ pc' = "call"
    /\ UNCHANGED <<result, observed, tries, canceled, history, cancelAt>>

\* Top of the loop: if ctx.Err() != nil return nil, ctx.Err().
CheckContext ==
    /\ pc = "check"
    /\ IF canceled
         THEN /\ pc' = "done"
              /\ result' = CtxErr
              /\ observed' = tries
         ELSE /\ pc' = "call"
              /\ UNCHANGED <<result, observed>>
    /\ UNCHANGED <<tries, canceled, history, cancelAt>>

\* Mutant: the loop does not test httpgrpc errors, so every error is retried.
AnswerNoGrpcCheck(o) ==
    /\ history' = Append(history, o)
    /\ IF o.grpc = 0 /\ o.resp # 0 /\ ~ShouldRetry(o.resp)
         THEN /\ pc' = "done"
              /\ result' = o
              /\ observed' = tries
              /\ UNCHANGED tries
         ELSE /\ tries' = tries + 1
              /\ IF tries + 1 >= MaxRetries
                   THEN /\ pc' = "done"
                        /\ result' = o
                        /\ observed' = tries + 1
                   ELSE /\ pc' = "check"
                        /\ UNCHANGED <<result, observed>>

\* Mutant: the give-up test is tries > maxRetries.
AnswerOffByOne(o) ==
    /\ history' = Append(history, o)
    /\ IF ReturnsAtOnce(o)
         THEN /\ pc' = "done"
              /\ result' = o
              /\ observed' = tries
              /\ UNCHANGED tries
         ELSE /\ tries' = tries + 1
              /\ IF tries + 1 > MaxRetries
                   THEN /\ pc' = "done"
                        /\ result' = o
                        /\ observed' = tries + 1
                   ELSE /\ pc' = "check"
                        /\ UNCHANGED <<result, observed>>

\* What the loop does with answer o of next.RoundTrip: return it if it is
\* not retried, otherwise tries++ and give up once tries >= maxRetries (the
\* response of a retried try is dropped).
Answer(o) ==
    /\ history' = Append(history, o)
    /\ IF ReturnsAtOnce(o)
         THEN /\ pc' = "done"
              /\ result' = o
              /\ observed' = tries
              /\ UNCHANGED tries
         ELSE /\ tries' = tries + 1
              /\ IF tries + 1 >= MaxRetries
                   THEN /\ pc' = "done"
                        /\ result' = o
                        /\ observed' = tries + 1
                   ELSE /\ pc' = "check"
                        /\ UNCHANGED <<result, observed>>

\* One pass of the loop body after the context check: call next.RoundTrip
\* and handle its answer.
RoundTripNext ==
    /\ pc = "call"
    /\ \E o \in Outcome : Answer(o)
    /\ UNCHANGED <<canceled, cancelAt>>

\* Once RoundTrip has returned nothing is left to do for the request.
Next == Cancel \/ CheckContext \/ RoundTripNext

\* The goroutine serving the request keeps running.
Spec == Init /\ [][Next]_vars /\ WF_vars(CheckContext \/ RoundTripNext)

-----------------------------------------------------------------------------
(* Properties.                                                             *)

\* next.RoundTrip is called at most maxRetries times, and at least once
\* even when maxRetries is zero or negative.
AttemptsBounded ==
    Len(history) <= IF MaxRetries < 1 THEN 1 ELSE MaxRetries

\* Only retryable answers are retried: every answer of next.RoundTrip but
\* the last is a 5xx response, a 5xx httpgrpc error or a plain error.
OnlyFailuresRetried ==
    \A i \in 1..Len(history) - 1 : ~ReturnsAtOnce(history[i])

\* Once the client has canceled the context, next.RoundTrip is called at
\* most once more: the call already past the ctx.Err() check.
CancelStopsRetries ==
    cancelAt # -1 => Len(history) <= cancelAt + 1

\* Every request returns: the loop ends with an answer or a context error.
EventuallyReturns == <>(pc = "done")

\* The histogram "query_frontend_retries" is documented as "Number of
\* times a request is retried": on return it should record one less than
\* the number of calls of next.RoundTrip.
RetriesObservedExactly ==
    pc = "done" /\ result # CtxErr => observed = Len(history) - 1

=============================================================================
