--------------------------- MODULE QueryFrontend ---------------------------
(***************************************************************************)
(* One query through the query frontend (modules/frontend): handler.      *)
(* ServeHTTP calls the op's middleware chain, built by New as              *)
(* MergeMiddlewares(opMiddleware, retryWare), and writes what it returns.  *)
(*                                                                         *)
(*  - snapshot by id: newTraceByIDMiddleware validates the id and the     *)
(*    parameters, remembers the client's Accept format, forces protobuf   *)
(*    upstream, calls the sharded round tripper and re-encodes a 200 body  *)
(*    in the client's format;                                              *)
(*  - search: newSearchMiddleware sends a backend search to the sharded    *)
(*    round tripper and an ingester search straight to retryWare.          *)
(*                                                                         *)
(* The retry loop is RetryWare itself (INSTANCE), so cancellation reaches  *)
(* it as in that module.  The sharders are not part of the repository's    *)
(* sources: the sharded round tripper is one step that returns any answer  *)
(* a querier may give, the context error once the request's context has   *)
(* ended, an error of its own, or no response and no error (which the      *)
(* handler guards against).  The context ends when the client cancels it   *)
(* or when its deadline passes.                                            *)
(***************************************************************************)
EXTENDS Integers, Sequences

CONSTANTS MaxRetries, StatusCodes

\* cfg.MaxRetries is any int; status codes are positive.
ASSUME FrontendAssumption ==
    /\ MaxRetries \in Int
    /\ StatusCodes \subseteq Nat
    /\ 0 \notin StatusCodes

VARIABLES pc, tries, canceled, history, cancelAt, result, observed
retryVars == <<pc, tries, canceled, history, cancelAt, result, observed>>

Retry == INSTANCE RetryWare

VARIABLES
    req,            \* the client's request
    stage,          \* "start", "inner" (middleware below the op's), "write", "done"
    format,         \* marshallingFormat chosen by the trace-by-id middleware
    upstreamAccept, \* the Accept header of the request sent to the queriers
    inner,          \* what the round tripper below the op's middleware returned
    answer,         \* what the op's middleware returned to ServeHTTP
    written,        \* what ServeHTTP wrote to the client
    deferredStatus, \* the argument bound to the deferred counter increment
    label,          \* the status label the counter was incremented with
    ctxEnd          \* how the request's context ended: "none", "canceled", "deadline"

feVars == <<req, stage, format, upstreamAccept, inner, answer, written,
            deferredStatus, label, ctxEnd>>
vars == <<retryVars, feVars>>

Formats == {"json", "protobuf", "text", "none"}

\* The requests a client can send.  accept "other" is any Accept header that
\* is neither application/json nor application/protobuf.
Requests ==
    [op : {"snapshot", "search"}, idOK : BOOLEAN, paramsOK : BOOLEAN,
     accept : {"json", "protobuf", "other"}, backend : BOOLEAN]

\* Answers of a round tripper, abstracted to what the frontend tests: a
\* response (status, body encoding, Content-Type), an httpgrpc error with a
\* code, context.Canceled, context.DeadlineExceeded, an error whose text is
\* "http: request body too large", any other error, or no response and no
\* error ("nil").
ErrorKinds == {"canceled", "deadline", "toolarge", "error", "nil"}

Answers ==
    [kind : {"resp"}, code : StatusCodes \cup {400}, body : Formats, ctype : Formats] \cup
    [kind : {"grpc"}, code : StatusCodes, body : {"none"}, ctype : {"none"}] \cup
    [kind : ErrorKinds, code : {0}, body : {"none"}, ctype : {"none"}]

\* An answer that is an error, or no response, of the given kind.
ErrorAnswer(kind) == [kind |-> kind, code |-> 0, body |-> "none", ctype |-> "none"]

NoAnswer == ErrorAnswer("error")

\* The errors of its own the sharded round tripper may return.
ShardErrors == {ErrorAnswer("toolarge"), ErrorAnswer("nil")}

TypeOK ==
    /\ req \in Requests
    /\ stage \in {"start", "inner", "write", "done"}
    /\ format \in Formats
    /\ upstreamAccept \in {"json", "protobuf", "other"}
    /\ inner \in Answers
    /\ answer \in Answers
    /\ written \in [status : Nat, body : Formats, ctype : Formats]
    /\ deferredStatus \in Nat
    /\ label \in Nat \cup {-1}
    /\ ctxEnd \in {"none", "canceled", "deadline"}

Init ==
    /\ Retry!Init
    /\ req \in Requests
    /\ stage = "start"
    /\ format = "none"
    /\ upstreamAccept = req.accept
    /\ inner = NoAnswer
    /\ answer = NoAnswer
    /\ written = [status |-> 0, body |-> "none", ctype |-> "none"]
    /\ deferredStatus = 0
    /\ label = -1
    /\ ctxEnd = "none"

-----------------------------------------------------------------------------

\* A querier answer of RetryWare as the frontend sees it: a 200 body is
\* encoded as the upstream request's Accept asked, other bodies are text.
AsAnswer(o) ==
    CASE o = Retry!CtxErr -> ErrorAnswer(ctxEnd)
      [] o.resp # 0 -> [kind |-> "resp", code |-> o.resp,
                        body |-> IF o.resp = 200 THEN upstreamAccept ELSE "text",
                        ctype |-> "none"]
      [] o.grpc # 0 -> [kind |-> "grpc", code |-> o.grpc, body |-> "none", ctype |-> "none"]
      [] OTHER -> NoAnswer

\* Ingester searches go straight to retryWare; the others are sharded.
Sharded == req.op = "snapshot" \/ req.backend

\* The 400 response of a failed validation.
BadRequest == [kind |-> "resp", code |-> 400, body |-> "text", ctype |-> "none"]

\* marshallingFormat: protobuf only when Accept is application/protobuf.
FormatOf(accept) == IF accept = "protobuf" THEN "protobuf" ELSE "json"

\* What the trace-by-id middleware does with the answer of the sharded
\* round tripper: a 200 body is unmarshalled as a SnapshotByIDResponse and
\* re-encoded in marshallingFormat, and Content-Type is set to it; a body
\* that is not protobuf fails proto.Unmarshal and the error is returned.
TraceByIDResponse(a) ==
    IF a.kind = "resp" /\ a.code = 200
      THEN IF a.body = "protobuf"
             THEN [a EXCEPT !.body = format, !.ctype = format]
             ELSE NoAnswer
      ELSE a

\* Mutant: marshallingFormat is read from the request after the Accept
\* header has been overwritten with application/protobuf.
ServeStartFormatAfterOverwrite ==
    /\ stage = "start"
    /\ deferredStatus' = 0
    /\ IF req.op = "snapshot"
         THEN IF ~req.idOK \/ ~req.paramsOK
                THEN /\ answer' = BadRequest
                     /\ stage' = "write"
                     /\ UNCHANGED <<format, upstreamAccept>>
                ELSE /\ format' = FormatOf("protobuf")
                     /\ upstreamAccept' = "protobuf"
                     /\ stage' = "inner"
                     /\ UNCHANGED answer
         ELSE /\ stage' = "inner"
              /\ UNCHANGED <<format, upstreamAccept, answer>>
    /\ UNCHANGED <<retryVars, req, inner, written, label, ctxEnd>>

\* ServeHTTP up to f.roundTripper.RoundTrip(r) (statusCode is 0 when the
\* deferred counter increment binds it), then the op's middleware up to
\* the call below it: the trace-by-id middleware answers 400 for an invalid
\* id or invalid parameters, otherwise remembers the client's format and
\* forces protobuf upstream; the search middleware only routes.
ServeStart ==
    /\ stage = "start"
    /\ deferredStatus' = 0
    /\ IF req.op = "snapshot"
         THEN IF ~req.idOK \/ ~req.paramsOK
                THEN /\ answer' = BadRequest
                     /\ stage' = "write"
                     /\ UNCHANGED <<format, upstreamAccept>>
                ELSE /\ format' = FormatOf(req.accept)
                     /\ upstreamAccept' = "protobuf"
                     /\ stage' = "inner"
                     /\ UNCHANGED answer
         ELSE /\ stage' = "inner"
              /\ UNCHANGED <<format, upstreamAccept, answer>>
    /\ UNCHANGED <<retryVars, req, inner, written, label, ctxEnd>>

\* The sharded round tripper answers as a querier may, with the context
\* error once the context has ended, or with an error of its own; the
\* trace-by-id middleware then post-processes the answer.
ShardedRoundTrip ==
    /\ stage = "inner"
    /\ Sharded
    /\ \E a \in {AsAnswer(o) : o \in Retry!Outcome \cup (IF canceled THEN {Retry!CtxErr} ELSE {})}
                \cup ShardErrors :
          /\ inner' = a
          /\ answer' = IF req.op = "snapshot" THEN TraceByIDResponse(a) ELSE a
    /\ stage' = "write"
    /\ UNCHANGED <<retryVars, req, format, upstreamAccept, written,
                   deferredStatus, label, ctxEnd>>

\* An ingester search: one step of retryWare.RoundTrip.
RetryStep ==
    /\ stage = "inner"
    /\ ~Sharded
    /\ Retry!CheckContext \/ Retry!RoundTripNext
    /\ UNCHANGED feVars

\* retryWare.RoundTrip has returned to the search middleware, which returns
\* its answer unchanged.
RetryReturns ==
    /\ stage = "inner"
    /\ ~Sharded
    /\ pc = "done"
    /\ inner' = AsAnswer(result)
    /\ answer' = AsAnswer(result)
    /\ stage' = "write"
    /\ UNCHANGED <<retryVars, req, format, upstreamAccept, written,
                   deferredStatus, label, ctxEnd>>

\* Mutant: writeError without the context.Canceled case.
ErrorStatusNoCanceled(a) == IF a.kind = "grpc" THEN a.code ELSE 500

\* writeError: context.Canceled becomes errCanceled (499),
\* context.DeadlineExceeded errDeadlineExceeded (504), a body-too-large
\* error errRequestEntityTooLarge (413); server.WriteError writes an
\* httpgrpc error's code and 500 for any other error, NilResponseError
\* included.
ErrorStatus(a) ==
    CASE a.kind = "canceled" -> 499
      [] a.kind = "deadline" -> 504
      [] a.kind = "toolarge" -> 413
      [] a.kind = "grpc"     -> a.code
      [] OTHER               -> 500

\* The rest of ServeHTTP: an error goes through writeError, so does a nil
\* response (as NilResponseError), a response has its headers, status and
\* body copied; the deferred increment runs with
\* the status it bound at the start.
ServeWrite ==
    /\ stage = "write"
    /\ written' = IF answer.kind = "resp"
                    THEN [status |-> answer.code, body |-> answer.body,
                          ctype |-> answer.ctype]
                    ELSE [status |-> ErrorStatus(answer), body |-> "text",
                          ctype |-> "text"]
    /\ label' = deferredStatus
    /\ stage' = "done"
    /\ UNCHANGED <<retryVars, req, format, upstreamAccept, inner, answer,
                   deferredStatus, ctxEnd>>

\* The client cancels the request's context.
ClientCancels ==
    /\ stage # "done"
    /\ Retry!Cancel
    /\ ctxEnd' = "canceled"
    /\ UNCHANGED <<req, stage, format, upstreamAccept, inner, answer, written,
                   deferredStatus, label>>

\* The request context's deadline passes.
DeadlinePasses ==
    /\ stage # "done"
    /\ Retry!Cancel
    /\ ctxEnd' = "deadline"
    /\ UNCHANGED <<req, stage, format, upstreamAccept, inner, answer, written,
                   deferredStatus, label>>

Next ==
    \/ ServeStart
    \/ ShardedRoundTrip
    \/ RetryStep
    \/ RetryReturns
    \/ ServeWrite
    \/ ClientCancels
    \/ DeadlinePasses

Spec == Init /\ [][Next]_vars

-----------------------------------------------------------------------------
(* Properties.                                                             *)

\* A snapshot-by-id request whose sharded queriers answer 200 gets a 200
\* whose body and Content-Type are in the format its Accept header asked
\* for: the middleware must read Accept before forcing protobuf upstream,
\* and must force it, or the body it unmarshals is not protobuf.
FormatHonoured ==
    stage = "done" /\ req.op = "snapshot" /\ inner.kind = "resp" /\ inner.code = 200
        => written = [status |-> 200, body |-> FormatOf(req.accept),
                      ctype |-> FormatOf(req.accept)]

\* The status the handler gives a request whose context ended.
CtxStatus == IF ctxEnd = "canceled" THEN 499 ELSE 504

\* An ingester search whose context ended gets 499 (errCanceled) when the
\* client canceled it and 504 (errDeadlineExceeded) when its deadline
\* passed, unless the answer of the querier call in flight at that moment
\* was final: retryWare stops at its next context check, returns ctx.Err()
\* unwrapped, and the handler's switch recognises it.
ContextEndAnswered ==
    stage = "done" /\ ~Sharded /\ canceled
        => written.status = CtxStatus \/ Len(history) = cancelAt + 1

\* The per-tenant query counter is labelled with the status the client
\* received.
LabelIsResponseStatus ==
    stage = "done" => label = written.status

=============================================================================
