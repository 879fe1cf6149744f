------------------------- MODULE QueryFrontendProofs -------------------------
(***************************************************************************)
(* Proofs about one query through the query frontend, for every            *)
(* maxRetries and every set of status codes.                               *)
(*                                                                         *)
(* FormatHonoured is not inductive: it speaks of the state after the       *)
(* response is written, and holds because of what each stage left behind:  *)
(* while a snapshot request is below its middleware the upstream Accept is  *)
(* protobuf and marshallingFormat is the client's format; once the sharded  *)
(* round tripper has answered 200, the middleware's answer is the body      *)
(* re-encoded in that format; once written, the response is the answer.    *)
(***************************************************************************)
EXTENDS QueryFrontend, TLAPS

\* What ServeHTTP writes for an answer of the middleware chain.
Written(a) ==
    IF a.kind = "resp"
      THEN [status |-> a.code, body |-> a.body, ctype |-> a.ctype]
      ELSE [status |-> ErrorStatus(a), body |-> "text", ctype |-> "text"]

\* The answer a snapshot request whose queriers answered 200 must get.
Honoured == [kind |-> "resp", code |-> 200, body |-> FormatOf(req.accept),
             ctype |-> FormatOf(req.accept)]

\* Nothing has answered before the op's middleware calls below it.
NoInnerYet == stage \in {"start", "inner"} => inner = NoAnswer

\* Below the trace-by-id middleware, protobuf is asked for upstream and the
\* client's format is remembered.
UpstreamProtobuf ==
    req.op = "snapshot" /\ stage = "inner"
        => upstreamAccept = "protobuf" /\ format = FormatOf(req.accept)

\* A 200 of the sharded round tripper has become the re-encoded answer.
Reencoded ==
    req.op = "snapshot" /\ stage \in {"write", "done"}
    /\ inner.kind = "resp" /\ inner.code = 200
        => answer = Honoured

\* What was written is the answer.
WrittenIsAnswer == stage = "done" => written = Written(answer)

FormatInv == NoInnerYet /\ UpstreamProtobuf /\ Reencoded /\ WrittenIsAnswer

-----------------------------------------------------------------------------

\* A 200 response of the sharded round tripper carries the body its
\* upstream Accept asked for, and nothing else.
LEMMA Sharded200 ==
    ASSUME NEW o \in Retry!Outcome \cup {Retry!CtxErr},
           AsAnswer(o).kind = "resp", AsAnswer(o).code = 200
    PROVE  AsAnswer(o) = [kind |-> "resp", code |-> 200, body |-> upstreamAccept,
                          ctype |-> "none"]
  <1>1. CASE o = Retry!CtxErr
    BY <1>1 DEF AsAnswer, ErrorAnswer
  <1>2. CASE o \in Retry!Outcome
    <2>1. o # Retry!CtxErr
      BY <1>2 DEF Retry!Outcome, Retry!CtxErr
    <2>2. o.resp # 0 /\ o.resp = 200
      BY <1>2, <2>1 DEF AsAnswer, NoAnswer, ErrorAnswer
    <2>3. QED
      BY <2>1, <2>2 DEF AsAnswer
  <1>3. QED
    BY <1>1, <1>2

LEMMA InitFormatInv == Init => FormatInv
  BY DEF Init, FormatInv, NoInnerYet, UpstreamProtobuf, Reencoded, WrittenIsAnswer

LEMMA NextFormatInv == FormatInv /\ [Next]_vars => FormatInv'
  <1> SUFFICES ASSUME FormatInv, [Next]_vars PROVE FormatInv'
    OBVIOUS
  <1> USE DEF FormatInv
  <1>1. CASE ServeStart
    <2>1. CASE req.op = "snapshot" /\ (~req.idOK \/ ~req.paramsOK)
      <3>1. stage' = "write" /\ inner' = NoAnswer /\ req' = req
        BY <1>1, <2>1 DEF ServeStart, NoInnerYet
      <3>2. QED
        BY <3>1 DEF NoInnerYet, UpstreamProtobuf, Reencoded, WrittenIsAnswer,
                    NoAnswer, ErrorAnswer
    <2>2. CASE req.op = "snapshot" /\ req.idOK /\ req.paramsOK
      BY <1>1, <2>2 DEF ServeStart, NoInnerYet, UpstreamProtobuf, Reencoded,
                        WrittenIsAnswer
    <2>3. CASE req.op # "snapshot"
      BY <1>1, <2>3 DEF ServeStart, NoInnerYet, UpstreamProtobuf, Reencoded,
                        WrittenIsAnswer
    <2>4. QED
      BY <2>1, <2>2, <2>3
  <1>2. CASE ShardedRoundTrip
    <2>1. PICK a \in {AsAnswer(o) : o \in Retry!Outcome \cup
                         (IF canceled THEN {Retry!CtxErr} ELSE {})} \cup ShardErrors :
              /\ inner' = a
              /\ answer' = IF req.op = "snapshot" THEN TraceByIDResponse(a) ELSE a
      BY <1>2 DEF ShardedRoundTrip
    <2>2. stage = "inner" /\ stage' = "write" /\ req' = req
      BY <1>2 DEF ShardedRoundTrip
    <2>3. ASSUME req.op = "snapshot", a.kind = "resp", a.code = 200
          PROVE  answer' = Honoured
      <3>1. a = [kind |-> "resp", code |-> 200, body |-> "protobuf", ctype |-> "none"]
        <4>1. a \notin ShardErrors
          BY <2>3 DEF ShardErrors, ErrorAnswer
        <4>2. upstreamAccept = "protobuf"
          BY <2>2, <2>3 DEF UpstreamProtobuf
        <4>3. QED
          BY <2>1, <2>3, <4>1, <4>2, Sharded200
      <3>2. format = FormatOf(req.accept)
        BY <2>2, <2>3 DEF UpstreamProtobuf
      <3>3. QED
        BY <2>1, <2>3, <3>1, <3>2 DEF TraceByIDResponse, Honoured
    <2>4. QED
      BY <2>1, <2>2, <2>3 DEF NoInnerYet, UpstreamProtobuf, Reencoded, WrittenIsAnswer,
                              Honoured
  <1>3. CASE RetryStep
    BY <1>3 DEF RetryStep, feVars, NoInnerYet, UpstreamProtobuf, Reencoded,
                WrittenIsAnswer, Honoured, Written, ErrorStatus
  <1>4. CASE RetryReturns
    <2>1. req.op # "snapshot" /\ stage' = "write" /\ req' = req
      BY <1>4 DEF RetryReturns, Sharded
    <2>2. QED
      BY <1>4, <2>1 DEF RetryReturns, NoInnerYet, UpstreamProtobuf, Reencoded,
                        WrittenIsAnswer
  <1>5. CASE ServeWrite
    BY <1>5 DEF ServeWrite, NoInnerYet, UpstreamProtobuf, Reencoded, WrittenIsAnswer,
                Written, Honoured
  <1>6. CASE ClientCancels \/ DeadlinePasses
    BY <1>6 DEF ClientCancels, DeadlinePasses, NoInnerYet, UpstreamProtobuf, Reencoded,
                WrittenIsAnswer, Honoured, Written, ErrorStatus
  <1>7. CASE UNCHANGED vars
    BY <1>7 DEF vars, feVars, NoInnerYet, UpstreamProtobuf, Reencoded,
                WrittenIsAnswer, Honoured, Written, ErrorStatus
  <1>8. QED
    BY <1>1, <1>2, <1>3, <1>4, <1>5, <1>6, <1>7 DEF Next

\* A snapshot-by-id request whose sharded queriers answer 200 gets a 200
\* body and Content-Type in the format its Accept header asked for
\* (FormatHonoured, checked by the run): newTraceByIDMiddleware reads Accept
\* before it forces protobuf upstream, for every maxRetries and status set.
THEOREM FormatAlwaysHonoured == Spec => []FormatHonoured
  <1>1. FormatInv => FormatHonoured
    BY DEF FormatInv, Reencoded, WrittenIsAnswer, Written, Honoured, FormatHonoured
  <1>2. QED
    BY InitFormatInv, NextFormatInv, <1>1, PTL DEF Spec

-----------------------------------------------------------------------------
(* A request whose context ends.  ContextEndAnswered rests on the retry    *)
(* loop's invariant (RetryWareProofs): once the context has ended at most   *)
(* one more querier call is made.  If none is, the loop returned from its   *)
(* context check, with ctx.Err(); that error is the answer of the search    *)
(* middleware, and the handler writes it as 499 or 504 according to how    *)
(* the context ended, which cannot change once the loop has returned.      *)

RWP == INSTANCE RetryWareProofs

\* The context has ended exactly when the retry loop sees it done.
CtxEndRecorded ==
    /\ ctxEnd \in {"none", "canceled", "deadline"}
    /\ canceled <=> ctxEnd # "none"

\* A loop that returned after the context ended without calling the
\* queriers again returned the context error.
ReturnedCtxErr ==
    canceled /\ pc = "done" /\ Len(history) = cancelAt => result = Retry!CtxErr

\* An ingester search past its middleware has the retry loop's answer.
SearchAnswered ==
    ~Sharded /\ stage \in {"write", "done"} => pc = "done" /\ answer = AsAnswer(result)

CtxInv == CtxEndRecorded /\ ReturnedCtxErr /\ SearchAnswered /\ WrittenIsAnswer

\* Every step of the frontend is a step of the retry loop or leaves it alone.
LEMMA RetryStepOrStutter == [Next]_vars => [Retry!Next]_retryVars
  BY DEF Next, vars, feVars, ServeStart, ShardedRoundTrip, RetryStep, RetryReturns,
         ServeWrite, ClientCancels, DeadlinePasses, Retry!Next

\* The retry loop as the frontend instantiates it is the loop the proofs
\* of RetryWareProofs are about.
LEMMA SameRetryNext == [Retry!Next]_retryVars => [RWP!Next]_retryVars
  BY DEF Retry!Next, RWP!Next, Retry!Cancel, RWP!Cancel, Retry!CheckContext,
         RWP!CheckContext, Retry!RoundTripNext, RWP!RoundTripNext, Retry!Answer,
         RWP!Answer, Retry!ReturnsAtOnce, RWP!ReturnsAtOnce, Retry!ShouldRetry,
         RWP!ShouldRetry, Retry!Outcome, RWP!Outcome, Retry!CtxErr, RWP!CtxErr

LEMMA InitCtxInv == Init => RWP!IInv /\ CtxInv
  <1> SUFFICES ASSUME Init PROVE RWP!IInv /\ CtxInv
    OBVIOUS
  <1>1. RWP!IInv
    BY RWP!InitIInv, FrontendAssumption DEF Init, Retry!Init, RWP!Init
  <1>2. CtxInv
    BY DEF Init, Retry!Init, CtxInv, CtxEndRecorded, ReturnedCtxErr, SearchAnswered,
           WrittenIsAnswer
  <1>3. QED
    BY <1>1, <1>2

LEMMA NextCtxInv == RWP!IInv /\ CtxInv /\ [Next]_vars => CtxInv'
  <1> SUFFICES ASSUME RWP!IInv, CtxInv, [Next]_vars PROVE CtxInv'
    OBVIOUS
  <1> USE DEF CtxInv, retryVars
  <1>1. CASE ServeStart
    BY <1>1 DEF ServeStart, Sharded, CtxEndRecorded, ReturnedCtxErr, SearchAnswered,
                WrittenIsAnswer
  <1>2. CASE ShardedRoundTrip
    BY <1>2 DEF ShardedRoundTrip, CtxEndRecorded, ReturnedCtxErr, SearchAnswered,
                WrittenIsAnswer, Sharded, AsAnswer
  <1>3. CASE RetryStep
    <2>1. stage = "inner" /\ UNCHANGED feVars
      BY <1>3 DEF RetryStep
    <2>2. CASE Retry!CheckContext
      BY <2>1, <2>2 DEF Retry!CheckContext, feVars, CtxEndRecorded, ReturnedCtxErr,
                        SearchAnswered, WrittenIsAnswer
    <2>3. CASE Retry!RoundTripNext
      <3>1. PICK o \in Retry!Outcome : Retry!Answer(o)
        BY <2>3 DEF Retry!RoundTripNext
      <3>2. Len(history') = Len(history) + 1 /\ UNCHANGED <<canceled, cancelAt>>
        BY <2>3, <3>1 DEF Retry!RoundTripNext, Retry!Answer, RWP!IInv, RWP!TypeOK
      <3>3. cancelAt \in -1..Len(history)
        BY DEF RWP!IInv, RWP!TypeOK
      <3>4. ReturnedCtxErr'
        BY <3>2, <3>3 DEF ReturnedCtxErr
      <3>5. QED
        BY <2>1, <3>2, <3>4 DEF feVars, CtxEndRecorded, SearchAnswered, WrittenIsAnswer
    <2>4. QED
      BY <1>3, <2>2, <2>3 DEF RetryStep
  <1>4. CASE RetryReturns
    <2>1. /\ ~Sharded /\ pc = "done" /\ stage' = "write" /\ answer' = AsAnswer(result)
          /\ UNCHANGED <<retryVars, req, upstreamAccept, ctxEnd>>
      BY <1>4 DEF RetryReturns, Sharded
    <2>2. (AsAnswer(result))' = AsAnswer(result)
      BY <2>1 DEF AsAnswer
    <2>3. QED
      BY <2>1, <2>2 DEF CtxEndRecorded, ReturnedCtxErr, SearchAnswered, WrittenIsAnswer,
                        Sharded
  <1>5. CASE ServeWrite
    <2>1. /\ UNCHANGED <<retryVars, req, upstreamAccept, ctxEnd, answer>>
          /\ stage = "write" /\ stage' = "done" /\ written' = Written(answer)
      BY <1>5 DEF ServeWrite, Written
    <2>2. (AsAnswer(result))' = AsAnswer(result)
      BY <2>1 DEF AsAnswer
    <2>3. QED
      BY <2>1, <2>2 DEF CtxEndRecorded, ReturnedCtxErr, SearchAnswered, WrittenIsAnswer,
                        Sharded, Written
  <1>6. CASE ClientCancels \/ DeadlinePasses
    <2>1. pc # "done" /\ ~canceled /\ canceled' /\ ctxEnd' # "none"
          /\ ctxEnd' \in {"none", "canceled", "deadline"}
          /\ UNCHANGED <<pc, result, stage, req, answer, written>>
      BY <1>6 DEF ClientCancels, DeadlinePasses, Retry!Cancel
    <2>2. ~Sharded => stage \notin {"write", "done"}
      BY <2>1 DEF SearchAnswered
    <2>3. QED
      BY <2>1, <2>2 DEF CtxEndRecorded, ReturnedCtxErr, SearchAnswered,
                        WrittenIsAnswer, Sharded, AsAnswer
  <1>7. CASE UNCHANGED vars
    BY <1>7 DEF vars, feVars, CtxEndRecorded, ReturnedCtxErr, SearchAnswered,
                WrittenIsAnswer, Sharded, AsAnswer, Written
  <1>8. QED
    BY <1>1, <1>2, <1>3, <1>4, <1>5, <1>6, <1>7 DEF Next

\* An ingester search whose context ended is answered 499 when the client
\* canceled it and 504 when its deadline passed, unless the querier call in
\* flight at that moment gave a final answer (ContextEndAnswered, checked by
\* the run): retryWare returns ctx.Err() unwrapped and writeError's switch
\* recognises it, for every maxRetries and status set.
THEOREM ContextEndAlwaysAnswered == Spec => []ContextEndAnswered
  <1>1. RWP!IInv /\ CtxInv /\ [Next]_vars => RWP!IInv'
    BY RetryStepOrStutter, SameRetryNext, RWP!NextIInv, FrontendAssumption
       DEF RWP!vars, retryVars
  <1>2. RWP!IInv /\ CtxInv => ContextEndAnswered
    <2> SUFFICES ASSUME RWP!IInv, CtxInv, stage = "done", ~Sharded, canceled,
                        Len(history) # cancelAt + 1
                 PROVE  written.status = CtxStatus
      BY DEF ContextEndAnswered
    <2>1. Len(history) = cancelAt
      BY DEF RWP!IInv, RWP!TypeOK, RWP!CancelRecorded, RWP!CancelStopsRetries
    <2>2. pc = "done" /\ answer = AsAnswer(result) /\ result = Retry!CtxErr
      BY <2>1 DEF CtxInv, SearchAnswered, ReturnedCtxErr
    <2>3. answer = ErrorAnswer(ctxEnd) /\ ctxEnd \in {"canceled", "deadline"}
      BY <2>2 DEF AsAnswer, CtxInv, CtxEndRecorded, Retry!CtxErr
    <2>4. QED
      BY <2>3 DEF CtxInv, WrittenIsAnswer, Written, ErrorAnswer, ErrorStatus, CtxStatus
  <1>3. QED
    BY InitCtxInv, NextCtxInv, <1>1, <1>2, PTL DEF Spec
=============================================================================
