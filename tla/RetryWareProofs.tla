-------------------------- MODULE RetryWareProofs --------------------------
(***************************************************************************)
(* Proofs about retryWare.RoundTrip for every maxRetries (zero and         *)
(* negative included) and every set of status codes.                       *)
(*                                                                         *)
(* The bounds on the calls of next.RoundTrip are not inductive: they hold  *)
(* because, while the loop runs, the local tries counter equals the number *)
(* of calls made so far and is below maxRetries (or still zero, the first  *)
(* try being made whatever maxRetries is), and because a cancellation      *)
(* seen at the "call" point has no call after it yet.                      *)
(***************************************************************************)
EXTENDS RetryWare, TLAPS

\* The bound a run of the loop never exceeds.
CallBound == IF MaxRetries < 1 THEN 1 ELSE MaxRetries

\* While the loop runs, tries counts the calls made, and one more is allowed.
TriesCountCalls ==
    pc \in {"check", "call"} =>
        /\ tries = Len(history)
        /\ tries = 0 \/ tries < MaxRetries

\* A cancellation is recorded with the number of calls made at that moment;
\* at the "call" point of a canceled request no further call has been made.
CancelRecorded ==
    /\ canceled <=> cancelAt # -1
    /\ canceled /\ pc = "call" => Len(history) = cancelAt

IInv ==
    /\ TypeOK
    /\ TriesCountCalls
    /\ CancelRecorded
    /\ AttemptsBounded
    /\ CancelStopsRetries

-----------------------------------------------------------------------------

LEMMA InitIInv == Init => IInv
  <1> SUFFICES ASSUME Init PROVE IInv
    OBVIOUS
  <1>1. result \in Outcome
    BY DEF Init, Outcome
  <1>2. history \in Seq(Outcome) /\ Len(history) = 0
    BY DEF Init
  <1>3. TypeOK
    <2>1. pc \in {"check", "call", "done"} /\ tries \in Nat /\ canceled \in BOOLEAN
      BY DEF Init
    <2>2. cancelAt \in -1..Len(history) /\ observed \in -1..Len(history)
      BY <1>2 DEF Init
    <2>3. QED
      BY <1>1, <1>2, <2>1, <2>2 DEF TypeOK
  <1>4. QED
    BY <1>2, <1>3, RetryAssumption DEF Init, IInv, TriesCountCalls, CancelRecorded, AttemptsBounded,
                CancelStopsRetries

\* The answer appended by a call is a sequence element of the right type.
LEMMA AppendFacts ==
    ASSUME NEW h \in Seq(Outcome), NEW o \in Outcome
    PROVE  /\ Append(h, o) \in Seq(Outcome)
           /\ Len(Append(h, o)) = Len(h) + 1
  OBVIOUS

LEMMA NextIInv == IInv /\ [Next]_vars => IInv'
  <1> SUFFICES ASSUME IInv, [Next]_vars PROVE IInv'
    OBVIOUS
  <1> USE RetryAssumption DEF IInv, TypeOK
  <1>1. CASE Cancel
    BY <1>1 DEF Cancel, TriesCountCalls, CancelRecorded, AttemptsBounded,
                CancelStopsRetries
  <1>2. CASE CheckContext
    <2>1. CASE canceled
      BY <1>2, <2>1 DEF CheckContext, TriesCountCalls, CancelRecorded,
                        AttemptsBounded, CancelStopsRetries, CtxErr
    <2>2. CASE ~canceled
      BY <1>2, <2>2 DEF CheckContext, TriesCountCalls, CancelRecorded,
                        AttemptsBounded, CancelStopsRetries
    <2>3. QED
      BY <2>1, <2>2
  <1>3. CASE RoundTripNext
    <2>1. PICK o \in Outcome : Answer(o)
      BY <1>3 DEF RoundTripNext
    <2>2. /\ history' \in Seq(Outcome)
          /\ Len(history') = Len(history) + 1
          /\ pc = "call" /\ tries = Len(history)
          /\ tries = 0 \/ tries < MaxRetries
          /\ UNCHANGED <<canceled, cancelAt>>
      BY <1>3, <2>1, AppendFacts DEF RoundTripNext, Answer, TriesCountCalls
    <2>3. CASE ReturnsAtOnce(o)
      BY <2>1, <2>2, <2>3 DEF Answer, TriesCountCalls, CancelRecorded, AttemptsBounded,
                              CancelStopsRetries
    <2>4. CASE ~ReturnsAtOnce(o) /\ tries + 1 >= MaxRetries
      BY <2>1, <2>2, <2>4 DEF Answer, TriesCountCalls, CancelRecorded, AttemptsBounded,
                              CancelStopsRetries
    <2>5. CASE ~ReturnsAtOnce(o) /\ ~(tries + 1 >= MaxRetries)
      BY <2>1, <2>2, <2>5 DEF Answer, TriesCountCalls, CancelRecorded, AttemptsBounded,
                              CancelStopsRetries
    <2>6. QED
      BY <2>3, <2>4, <2>5
  <1>4. CASE UNCHANGED vars
    BY <1>4 DEF vars, TriesCountCalls, CancelRecorded, AttemptsBounded,
                CancelStopsRetries
  <1>5. QED
    BY <1>1, <1>2, <1>3, <1>4 DEF Next

-----------------------------------------------------------------------------

THEOREM IInvariant == Spec => []IInv
  BY InitIInv, NextIInv, PTL DEF Spec

\* Type correctness of the retry loop's state, for every maxRetries.
THEOREM TypeCorrect == Spec => []TypeOK
  BY IInvariant, PTL DEF IInv

\* next.RoundTrip is called at most maxRetries times (once when maxRetries
\* is below one), for every maxRetries (AttemptsBounded, checked by the run).
THEOREM AttemptsAlwaysBounded == Spec => []AttemptsBounded
  BY IInvariant, PTL DEF IInv

\* After the client cancels the request, next.RoundTrip is called at most
\* once more (CancelStopsRetries, checked by the run).
THEOREM CancelAlwaysStopsRetries == Spec => []CancelStopsRetries
  BY IInvariant, PTL DEF IInv

-----------------------------------------------------------------------------
(* Only failures are retried.  While the loop runs, every answer so far    *)
(* was one the loop retries; the answer that ends it may be any.           *)

\* Every answer of the history h up to position n was retried.
AllRetried(h, n) == \A i \in 1..n : ~ReturnsAtOnce(h[i])

FailuresSoFar == pc # "done" => AllRetried(history, Len(history))

FInv == FailuresSoFar /\ OnlyFailuresRetried

LEMMA InitFInv == Init => FInv
  BY DEF Init, FInv, FailuresSoFar, AllRetried, OnlyFailuresRetried

LEMMA NextFInv == IInv /\ FInv /\ [Next]_vars => FInv'
  <1> SUFFICES ASSUME IInv, FInv, [Next]_vars PROVE FInv'
    OBVIOUS
  <1> USE DEF IInv, TypeOK
  <1>1. CASE Cancel
    BY <1>1 DEF Cancel, FInv, FailuresSoFar, AllRetried, OnlyFailuresRetried
  <1>2. CASE CheckContext
    <2>1. UNCHANGED history /\ pc = "check"
      BY <1>2 DEF CheckContext
    <2>2. AllRetried(history, Len(history))
      BY <2>1 DEF FInv, FailuresSoFar
    <2>3. QED
      BY <2>1, <2>2 DEF FInv, FailuresSoFar, AllRetried, OnlyFailuresRetried
  <1>3. CASE RoundTripNext
    <2>1. PICK o \in Outcome : Answer(o)
      BY <1>3 DEF RoundTripNext
    <2>2. /\ history' = Append(history, o)
          /\ Len(history') = Len(history) + 1
          /\ \A i \in 1..Len(history) : history'[i] = history[i]
          /\ history'[Len(history) + 1] = o
      BY <2>1 DEF Answer
    <2>3. AllRetried(history, Len(history))
      BY <1>3 DEF RoundTripNext, FInv, FailuresSoFar
    <2>4. AllRetried(history', Len(history))
      BY <2>2, <2>3 DEF AllRetried
    <2>5. CASE ReturnsAtOnce(o)
      <3>1. pc' = "done"
        BY <2>1, <2>5 DEF Answer
      <3>2. OnlyFailuresRetried'
        BY <2>2, <2>4 DEF OnlyFailuresRetried, AllRetried
      <3>3. QED
        BY <3>1, <3>2 DEF FInv, FailuresSoFar
    <2>6. CASE ~ReturnsAtOnce(o)
      <3>1. AllRetried(history', Len(history'))
        BY <2>2, <2>4, <2>6 DEF AllRetried
      <3>2. QED
        BY <2>2, <3>1 DEF FInv, FailuresSoFar, OnlyFailuresRetried, AllRetried
    <2>7. QED
      BY <2>5, <2>6
  <1>4. CASE UNCHANGED vars
    BY <1>4 DEF vars, FInv, FailuresSoFar, AllRetried, OnlyFailuresRetried
  <1>5. QED
    BY <1>1, <1>2, <1>3, <1>4 DEF Next

\* Only retryable answers are retried: every answer of next.RoundTrip but
\* the last was a 5xx response, a 5xx httpgrpc error or a plain error, for
\* every maxRetries (OnlyFailuresRetried, checked by the run).
THEOREM OnlyFailuresAlwaysRetried == Spec => []OnlyFailuresRetried
  <1>1. Init => IInv /\ FInv
    BY InitIInv, InitFInv
  <1>2. IInv /\ FInv /\ [Next]_vars => (IInv /\ FInv)'
    BY NextIInv, NextFInv
  <1>3. QED
    BY <1>1, <1>2, PTL DEF Spec, FInv
=============================================================================
