------------------------ MODULE ContextReadersProofs ------------------------
(***************************************************************************)
(* Proofs about the ContextReader adapters for every object length.        *)
(*                                                                         *)
(* Every call overwrites the record of the latest call, so ReadAtContract  *)
(* needs no strengthening: it is a property of the step that made the      *)
(* latest call.  For backendReader it rests on ReadRange failing whenever  *)
(* it filled less than the buffer; for allReader on the wrapped            *)
(* io.ReaderAt reporting an error with a short count.                      *)
(***************************************************************************)
EXTENDS ContextReaders, TLAPS

IInv == TypeOK /\ ReadAtContract

-----------------------------------------------------------------------------

\* A buffer filled k bytes deep from off is a sequence of object bytes or
\* Stale, and it is the wanted bytes when it is filled to its end.
LEMMA FillFacts ==
    ASSUME NEW off \in 0..ObjLen - 1, NEW len \in 1..ObjLen,
           NEW k \in 0..MinOf(len, ObjLen - off)
    PROVE  /\ Fill(off, len, k) \in Seq(0..ObjLen)
           /\ k = len => Fill(off, len, k) = Wanted(off, len)
  <1> USE ReadersAssumption
  <1>1. \A i \in 1..len : i <= k => off + i \in 1..ObjLen
    BY DEF MinOf
  <1>2. \A i \in 1..len : i <= k => Obj[off + i] = off + i
    BY <1>1 DEF Obj
  <1>3. Fill(off, len, k) \in [1..len -> 0..ObjLen]
    <2>1. \A i \in 1..len : (IF i <= k THEN Obj[off + i] ELSE Stale) \in 0..ObjLen
      BY <1>1, <1>2 DEF Stale
    <2>2. QED
      BY <2>1, Zenon DEF Fill
  <1>4. Fill(off, len, k) \in Seq(0..ObjLen)
    BY <1>3
  <1>5. k = len => Fill(off, len, k) = Wanted(off, len)
    BY DEF Fill, Wanted
  <1>6. QED
    BY <1>4, <1>5

\* The object's bytes from an offset to its end, and any prefix of them.
LEMMA RestFacts ==
    ASSUME NEW p \in 0..ObjLen, NEW k \in 0..ObjLen - p
    PROVE  /\ Rest(p) \in Seq(0..ObjLen)
           /\ Len(Rest(p)) = ObjLen - p
           /\ SubSeq(Rest(p), 1, k) \in Seq(0..ObjLen)
  <1> USE ReadersAssumption
  <1>1. \A i \in 1..ObjLen - p : Obj[p + i] = p + i
    BY DEF Obj
  <1>2. Rest(p) \in [1..ObjLen - p -> 0..ObjLen]
    <2>1. \A i \in 1..ObjLen - p : Obj[p + i] \in 0..ObjLen
      BY <1>1
    <2>2. QED
      BY <2>1, Zenon DEF Rest
  <1>3. QED
    BY <1>2

\* The offsets and lengths a ReadAt is asked for.
LEMMA RequestRange ==
    ASSUME NEW r \in Requests
    PROVE  r[1] \in 0..ObjLen - 1 /\ r[2] \in 1..ObjLen
  <1>1. r \in (0..ObjLen - 1) \X (1..ObjLen)
    BY DEF Requests
  <1>2. QED
    BY <1>1

-----------------------------------------------------------------------------

LEMMA InitIInv == Init => IInv
  BY ReadersAssumption DEF Init, IInv, TypeOK, ReadAtContract, NoCall, Ops, Errs

LEMMA NextIInv == IInv /\ [Next]_vars => IInv'
  <1> SUFFICES ASSUME IInv, [Next]_vars PROVE IInv'
    OBVIOUS
  <1> USE ReadersAssumption DEF IInv, TypeOK, Ops, Errs
  <1>1. ASSUME NEW r \in Requests, BackendReadAt(r[1], r[2]) PROVE IInv'
    <2>1. r[1] \in 0..ObjLen - 1 /\ r[2] \in 1..ObjLen
      BY RequestRange
    <2>2. PICK k \in 0..MinOf(r[2], ObjLen - r[1]), failed \in BOOLEAN :
              /\ k < r[2] => failed
              /\ last' = [op |-> "ReadAt", off |-> r[1], len |-> r[2], n |-> r[2],
                          err |-> IF failed THEN "err" ELSE "nil",
                          data |-> Fill(r[1], r[2], k)]
      BY <1>1 DEF BackendReadAt
    <2>3. ~failed => k = r[2]
      BY <2>1, <2>2 DEF MinOf
    <2>4. TypeOK'
      BY <1>1, <2>1, <2>2, FillFacts DEF BackendReadAt
    <2>5. ReadAtContract'
      BY <2>2, <2>3, <2>1, FillFacts DEF ReadAtContract
    <2>6. QED
      BY <2>4, <2>5
  <1>2. ASSUME NEW r \in Requests, AllReadAt(r[1], r[2]) PROVE IInv'
    <2>1. r[1] \in 0..ObjLen - 1 /\ r[2] \in 1..ObjLen
      BY RequestRange
    <2>2. PICK k \in 0..MinOf(r[2], ObjLen - r[1]) :
              last' = [op |-> "ReadAt", off |-> r[1], len |-> r[2], n |-> k,
                       err |-> IF k < r[2] THEN "err" ELSE "nil",
                       data |-> Fill(r[1], r[2], k)]
      BY <1>2 DEF AllReadAt
    <2>3. k <= r[2]
      BY <2>1 DEF MinOf
    <2>4. TypeOK'
      BY <1>2, <2>1, <2>2, <2>3, FillFacts DEF AllReadAt
    <2>5. ReadAtContract'
      BY <2>1, <2>2, <2>3, FillFacts DEF ReadAtContract
    <2>6. QED
      BY <2>4, <2>5
  <1>3. CASE BackendReadAll
    <2>1. Obj \in Seq(0..ObjLen) /\ ObjLen \in 0..ObjLen
      BY DEF Obj
    <2>2. UNCHANGED <<impl, pos>> /\ last'.op = "ReadAll"
      BY <1>3 DEF BackendReadAll
    <2>3. last'.n \in 0..ObjLen /\ last'.err \in Errs /\ last'.data \in Seq(0..ObjLen)
      <3>1. CASE last' = [op |-> "ReadAll", off |-> 0, len |-> 0, n |-> ObjLen,
                          err |-> "nil", data |-> Obj]
        BY <3>1, <2>1
      <3>2. CASE last' = [op |-> "ReadAll", off |-> 0, len |-> 0, n |-> 0,
                          err |-> "err", data |-> << >>]
        BY <3>2
      <3>3. QED
        BY <1>3, <3>1, <3>2 DEF BackendReadAll
    <2>4. QED
      BY <2>2, <2>3 DEF ReadAtContract
  <1>4. CASE AllReadAll
    <2>1. CASE /\ last' = [op |-> "ReadAll", off |-> pos, len |-> 0, n |-> ObjLen - pos,
                           err |-> "nil", data |-> Rest(pos)]
               /\ pos' = ObjLen
      BY <1>4, <2>1, RestFacts DEF AllReadAll, ReadAtContract
    <2>2. ASSUME NEW k \in 0..ObjLen - pos - 1,
                 /\ last' = [op |-> "ReadAll", off |-> pos, len |-> 0, n |-> k,
                             err |-> "err", data |-> SubSeq(Rest(pos), 1, k)]
                 /\ pos' = pos + k
          PROVE IInv'
      <3>1. k \in 0..ObjLen - pos /\ pos + k \in 0..ObjLen
        OBVIOUS
      <3>2. SubSeq(Rest(pos), 1, k) \in Seq(0..ObjLen)
        BY <3>1, RestFacts
      <3>3. QED
        BY <1>4, <2>2, <3>1, <3>2 DEF AllReadAll, ReadAtContract
    <2>3. QED
      BY <1>4, <2>1, <2>2 DEF AllReadAll
  <1>5. CASE BackendReader
    BY <1>5 DEF BackendReader, ReadAtContract, NoCall
  <1>6. CASE AllReader
    <2>1. PICK k \in 0..ObjLen - pos :
              /\ pos' = pos + k
              /\ last' = [NoCall EXCEPT !.op = "Reader", !.n = k, !.data = Rest(pos)]
      BY <1>6 DEF AllReader
    <2>2. QED
      BY <1>6, <2>1, RestFacts DEF AllReader, ReadAtContract, NoCall
  <1>7. CASE UNCHANGED vars
    BY <1>7 DEF vars, ReadAtContract
  <1>8. QED
    BY <1>1, <1>2, <1>3, <1>4, <1>5, <1>6, <1>7 DEF Next

\* The adapters keep their state within its types: an offset within the
\* object, counts no larger than it, and buffers of object bytes.
THEOREM TypeCorrect == Spec => []TypeOK
  <1>1. IInv => TypeOK
    BY DEF IInv
  <1>2. QED
    BY InitIInv, NextIInv, <1>1, PTL DEF Spec

\* Every ReadAt of either adapter (backendReader.ReadAt over ReadRange,
\* allReader.ReadAt over the wrapped io.ReaderAt) that reports no error
\* filled the whole buffer with the object's bytes at the offset, and one
\* that reports a short count reports an error, for every object length.
THEOREM ReadAtContractHolds == Spec => []ReadAtContract
  <1>1. IInv => ReadAtContract
    BY DEF IInv
  <1>2. QED
    BY InitIInv, NextIInv, <1>1, PTL DEF Spec
=============================================================================
