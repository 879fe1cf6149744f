--------------------------- MODULE ContextReaders ---------------------------
(***************************************************************************)
(* The two ContextReader adapters of pkg/deepdb/backend/readerat.go over   *)
(* one object of the backend, each call a step:                            *)
(*                                                                         *)
(*  - backendReader forwards ReadAt to Reader.ReadRange and ReadAll to     *)
(*    Reader.Read, and has no io.Reader;                                   *)
(*  - allReader forwards ReadAt to the wrapped io.ReaderAt, ReadAll to     *)
(*    io.ReadAll of the wrapped io.Reader, and hands that io.Reader out.   *)
(*                                                                         *)
(* The backend's ReadRange (spec.md 6) fills the buffer from the offset,   *)
(* or fails after filling a prefix of it; the wrapped reader obeys the     *)
(* io.ReaderAt and io.Reader contracts.  Byte i of the object is i; a      *)
(* caller's buffer holds Stale bytes where nothing was written.            *)
(***************************************************************************)
EXTENDS Integers, Sequences

CONSTANTS
    ObjLen,   \* the object's length in bytes
    Impls     \* which adapters the caller may hold

ASSUME ReadersAssumption ==
    /\ ObjLen \in Nat \ {0}
    /\ Impls \subseteq {"backend", "all"} /\ Impls # {}

Obj == [i \in 1..ObjLen |-> i]

\* What a caller's buffer holds where no byte of the object was written.
Stale == 0

\* The ReadAt requests: an offset in the object and a buffer length.
Requests == (0..ObjLen - 1) \X (1..ObjLen)

\* A buffer of len bytes whose first k were filled from the object at off.
Fill(off, len, k) == [i \in 1..len |-> IF i <= k THEN Obj[off + i] ELSE Stale]

MinOf(a, b) == IF a < b THEN a ELSE b

\* The bytes of the object from off to its end.
Rest(off) == [i \in 1..ObjLen - off |-> Obj[off + i]]

VARIABLES
    impl,     \* the adapter behind the ContextReader
    pos,      \* allReader: the offset of the wrapped io.Reader
    last      \* the answer of the latest call

vars == <<impl, pos, last>>

Ops == {"none", "ReadAt", "ReadAll", "Reader"}
Errs == {"nil", "err", "unsupported"}

TypeOK ==
    /\ impl \in Impls
    /\ pos \in 0..ObjLen
    /\ last.op \in Ops
    /\ last.n \in 0..ObjLen
    /\ last.err \in Errs
    /\ last.data \in Seq(0..ObjLen)

NoCall == [op |-> "none", off |-> 0, len |-> 0, n |-> 0, err |-> "nil", data |-> << >>]

Init ==
    /\ impl \in Impls
    /\ pos = 0
    /\ last = NoCall

-----------------------------------------------------------------------------

\* Mutant: ReadAt returns the end offset of the read instead of its length.
BackendReadAtReturnsEnd(off, len) ==
    /\ impl = "backend"
    /\ \E k \in 0..MinOf(len, ObjLen - off), failed \in BOOLEAN :
          /\ k < len => failed
          /\ last' = [op |-> "ReadAt", off |-> off, len |-> len, n |-> off + len,
                      err |-> IF failed THEN "err" ELSE "nil",
                      data |-> Fill(off, len, k)]
    /\ UNCHANGED <<impl, pos>>

\* Mutant: a failed ReadRange is answered with a nil error.
BackendReadAtDropsError(off, len) ==
    /\ impl = "backend"
    /\ \E k \in 0..MinOf(len, ObjLen - off), failed \in BOOLEAN :
          /\ k < len => failed
          /\ last' = [op |-> "ReadAt", off |-> off, len |-> len, n |-> len,
                      err |-> "nil", data |-> Fill(off, len, k)]
    /\ UNCHANGED <<impl, pos>>

\* backendReader.ReadAt: ReadRange fills p from off, or fails after filling
\* k bytes of it (a read past the end of the object always fails); ReadAt
\* returns len(p) and ReadRange's error.
BackendReadAt(off, len) ==
    /\ impl = "backend"
    /\ \E k \in 0..MinOf(len, ObjLen - off), failed \in BOOLEAN :
          /\ k < len => failed
          /\ last' = [op |-> "ReadAt", off |-> off, len |-> len, n |-> len,
                      err |-> IF failed THEN "err" ELSE "nil",
                      data |-> Fill(off, len, k)]
    /\ UNCHANGED <<impl, pos>>

\* allReader.ReadAt: the wrapped io.ReaderAt reads k bytes and returns k,
\* with an error when k < len(p); it does not move the io.Reader offset.
AllReadAt(off, len) ==
    /\ impl = "all"
    /\ \E k \in 0..MinOf(len, ObjLen - off) :
          last' = [op |-> "ReadAt", off |-> off, len |-> len, n |-> k,
                   err |-> IF k < len THEN "err" ELSE "nil",
                   data |-> Fill(off, len, k)]
    /\ UNCHANGED <<impl, pos>>

\* backendReader.ReadAll: Reader.Read returns the whole object, or fails.
BackendReadAll ==
    /\ impl = "backend"
    /\ \/ last' = [op |-> "ReadAll", off |-> 0, len |-> 0, n |-> ObjLen,
                   err |-> "nil", data |-> Obj]
       \/ last' = [op |-> "ReadAll", off |-> 0, len |-> 0, n |-> 0,
                   err |-> "err", data |-> << >>]
    /\ UNCHANGED <<impl, pos>>

\* allReader.ReadAll: io.ReadAll reads the wrapped io.Reader from its
\* offset to the end (io.EOF is not an error) and leaves it there, or
\* returns the k bytes it read before a read error.
AllReadAll ==
    /\ impl = "all"
    /\ \/ /\ last' = [op |-> "ReadAll", off |-> pos, len |-> 0, n |-> ObjLen - pos,
                      err |-> "nil", data |-> Rest(pos)]
          /\ pos' = ObjLen
       \/ \E k \in 0..ObjLen - pos - 1 :
             /\ last' = [op |-> "ReadAll", off |-> pos, len |-> 0, n |-> k,
                         err |-> "err", data |-> SubSeq(Rest(pos), 1, k)]
             /\ pos' = pos + k
    /\ UNCHANGED impl

\* backendReader.Reader: util.ErrUnsupported.
BackendReader ==
    /\ impl = "backend"
    /\ last' = [NoCall EXCEPT !.op = "Reader", !.err = "unsupported"]
    /\ UNCHANGED <<impl, pos>>

\* allReader.Reader hands out the wrapped io.Reader, and the caller reads
\* k bytes from it.
AllReader ==
    /\ impl = "all"
    /\ \E k \in 0..ObjLen - pos :
          /\ pos' = pos + k
          /\ last' = [NoCall EXCEPT !.op = "Reader", !.n = k, !.data = Rest(pos)]
    /\ UNCHANGED impl

Next ==
    \/ \E r \in Requests : BackendReadAt(r[1], r[2]) \/ AllReadAt(r[1], r[2])
    \/ BackendReadAll \/ AllReadAll
    \/ BackendReader \/ AllReader

Spec == Init /\ [][Next]_vars

-----------------------------------------------------------------------------
(* What a caller of ContextReader relies on.                               *)

\* The bytes of the object a ReadAt asked for.
Wanted(off, len) == [i \in 1..len |-> Obj[off + i]]

\* ReadAt keeps the part of the io.ReaderAt contract both adapters share: a
\* read that reports no error filled the whole buffer with the object's
\* bytes at the offset, and a read that reports fewer bytes than asked for
\* reports an error.
ReadAtContract ==
    last.op = "ReadAt" =>
        /\ last.n < last.len => last.err # "nil"
        /\ last.err = "nil" => last.n = last.len /\ last.data = Wanted(last.off, last.len)

\* The io.ReaderAt contract's count: the first n bytes of the buffer, n the
\* count ReadAt returned, are the object's bytes at the offset, with or
\* without an error, so a caller may keep them (io.SectionReader and
\* io.ReadFull do).
ReadAtCountsDelivered ==
    last.op = "ReadAt" => \A i \in 1..last.n : last.data[i] = Obj[last.off + i]

=============================================================================
