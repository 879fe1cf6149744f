---------------------------- MODULE ReaderStack ----------------------------
(***************************************************************************)
(* The stack of io.ReaderAt adapters that serves parquet.File reads of one *)
(* block's data object (pkg/deepdb/encoding/vparquet/readers.go):          *)
(*                                                                         *)
(*   parquet.File -> cachedReaderAt -+-> parquetOptimizedReaderAt          *)
(*                                   |     -> BackendReaderAt.ReadAt       *)
(*                                   +-> BackendReaderAt.ReadAtWithCache   *)
(*                                                                         *)
(* cachedReaderAt sends a read whose (offset, length) was registered by a  *)
(* Set*Section call (footer, column index, offset index, each only when    *)
(* its CacheControl flag is on) to ReadAtWithCache, whose ReadRange asks   *)
(* the backend with shouldCache = true; every other read goes to           *)
(* parquetOptimizedReaderAt, which answers the 4-byte magic header and the *)
(* 8-byte magic footer from constants and the block meta's FooterSize, and *)
(* otherwise reads the backend through BackendReaderAt, which counts       *)
(* TotalBytesRead.  The caching layer of the backend reader (a read        *)
(* through the Cache keyed by object, offset and length, stored on a miss) *)
(* is not under src/ and is modelled from spec.md 4.6 and 4.7.  The        *)
(* buffering reader between parquetOptimizedReaderAt and BackendReaderAt   *)
(* is not in the repository and is left out (reads pass through it).       *)
(*                                                                         *)
(* The object is an abstract parquet file of FileSize bytes: "PAR1", data, *)
(* the column index, the offset index, the footer, the footer length       *)
(* (4 bytes little-endian) and "PAR1".                                     *)
(***************************************************************************)
EXTENDS Integers, Sequences

CONSTANTS
    SectionLen,       \* length of each of the three cached sections
    ReadLens,         \* the lengths of the reads parquet.File may issue
    CacheFooter,      \* CacheControl.Footer
    CacheColumnIndex, \* CacheControl.ColumnIndex
    CacheOffsetIndex, \* CacheControl.OffsetIndex
    MetaFooterSize,   \* BlockMeta.FooterSize (0 in metas of older blocks)
    MaxReads,         \* bound on the number of reads
    MaxFailures       \* bound on failed backend reads

ASSUME ReaderAssumption ==
    /\ SectionLen \in 1..255
    /\ ReadLens \subseteq Nat
    /\ {CacheFooter, CacheColumnIndex, CacheOffsetIndex} \subseteq BOOLEAN
    /\ MetaFooterSize \in {0, SectionLen}
    /\ MaxReads \in Nat /\ MaxFailures \in Nat

\* Layout of the object.
DataLen == 2
ColumnIndexOffset == 4 + DataLen
OffsetIndexOffset == ColumnIndexOffset + SectionLen
FooterOffset == OffsetIndexOffset + SectionLen
FileSize == FooterOffset + SectionLen + 8
Offsets == 0..FileSize - 1

\* A byte.
Byte == 0..255

\* The bytes "PAR1".
Magic == <<80, 65, 82, 49>>

\* binary.LittleEndian.PutUint32 of a length below 256.
LittleEndian32(n) == <<n, 0, 0, 0>>

\* The object's bytes, by position: the magic header, data, index and
\* footer bytes (distinct values), the footer length and the magic footer.
File ==
    [i \in 1..FileSize |->
        IF i <= 4 THEN Magic[i]
        ELSE IF i <= FileSize - 8 THEN (100 + i) % 256
        ELSE IF i <= FileSize - 4 THEN LittleEndian32(SectionLen)[i - (FileSize - 8)]
        ELSE Magic[i - (FileSize - 4)]]

\* The bytes p[0:len] of a read at off, as the object holds them.
FileSlice(off, len) == SubSeq(File, off + 1, off + len)

\* A read parquet.File may issue.
Reads == {r \in Offsets \X ReadLens : r[1] + r[2] <= FileSize}

\* The sections parquet-go registers in OpenFile, with the flag that lets
\* cachedReaderAt keep each one.
Sections ==
    [footer      |-> [off |-> FooterOffset,      len |-> SectionLen, on |-> CacheFooter],
     columnIndex |-> [off |-> ColumnIndexOffset, len |-> SectionLen, on |-> CacheColumnIndex],
     offsetIndex |-> [off |-> OffsetIndexOffset, len |-> SectionLen, on |-> CacheOffsetIndex]]

\* The answer of a read.
Answer == [off : Offsets, len : ReadLens, ok : BOOLEAN, bytes : Seq(Byte)]
NoAnswer == [off |-> 0, len |-> 0, ok |-> FALSE, bytes |-> <<>>]

VARIABLES
    cachedObjects,  \* cachedReaderAt.cachedObjects: offset -> length (Go zero value 0)
    registered,     \* the Set*Section calls parquet-go has made
    cache,          \* entries of the shared Cache: [off, len, bytes]
    totalBytesRead, \* BackendReaderAt.TotalBytesRead
    backendBytes,   \* bytes the backend actually delivered to this stack
    reads,          \* number of reads issued
    failures,       \* number of failed backend reads
    lastRead        \* the answer of the latest ReadAt

vars == <<cachedObjects, registered, cache, totalBytesRead, backendBytes,
          reads, failures, lastRead>>

TypeOK ==
    /\ cachedObjects \in [Offsets -> Nat]
    /\ registered \subseteq DOMAIN Sections
    /\ cache \subseteq [off : Offsets, len : ReadLens, bytes : Seq(Byte)]
    /\ totalBytesRead \in Nat
    /\ backendBytes \in Nat
    /\ reads \in 0..MaxReads
    /\ failures \in 0..MaxFailures
    /\ lastRead \in Answer \cup {NoAnswer}

Init ==
    /\ cachedObjects = [o \in Offsets |-> 0]
    /\ registered = {}
    /\ cache = {}
    /\ totalBytesRead = 0
    /\ backendBytes = 0
    /\ reads = 0
    /\ failures = 0
    /\ lastRead = NoAnswer

-----------------------------------------------------------------------------
(* Section registration: SetFooterSection, SetColumnIndexSection and       *)
(* SetOffsetIndexSection, called by parquet-go while opening the file.     *)

\* Mutant: a Set*Section that ignores its CacheControl flag.
SetSectionIgnoringFlag(s) ==
    /\ s \notin registered
    /\ registered' = registered \cup {s}
    /\ cachedObjects' = [cachedObjects EXCEPT ![Sections[s].off] = Sections[s].len]
    /\ UNCHANGED <<cache, totalBytesRead, backendBytes, reads, failures, lastRead>>

\* r.cachedObjects[offset] = length when the section's flag is on.
SetSection(s) ==
    /\ s \notin registered
    /\ registered' = registered \cup {s}
    /\ cachedObjects' = IF Sections[s].on
                          THEN [cachedObjects EXCEPT ![Sections[s].off] = Sections[s].len]
                          ELSE cachedObjects
    /\ UNCHANGED <<cache, totalBytesRead, backendBytes, reads, failures, lastRead>>

-----------------------------------------------------------------------------
(* Reads.  Each is one ReadAt call of parquet.File through the whole       *)
(* stack; the backend may fail (an error, no bytes).                       *)

\* A successful read answering bytes.
Answered(off, len, bytes) == [off |-> off, len |-> len, ok |-> TRUE, bytes |-> bytes]
Failed(off, len) == [off |-> off, len |-> len, ok |-> FALSE, bytes |-> <<>>]

\* The backend's ReadRange of [off, off+len): it delivers the bytes, or it
\* fails while failures are left.
BackendDelivers(off, len) ==
    /\ backendBytes' = backendBytes + len
    /\ lastRead' = Answered(off, len, FileSlice(off, len))
    /\ UNCHANGED failures

BackendFails(off, len) ==
    /\ failures < MaxFailures
    /\ failures' = failures + 1
    /\ lastRead' = Failed(off, len)
    /\ UNCHANGED backendBytes

\* BackendReaderAt.ReadAt: TotalBytesRead.Add(len(p)), then ReadRange with
\* shouldCache = false; on error it returns 0 bytes and the error.
BackendReadAt(off, len) ==
    /\ totalBytesRead' = totalBytesRead + len
    /\ \/ BackendDelivers(off, len)
       \/ BackendFails(off, len)
    /\ UNCHANGED cache

\* BackendReaderAt.ReadAtWithCache: ReadRange with shouldCache = true, not
\* counted in TotalBytesRead.  The caching reader fetches the key (object,
\* offset, length); a hit answers from the Cache, a miss reads the backend
\* and stores the bytes on success (the Cache may drop the store).
ReadAtWithCache(off, len) ==
    /\ UNCHANGED totalBytesRead
    /\ IF \E e \in cache : e.off = off /\ e.len = len
         THEN LET e == CHOOSE e \in cache : e.off = off /\ e.len = len
              IN  /\ lastRead' = Answered(off, len, e.bytes)
                  /\ UNCHANGED <<cache, backendBytes, failures>>
         ELSE \/ /\ BackendDelivers(off, len)
                 /\ cache' \in {cache, cache \cup {[off |-> off, len |-> len,
                                                     bytes |-> FileSlice(off, len)]}}
              \/ /\ BackendFails(off, len)
                 /\ UNCHANGED cache

\* Mutant: the magic-header shortcut without its length test.
OptimizedReadAtAnyHeaderLen(off, len) ==
    IF off = 0
      THEN /\ lastRead' = Answered(off, len,
                                   [i \in 1..len |-> IF i <= 4 THEN Magic[i] ELSE 0])
           /\ UNCHANGED <<cache, totalBytesRead, backendBytes, failures>>
    ELSE IF len = 8 /\ off = FileSize - 8 /\ MetaFooterSize > 0
      THEN /\ lastRead' = Answered(off, len, LittleEndian32(MetaFooterSize) \o Magic)
           /\ UNCHANGED <<cache, totalBytesRead, backendBytes, failures>>
    ELSE BackendReadAt(off, len)

\* parquetOptimizedReaderAt.ReadAt: the magic header (4 bytes at 0) and the
\* magic footer (8 bytes at readerSize-8, when the meta has a FooterSize)
\* are answered without the backend; any other read goes down the stack.
OptimizedReadAt(off, len) ==
    IF len = 4 /\ off = 0
      THEN /\ lastRead' = Answered(off, len, Magic)
           /\ UNCHANGED <<cache, totalBytesRead, backendBytes, failures>>
    ELSE IF len = 8 /\ off = FileSize - 8 /\ MetaFooterSize > 0
      THEN /\ lastRead' = Answered(off, len, LittleEndian32(MetaFooterSize) \o Magic)
           /\ UNCHANGED <<cache, totalBytesRead, backendBytes, failures>>
    ELSE BackendReadAt(off, len)

\* cachedReaderAt.ReadAt: a read whose length equals cachedObjects[off]
\* (0 for an offset never registered) goes to ReadAtWithCache, any other
\* to the optimized reader.
ReadAt(off, len) ==
    /\ reads < MaxReads
    /\ reads' = reads + 1
    /\ IF cachedObjects[off] = len
         THEN ReadAtWithCache(off, len)
         ELSE OptimizedReadAt(off, len)
    /\ UNCHANGED <<cachedObjects, registered>>

\* The Cache evicts an entry (it is best effort).
CacheEvict ==
    /\ \E e \in cache : cache' = cache \ {e}
    /\ UNCHANGED <<cachedObjects, registered, totalBytesRead, backendBytes,
                   reads, failures, lastRead>>

Next ==
    \/ \E s \in DOMAIN Sections : SetSection(s)
    \/ \E r \in Reads : ReadAt(r[1], r[2])
    \/ CacheEvict

Spec == Init /\ [][Next]_vars

-----------------------------------------------------------------------------
(* Properties.                                                             *)

\* The adapters never alter the bytes: every read that succeeds answers the
\* object's bytes at its offset, whether they came from a constant (magic
\* header, magic footer), from the Cache or from the backend.
ReadsAreTransparent ==
    lastRead.ok => lastRead.bytes = FileSlice(lastRead.off, lastRead.len)

\* Only the structural sections whose CacheControl flag is on are cached:
\* every Cache entry is a registered (offset, length) of such a section.
OnlyEnabledSectionsCached ==
    \A e \in cache :
        \E s \in registered :
            /\ Sections[s].on
            /\ e.off = Sections[s].off
            /\ e.len = Sections[s].len

\* TotalBytesRead accounts for the bytes the stack read from the backend.
TotalBytesReadAccurate == totalBytesRead = backendBytes

=============================================================================
