------------------------- MODULE ReaderStackProofs -------------------------
(***************************************************************************)
(* Proofs about the parquet reader stack for every section length, every   *)
(* set of read lengths and every CacheControl setting.                     *)
(*                                                                         *)
(* The adapters answer the magic header and the magic footer without the   *)
(* backend; that this is the object's own bytes is a fact about the        *)
(* layout of a parquet object (FileHeader, FileFooter below).  The answer  *)
(* of a cached read is whatever the Cache holds, so ReadsAreTransparent is *)
(* not inductive: it needs CacheHoldsFileBytes, which says every entry     *)
(* holds the bytes of its own offset and length.                           *)
(***************************************************************************)
EXTENDS ReaderStack, SequenceTheorems, TLAPS

\* Every Cache entry holds the object's bytes at its offset and length.
CacheHoldsFileBytes ==
    \A e \in cache : e.bytes = FileSlice(e.off, e.len)

IInv ==
    /\ TypeOK
    /\ CacheHoldsFileBytes
    /\ ReadsAreTransparent

-----------------------------------------------------------------------------

LEMMA ConstFacts ==
    /\ SectionLen \in Nat \ {0}
    /\ FileSize \in Nat /\ FileSize >= 12
  BY ReaderAssumption DEF FileSize, FooterOffset, OffsetIndexOffset, ColumnIndexOffset,
                          DataLen

\* The object is a sequence of FileSize bytes.
LEMMA FileType == File \in Seq(Byte) /\ Len(File) = FileSize
  <1>1. File \in [1..FileSize -> Byte]
    <2> SUFFICES ASSUME NEW i \in 1..FileSize PROVE File[i] \in Byte
      BY DEF File
    <2>1. CASE i <= 4
      BY <2>1 DEF File, Magic, Byte
    <2>2. CASE ~(i <= 4) /\ i <= FileSize - 8
      BY <2>2 DEF File, Byte
    <2>3. CASE ~(i <= FileSize - 8) /\ i <= FileSize - 4
      <3>1. i - (FileSize - 8) \in 1..4
        BY <2>3, ConstFacts
      <3>2. QED
        BY <2>3, <3>1, ConstFacts, ReaderAssumption DEF File, LittleEndian32, Byte
    <2>4. CASE ~(i <= FileSize - 4)
      <3>1. i - (FileSize - 4) \in 1..4 /\ ~(i <= 4)
        BY <2>4, ConstFacts
      <3>2. QED
        BY <2>4, <3>1, ConstFacts DEF File, Magic, Byte
    <2>5. QED
      BY <2>1, <2>2, <2>3, <2>4
  <1>2. QED
    BY <1>1, ConstFacts

\* A slice of the object is a sequence of bytes.
LEMMA SliceType ==
    ASSUME NEW off \in Nat, NEW len \in Nat, off + len <= FileSize
    PROVE  FileSlice(off, len) \in Seq(Byte)
  <1>1. \A i \in off + 1..off + len : File[i] \in Byte
    BY FileType, ElementOfSeq
  <1>2. QED
    BY <1>1, SubSeqProperties DEF FileSlice

\* parquetOptimizedReaderAt's magic header is the object's first 4 bytes.
LEMMA FileHeader == FileSlice(0, 4) = Magic
  <1>1. FileSlice(0, 4) \in Seq(Byte) /\ Len(FileSlice(0, 4)) = 4
        /\ \A i \in 1..4 : FileSlice(0, 4)[i] = File[i]
    BY FileType, ConstFacts, SubSeqProperties, ElementOfSeq DEF FileSlice
  <1>2. \A i \in 1..4 : File[i] = Magic[i]
    BY ConstFacts DEF File
  <1>3. Magic \in Seq(Byte) /\ Len(Magic) = 4
    BY DEF Magic, Byte
  <1>4. QED
    BY <1>1, <1>2, <1>3, SeqEqual

\* Its magic footer, from the meta's FooterSize, is the object's last 8 bytes.
LEMMA FileFooter ==
    MetaFooterSize > 0 =>
        FileSlice(FileSize - 8, 8) = LittleEndian32(MetaFooterSize) \o Magic
  <1> SUFFICES ASSUME MetaFooterSize > 0
               PROVE  FileSlice(FileSize - 8, 8) = LittleEndian32(SectionLen) \o Magic
    BY ReaderAssumption
  <1> DEFINE Tail8 == LittleEndian32(SectionLen) \o Magic
  <1>1. FileSlice(FileSize - 8, 8) \in Seq(Byte) /\ Len(FileSlice(FileSize - 8, 8)) = 8
        /\ \A i \in 1..8 : FileSlice(FileSize - 8, 8)[i] = File[FileSize - 8 + i]
    <2> DEFINE lo == FileSize - 7
    <2>1. FileSlice(FileSize - 8, 8) = SubSeq(File, lo, FileSize)
      BY ConstFacts DEF FileSlice
    <2>2. lo \in Int /\ FileSize \in Int /\ \A i \in lo..FileSize : File[i] \in Byte
      BY ConstFacts, FileType, ElementOfSeq
    <2>3. /\ SubSeq(File, lo, FileSize) \in Seq(Byte)
          /\ Len(SubSeq(File, lo, FileSize)) = IF lo <= FileSize THEN FileSize - lo + 1 ELSE 0
          /\ \A i \in 1..FileSize - lo + 1 : SubSeq(File, lo, FileSize)[i] = File[lo + i - 1]
      BY <2>2, SubSeqProperties
    <2>4. FileSize - lo + 1 = 8 /\ lo <= FileSize /\ \A i \in 1..8 : lo + i - 1 = FileSize - 8 + i
      BY ConstFacts
    <2>5. QED
      BY <2>1, <2>3, <2>4
  <1>2. Tail8 \in Seq(Byte) /\ Len(Tail8) = 8
        /\ \A i \in 1..8 : Tail8[i] = IF i <= 4 THEN LittleEndian32(SectionLen)[i]
                                                 ELSE Magic[i - 4]
    BY ReaderAssumption, ConcatProperties DEF LittleEndian32, Magic, Byte
  <1>3. \A i \in 1..8 : File[FileSize - 8 + i] = Tail8[i]
    <2> SUFFICES ASSUME NEW i \in 1..8 PROVE File[FileSize - 8 + i] = Tail8[i]
      OBVIOUS
    <2>1. FileSize - 8 + i \in 1..FileSize /\ ~(FileSize - 8 + i <= 4)
          /\ FileSize - 8 + i > FileSize - 8
      BY ConstFacts
    <2>2. CASE i <= 4
      <3>1. File[FileSize - 8 + i] = LittleEndian32(SectionLen)[i]
        BY <2>1, <2>2, ConstFacts DEF File
      <3>2. QED
        BY <3>1, <1>2, <2>2
    <2>3. CASE ~(i <= 4)
      <3>1. File[FileSize - 8 + i] = Magic[i - 4]
        BY <2>1, <2>3, ConstFacts DEF File
      <3>2. QED
        BY <3>1, <1>2, <2>3
    <2>4. QED
      BY <2>2, <2>3
  <1>4. \A i \in 1..Len(FileSlice(FileSize - 8, 8)) : FileSlice(FileSize - 8, 8)[i] = Tail8[i]
    BY <1>1, <1>3
  <1>5. QED
    BY <1>1, <1>2, <1>4, SeqEqual

-----------------------------------------------------------------------------

\* An answer of the right shape that, when it succeeded, holds the bytes.
GoodAnswer(a) ==
    /\ a \in Answer \cup {NoAnswer}
    /\ a.ok => a.bytes = FileSlice(a.off, a.len)

\* A Cache entry of the right shape holding the bytes of its key.
CacheEntry == [off : Offsets, len : ReadLens, bytes : Seq(Byte)]

\* The answers and the entry of a read of the object's bytes.
LEMMA ReadResults ==
    ASSUME NEW off \in Offsets, NEW len \in ReadLens, off + len <= FileSize
    PROVE  /\ GoodAnswer(Answered(off, len, FileSlice(off, len)))
           /\ GoodAnswer(Failed(off, len))
           /\ [off |-> off, len |-> len, bytes |-> FileSlice(off, len)] \in CacheEntry
  <1>1. FileSlice(off, len) \in Seq(Byte)
    BY SliceType, ReaderAssumption DEF Offsets
  <1>2. QED
    BY <1>1 DEF GoodAnswer, Answer, Answered, Failed, CacheEntry

\* The two constant answers of parquetOptimizedReaderAt are good answers.
LEMMA ConstantResults ==
    /\ 4 \in ReadLens => GoodAnswer(Answered(0, 4, Magic))
    /\ 8 \in ReadLens /\ MetaFooterSize > 0 =>
           GoodAnswer(Answered(FileSize - 8, 8, LittleEndian32(MetaFooterSize) \o Magic))
  <1>1. 0 \in Offsets /\ FileSize - 8 \in Offsets
    BY ConstFacts DEF Offsets
  <1>2. Magic \in Seq(Byte) /\ LittleEndian32(MetaFooterSize) \o Magic \in Seq(Byte)
    BY ReaderAssumption, ConcatProperties DEF Magic, LittleEndian32, Byte
  <1>3. 4 \in ReadLens => GoodAnswer(Answered(0, 4, Magic))
    BY <1>1, <1>2, FileHeader DEF GoodAnswer, Answer, Answered
  <1>4. 8 \in ReadLens /\ MetaFooterSize > 0 =>
           GoodAnswer(Answered(FileSize - 8, 8, LittleEndian32(MetaFooterSize) \o Magic))
    BY <1>1, <1>2, FileFooter DEF GoodAnswer, Answer, Answered
  <1>5. QED
    BY <1>3, <1>4

\* The backend delivering, or failing, keeps the answer good.
LEMMA BackendResults ==
    ASSUME NEW off \in Offsets, NEW len \in ReadLens, off + len <= FileSize,
           backendBytes \in Nat, failures \in 0..MaxFailures
    PROVE  /\ BackendDelivers(off, len) =>
                 GoodAnswer(lastRead') /\ backendBytes' \in Nat /\ failures' \in 0..MaxFailures
           /\ BackendFails(off, len) =>
                 GoodAnswer(lastRead') /\ backendBytes' \in Nat /\ failures' \in 0..MaxFailures
  <1>1. GoodAnswer(Answered(off, len, FileSlice(off, len))) /\ GoodAnswer(Failed(off, len))
    BY ReadResults
  <1>2. len \in Nat
    BY ReaderAssumption
  <1>3. BackendDelivers(off, len) =>
          GoodAnswer(lastRead') /\ backendBytes' \in Nat /\ failures' \in 0..MaxFailures
    BY <1>1, <1>2 DEF BackendDelivers
  <1>4. BackendFails(off, len) =>
          GoodAnswer(lastRead') /\ backendBytes' \in Nat /\ failures' \in 0..MaxFailures
    BY <1>1, ReaderAssumption DEF BackendFails
  <1>5. QED
    BY <1>3, <1>4

\* What a read leaves behind: a good answer, good Cache entries and
\* counters of the right type.
ReadPost ==
    /\ GoodAnswer(lastRead')
    /\ cache' \subseteq CacheEntry
    /\ \A e \in cache' : e.bytes = FileSlice(e.off, e.len)
    /\ totalBytesRead' \in Nat
    /\ backendBytes' \in Nat
    /\ failures' \in 0..MaxFailures

LEMMA InitIInv == Init => IInv
  <1> SUFFICES ASSUME Init PROVE IInv
    OBVIOUS
  <1>1. cachedObjects \in [Offsets -> Nat] /\ lastRead = NoAnswer
    BY DEF Init
  <1>2. QED
    BY <1>1, ReaderAssumption
       DEF Init, IInv, TypeOK, CacheHoldsFileBytes, ReadsAreTransparent, NoAnswer

\* ReadAtWithCache: a hit answers the entry's bytes, which are the object's.
LEMMA CachedReadPost ==
    ASSUME IInv, NEW off \in Offsets, NEW len \in ReadLens, off + len <= FileSize,
           ReadAtWithCache(off, len)
    PROVE  ReadPost
  <1> USE DEF IInv, TypeOK
  <1>1. CASE \E e \in cache : e.off = off /\ e.len = len
    <2> DEFINE e == CHOOSE e \in cache : e.off = off /\ e.len = len
    <2>1. e \in cache /\ e.off = off /\ e.len = len
      BY <1>1
    <2>2. e.bytes = FileSlice(off, len) /\ e.bytes \in Seq(Byte)
      BY <2>1 DEF CacheHoldsFileBytes
    <2>3. GoodAnswer(Answered(off, len, e.bytes))
      BY <2>2 DEF GoodAnswer, Answer, Answered
    <2>4. QED
      BY <1>1, <2>3 DEF ReadAtWithCache, ReadPost, CacheHoldsFileBytes, CacheEntry
  <1>2. CASE ~\E e \in cache : e.off = off /\ e.len = len
    <2>1. [off |-> off, len |-> len, bytes |-> FileSlice(off, len)] \in CacheEntry
      BY ReadResults
    <2>2. backendBytes \in Nat /\ failures \in 0..MaxFailures
      OBVIOUS
    <2>3. CASE BackendDelivers(off, len)
              /\ cache' \in {cache, cache \cup {[off |-> off, len |-> len,
                                                 bytes |-> FileSlice(off, len)]}}
      BY <1>2, <2>1, <2>2, <2>3, BackendResults
         DEF ReadAtWithCache, ReadPost, CacheHoldsFileBytes, CacheEntry
    <2>4. CASE BackendFails(off, len) /\ UNCHANGED cache
      BY <1>2, <2>2, <2>4, BackendResults
         DEF ReadAtWithCache, ReadPost, CacheHoldsFileBytes, CacheEntry
    <2>5. QED
      BY <1>2, <2>3, <2>4 DEF ReadAtWithCache
  <1>3. QED
    BY <1>1, <1>2

\* parquetOptimizedReaderAt: the constant answers are the object's bytes,
\* and any other read is the backend's.
LEMMA OptimizedReadPost ==
    ASSUME IInv, NEW off \in Offsets, NEW len \in ReadLens, off + len <= FileSize,
           OptimizedReadAt(off, len)
    PROVE  ReadPost
  <1> USE DEF IInv, TypeOK
  <1>1. backendBytes \in Nat /\ failures \in 0..MaxFailures /\ len \in Nat
    BY ReaderAssumption
  <1>2. CASE len = 4 /\ off = 0
    BY <1>2, ConstantResults DEF OptimizedReadAt, ReadPost, CacheHoldsFileBytes, CacheEntry
  <1>3. CASE ~(len = 4 /\ off = 0) /\ len = 8 /\ off = FileSize - 8 /\ MetaFooterSize > 0
    BY <1>3, ConstantResults DEF OptimizedReadAt, ReadPost, CacheHoldsFileBytes, CacheEntry
  <1>4. CASE ~(len = 4 /\ off = 0) /\ ~(len = 8 /\ off = FileSize - 8 /\ MetaFooterSize > 0)
    <2>1. BackendReadAt(off, len)
      BY <1>4 DEF OptimizedReadAt
    <2>2. QED
      BY <1>1, <2>1, BackendResults DEF BackendReadAt, ReadPost, CacheHoldsFileBytes, CacheEntry
  <1>5. QED
    BY <1>2, <1>3, <1>4

LEMMA NextIInv == IInv /\ [Next]_vars => IInv'
  <1> SUFFICES ASSUME IInv, [Next]_vars PROVE IInv'
    OBVIOUS
  <1>1. ASSUME NEW s \in DOMAIN Sections, SetSection(s) PROVE IInv'
    <2>1. Sections[s].off \in Offsets /\ Sections[s].len \in Nat
      BY ConstFacts, ReaderAssumption
         DEF Sections, Offsets, FileSize, FooterOffset, OffsetIndexOffset,
             ColumnIndexOffset, DataLen
    <2>2. QED
      BY <1>1, <2>1 DEF SetSection, IInv, TypeOK, CacheHoldsFileBytes, ReadsAreTransparent
  <1>2. ASSUME NEW r \in Reads, ReadAt(r[1], r[2]) PROVE IInv'
    <2>1. r[1] \in Offsets /\ r[2] \in ReadLens /\ r[1] + r[2] <= FileSize
      BY DEF Reads
    <2>2. reads' \in 0..MaxReads /\ UNCHANGED <<cachedObjects, registered>>
      BY <1>2, ReaderAssumption DEF ReadAt, IInv, TypeOK
    <2>3. ReadPost
      <3>1. CASE cachedObjects[r[1]] = r[2]
        BY <1>2, <2>1, <3>1, CachedReadPost DEF ReadAt
      <3>2. CASE cachedObjects[r[1]] # r[2]
        BY <1>2, <2>1, <3>2, OptimizedReadPost DEF ReadAt
      <3>3. QED
        BY <3>1, <3>2
    <2>4. QED
      BY <1>2, <2>2, <2>3
         DEF ReadPost, GoodAnswer, IInv, TypeOK, CacheHoldsFileBytes, ReadsAreTransparent,
             CacheEntry
  <1>3. CASE CacheEvict
    BY <1>3 DEF CacheEvict, IInv, TypeOK, CacheHoldsFileBytes, ReadsAreTransparent
  <1>4. CASE UNCHANGED vars
    BY <1>4 DEF vars, IInv, TypeOK, CacheHoldsFileBytes, ReadsAreTransparent
  <1>5. QED
    BY <1>1, <1>2, <1>3, <1>4 DEF Next

-----------------------------------------------------------------------------

THEOREM IInvariant == Spec => []IInv
  BY InitIInv, NextIInv, PTL DEF Spec

\* Type correctness of the reader stack's state.
THEOREM TypeCorrect == Spec => []TypeOK
  BY IInvariant, PTL DEF IInv

\* The adapters of the reader stack (the magic-header and magic-footer
\* shortcuts of parquetOptimizedReaderAt, the cached route of
\* cachedReaderAt and the backend route) never alter the bytes, for every
\* section length and CacheControl setting (ReadsAreTransparent, checked by
\* the run).
THEOREM ReadsTransparent == Spec => []ReadsAreTransparent
  BY IInvariant, PTL DEF IInv

-----------------------------------------------------------------------------
(* Only enabled sections are cached.  A read takes the cached route when   *)
(* its length equals cachedObjects[off], and only then can it store into   *)
(* the Cache; so the invariant needs RegisteredEnabled: a non-zero         *)
(* cachedObjects entry was set by a registered section whose flag is on.   *)
(* A read of length 0 at an offset never registered also matches          *)
(* cachedObjects[off] (the map's zero value), takes the cached route and   *)
(* may be stored: the theorem holds for reads of non-zero length, and TLC  *)
(* shows the property fails once 0 is a read length.                       *)

\* Every non-zero cachedObjects entry is a registered, enabled section.
RegisteredEnabled ==
    \A o \in Offsets :
        cachedObjects[o] # 0 =>
            \E s \in registered :
                Sections[s].on /\ Sections[s].off = o /\ Sections[s].len = cachedObjects[o]

SInv == RegisteredEnabled /\ OnlyEnabledSectionsCached

\* The sections' offsets lie in the object and their length is not zero.
LEMMA SectionFacts ==
    ASSUME NEW s \in DOMAIN Sections
    PROVE  Sections[s].off \in Offsets /\ Sections[s].len = SectionLen /\ SectionLen # 0
           /\ Sections[s].on \in BOOLEAN
  BY ConstFacts, ReaderAssumption
     DEF Sections, Offsets, FileSize, FooterOffset, OffsetIndexOffset, ColumnIndexOffset,
         DataLen

\* The only Cache entry a read can add is its own range, and only on the
\* cached route.
LEMMA CacheGrowth ==
    ASSUME NEW off \in Offsets, NEW len \in ReadLens
    PROVE  /\ ReadAtWithCache(off, len) =>
                cache' \subseteq cache \cup {[off |-> off, len |-> len,
                                              bytes |-> FileSlice(off, len)]}
           /\ OptimizedReadAt(off, len) => cache' = cache
  <1>1. ReadAtWithCache(off, len) =>
            cache' \subseteq cache \cup {[off |-> off, len |-> len,
                                          bytes |-> FileSlice(off, len)]}
    BY DEF ReadAtWithCache, BackendDelivers, BackendFails
  <1>2. OptimizedReadAt(off, len) => cache' = cache
    BY DEF OptimizedReadAt, BackendReadAt
  <1>3. QED
    BY <1>1, <1>2

LEMMA InitSInv == Init => SInv
  BY DEF Init, SInv, RegisteredEnabled, OnlyEnabledSectionsCached

LEMMA NextSInv ==
    ASSUME 0 \notin ReadLens
    PROVE  IInv /\ SInv /\ [Next]_vars => SInv'
  <1> SUFFICES ASSUME IInv, SInv, [Next]_vars PROVE SInv'
    OBVIOUS
  <1> USE DEF IInv, TypeOK, SInv
  <1>1. ASSUME NEW s \in DOMAIN Sections, SetSection(s) PROVE SInv'
    <2>1. Sections[s].off \in Offsets /\ Sections[s].len # 0
      BY SectionFacts
    <2>2. registered' = registered \cup {s} /\ UNCHANGED cache
      BY <1>1 DEF SetSection
    <2>3. OnlyEnabledSectionsCached'
      BY <2>2 DEF OnlyEnabledSectionsCached
    <2>4. RegisteredEnabled'
      <3>1. CASE Sections[s].on
        <4>1. cachedObjects' = [cachedObjects EXCEPT ![Sections[s].off] = Sections[s].len]
          BY <1>1, <3>1 DEF SetSection
        <4> SUFFICES ASSUME NEW o \in Offsets, cachedObjects'[o] # 0
                     PROVE  \E t \in registered' :
                                Sections[t].on /\ Sections[t].off = o
                                /\ Sections[t].len = cachedObjects'[o]
          BY DEF RegisteredEnabled
        <4>2. CASE o = Sections[s].off
          BY <2>1, <2>2, <3>1, <4>1, <4>2
        <4>3. CASE o # Sections[s].off
          <5>1. cachedObjects'[o] = cachedObjects[o]
            BY <4>1, <4>3
          <5>2. QED
            BY <2>2, <5>1 DEF RegisteredEnabled
        <4>4. QED
          BY <4>2, <4>3
      <3>2. CASE ~Sections[s].on
        BY <1>1, <2>2, <3>2 DEF SetSection, RegisteredEnabled
      <3>3. QED
        BY <3>1, <3>2
    <2>5. QED
      BY <2>3, <2>4
  <1>2. ASSUME NEW r \in Reads, ReadAt(r[1], r[2]) PROVE SInv'
    <2>1. r[1] \in Offsets /\ r[2] \in ReadLens /\ r[2] # 0
      BY DEF Reads
    <2>2. UNCHANGED <<cachedObjects, registered>>
      BY <1>2 DEF ReadAt
    <2>3. RegisteredEnabled'
      BY <2>2 DEF RegisteredEnabled
    <2>4. CASE cachedObjects[r[1]] = r[2]
      <3>1. cache' \subseteq cache \cup {[off |-> r[1], len |-> r[2],
                                          bytes |-> FileSlice(r[1], r[2])]}
        BY <1>2, <2>1, <2>4, CacheGrowth DEF ReadAt
      <3>2. \E s \in registered :
                Sections[s].on /\ Sections[s].off = r[1] /\ Sections[s].len = r[2]
        BY <2>1, <2>4 DEF RegisteredEnabled
      <3>3. QED
        BY <2>2, <2>3, <3>1, <3>2 DEF OnlyEnabledSectionsCached
    <2>5. CASE cachedObjects[r[1]] # r[2]
      <3>1. cache' = cache
        BY <1>2, <2>1, <2>5, CacheGrowth DEF ReadAt
      <3>2. QED
        BY <2>2, <2>3, <3>1 DEF OnlyEnabledSectionsCached
    <2>6. QED
      BY <2>4, <2>5
  <1>3. CASE CacheEvict
    BY <1>3 DEF CacheEvict, RegisteredEnabled, OnlyEnabledSectionsCached
  <1>4. CASE UNCHANGED vars
    BY <1>4 DEF vars, RegisteredEnabled, OnlyEnabledSectionsCached
  <1>5. QED
    BY <1>1, <1>2, <1>3, <1>4 DEF Next

\* When parquet.File issues no zero-length reads, only the structural
\* sections registered by SetFooterSection, SetColumnIndexSection and
\* SetOffsetIndexSection with their CacheControl flag on ever reach the
\* Cache through cachedReaderAt.ReadAt, for every section length and flag
\* setting (OnlyEnabledSectionsCached, checked by the run).
THEOREM OnlyEnabledAlwaysCached ==
    ASSUME 0 \notin ReadLens
    PROVE  Spec => []OnlyEnabledSectionsCached
  <1>1. Init => IInv /\ SInv
    BY InitIInv, InitSInv
  <1>2. IInv /\ SInv /\ [Next]_vars => (IInv /\ SInv)'
    BY NextIInv, NextSInv
  <1>3. QED
    BY <1>1, <1>2, PTL DEF Spec, SInv
=============================================================================
