------------------------ MODULE IngesterFlushProofs ------------------------
(***************************************************************************)
(* Proofs about the ingester flush pipeline, for every number of blocks,   *)
(* every clock bound, timeout, crash bound and failure bound.              *)
(*                                                                         *)
(* NoBlockLost is not inductive: a step of ClearFlushedBlocks deletes a    *)
(* block's local copy, and NoBlockLost alone says nothing of the remote    *)
(* copy of a block that is still local.  The strengthening records why     *)
(* the deletion is safe: a non-zero flushed time, a parsable marker, and a *)
(* flush operation past CopyBlock each imply that the remote copy is       *)
(* full.  The type invariant itself needs one more fact: a SetFlushed in   *)
(* progress holds a real time, so the marker it writes is a time.          *)
(***************************************************************************)
EXTENDS IngesterFlush, TLAPS

\* A SetFlushed in progress has taken time.Now().
StampIsTime ==
    \A b \in Blocks : flush[b] \in {"copied", "marked"} => stamp[b] \in Time

\* Everything that lets a block's local copy be deleted implies that the
\* remote copy is full: past CopyBlock, a parsable marker, a flushed time.
ReplicatedBeforeRecorded ==
    \A b \in Blocks :
        /\ flush[b] \in {"copied", "marked"} => remote[b] = "full"
        /\ marker[b] \in Time => remote[b] = "full"
        /\ flushedTime[b] # 0 => remote[b] = "full"

IInv ==
    /\ TypeOK
    /\ StampIsTime
    /\ ReplicatedBeforeRecorded
    /\ NoBlockLost

-----------------------------------------------------------------------------

LEMMA InitIInv == Init => IInv
  <1> SUFFICES ASSUME Init PROVE IInv
    OBVIOUS
  <1>1. TypeOK
    BY TimeAssumption, BoundAssumption, MarkerAssumption
       DEF Init, TypeOK, MarkerVal, Time, RemoteVal, FlushPc
  <1>2. StampIsTime /\ ReplicatedBeforeRecorded /\ NoBlockLost
    BY MarkerAssumption DEF Init, StampIsTime, ReplicatedBeforeRecorded, NoBlockLost, Time
  <1>3. QED
    BY <1>1, <1>2 DEF IInv

\* A failed copy never takes a full block out of the backend, and what it
\* leaves is a remote state.
LEMMA PartialCopyFacts ==
    ASSUME NEW r \in RemoteVal
    PROVE  /\ PartialCopy(r) \subseteq RemoteVal
           /\ r = "full" => PartialCopy(r) = {"full"}
  BY DEF PartialCopy, RemoteVal

\* The flushed time rediscovery loads is zero or a time of the marker.
LEMMA LoadedFacts ==
    ASSUME NEW m
    PROVE  /\ LoadedFlushedTime(m) \in 0..MaxTime
           /\ LoadedFlushedTime(m) # 0 => m \in Time
  BY TimeAssumption DEF LoadedFlushedTime, Time

LEMMA NextIInv == IInv /\ [Next]_vars => IInv'
  <1> SUFFICES ASSUME IInv, [Next]_vars PROVE IInv'
    OBVIOUS
  <1> USE TimeAssumption, BoundAssumption, MarkerAssumption
  <1> USE DEF IInv, TypeOK, Time, MarkerVal, RemoteVal, FlushPc
  <1>1. CASE Tick
    BY <1>1 DEF Tick, Time, StampIsTime, ReplicatedBeforeRecorded, NoBlockLost
  <1>2. ASSUME NEW b \in Blocks, CompleteBlock(b) PROVE IInv'
    BY <1>2 DEF CompleteBlock, StampIsTime, ReplicatedBeforeRecorded, NoBlockLost
  <1>3. ASSUME NEW b \in Blocks, CopyBlock(b) PROVE IInv'
    <2>1. TypeOK'
      BY <1>3 DEF CopyBlock, Time, RemoteVal, FlushPc
    <2>2. StampIsTime'
      BY <1>3 DEF CopyBlock, StampIsTime
    <2>3. ReplicatedBeforeRecorded' /\ NoBlockLost'
      BY <1>3 DEF CopyBlock, ReplicatedBeforeRecorded, NoBlockLost
    <2>4. QED
      BY <2>1, <2>2, <2>3
  <1>4. ASSUME NEW b \in Blocks, CopyFails(b) PROVE IInv'
    <2>1. PICK r \in PartialCopy(remote[b]) : remote' = [remote EXCEPT ![b] = r]
      BY <1>4 DEF CopyFails
    <2>2. r \in RemoteVal /\ (remote[b] = "full" => r = "full")
      BY <2>1, PartialCopyFacts
    <2>3. QED
      BY <1>4, <2>1, <2>2 DEF CopyFails, StampIsTime, ReplicatedBeforeRecorded, NoBlockLost
  <1>5. ASSUME NEW b \in Blocks, WriteMarker(b) PROVE IInv'
    <2>1. stamp[b] \in Time /\ remote[b] = "full"
      BY <1>5 DEF WriteMarker, StampIsTime, ReplicatedBeforeRecorded
    <2>2. QED
      BY <1>5, <2>1 DEF WriteMarker, StampIsTime, ReplicatedBeforeRecorded, NoBlockLost, MarkerVal, FlushPc
  <1>6. ASSUME NEW b \in Blocks, WriteMarkerFails(b) PROVE IInv'
    <2>1. PICK m \in {marker[b], Torn} : marker' = [marker EXCEPT ![b] = m]
      BY <1>6 DEF WriteMarkerFails
    <2>2. m \in MarkerVal /\ (m \in Time => remote[b] = "full")
      BY <2>1, MarkerAssumption DEF ReplicatedBeforeRecorded, MarkerVal, Time
    <2>3. QED
      BY <1>6, <2>1, <2>2 DEF WriteMarkerFails, StampIsTime, ReplicatedBeforeRecorded, NoBlockLost, FlushPc
  <1>7. ASSUME NEW b \in Blocks, StoreFlushed(b) PROVE IInv'
    <2>1. stamp[b] \in Time /\ remote[b] = "full"
      BY <1>7 DEF StoreFlushed, StampIsTime, ReplicatedBeforeRecorded
    <2>2. QED
      BY <1>7, <2>1 DEF StoreFlushed, StampIsTime, ReplicatedBeforeRecorded, NoBlockLost, Time, FlushPc
  <1>8. ASSUME NEW b \in Blocks, ClearFlushedBlocks(b) PROVE IInv'
    <2>1. remote[b] = "full"
      BY <1>8 DEF ClearFlushedBlocks, NeverFlushed, ReplicatedBeforeRecorded
    <2>2. CASE /\ localFiles' = [localFiles EXCEPT ![b] = FALSE]
               /\ marker' = [marker EXCEPT ![b] = NoMarker]
               /\ UNCHANGED failures
      BY <1>8, <2>1, <2>2 DEF ClearFlushedBlocks, StampIsTime, ReplicatedBeforeRecorded, NoBlockLost
    <2>3. CASE /\ failures < MaxFailures
               /\ failures' = failures + 1
               /\ UNCHANGED <<localFiles, marker>>
      BY <1>8, <2>3 DEF ClearFlushedBlocks, StampIsTime, ReplicatedBeforeRecorded, NoBlockLost
    <2>4. QED
      BY <1>8, <2>2, <2>3 DEF ClearFlushedBlocks
  <1>9. CASE Restart
    <2>1. PICK torn \in SUBSET {b \in Blocks : flush[b] = "copied"} :
             marker' = [b \in Blocks |-> IF b \in torn THEN Torn ELSE marker[b]]
      BY <1>9 DEF Restart
    <2>2. \A b \in Blocks : /\ marker'[b] \in MarkerVal
                            /\ marker'[b] \in Time => remote[b] = "full"
      BY <2>1, MarkerAssumption DEF MarkerVal, ReplicatedBeforeRecorded, Time
    <2>3. \A b \in Blocks : /\ flushedTime'[b] \in 0..MaxTime
                            /\ flushedTime'[b] # 0 => remote[b] = "full"
      BY <1>9, <2>2, LoadedFacts DEF Restart
    <2>4. TypeOK'
      BY <1>9, <2>2, <2>3 DEF Restart, FlushPc, MarkerVal
    <2>5. StampIsTime' /\ ReplicatedBeforeRecorded' /\ NoBlockLost'
      BY <1>9, <2>2, <2>3 DEF Restart, StampIsTime, ReplicatedBeforeRecorded, NoBlockLost
    <2>6. QED
      BY <2>4, <2>5
  <1>10. CASE UNCHANGED vars
    BY <1>10 DEF vars, StampIsTime, ReplicatedBeforeRecorded, NoBlockLost
  <1>11. QED
    BY <1>1, <1>2, <1>3, <1>4, <1>5, <1>6, <1>7, <1>8, <1>9, <1>10 DEF Next

-----------------------------------------------------------------------------

THEOREM IInvariant == Spec => []IInv
  BY InitIInv, NextIInv, PTL DEF Spec

\* Type correctness of the flush pipeline (TypeOK, checked by the runs).
THEOREM TypeCorrect == Spec => []TypeOK
  BY IInvariant, PTL DEF IInv

\* No completed block is ever lost, for any number of blocks, crashes and
\* failures (NoBlockLost, checked by the runs).
THEOREM BlocksNeverLost == Spec => []NoBlockLost
  BY IInvariant, PTL DEF IInv

-----------------------------------------------------------------------------
(* The flush pipeline implements BlockLifecycle.  The refinement needs one *)
(* more invariant: a block not created yet has left no trace, so creating *)
(* it is the lifecycle's Create step and a flush step always acts on a     *)
(* created block.                                                          *)

\* A block not yet created has no local files, nothing in the backend and
\* no flush operation.
Unborn ==
    \A b \in Blocks : b \notin created =>
        ~localFiles[b] /\ remote[b] = "none" /\ flush[b] = "none"

LEMMA InitUnborn == Init => Unborn
  BY DEF Init, Unborn

LEMMA NextUnborn == IInv /\ Unborn /\ [Next]_vars => Unborn'
  <1> SUFFICES ASSUME IInv, Unborn, [Next]_vars PROVE Unborn'
    OBVIOUS
  <1> USE DEF IInv, TypeOK
  <1>1. ASSUME NEW b \in Blocks, CompleteBlock(b) PROVE Unborn'
    BY <1>1 DEF CompleteBlock, Unborn
  <1>2. ASSUME NEW b \in Blocks, CopyBlock(b) PROVE Unborn'
    BY <1>2 DEF CopyBlock, Unborn
  <1>3. ASSUME NEW b \in Blocks, CopyFails(b) PROVE Unborn'
    <2>1. PICK r \in PartialCopy(remote[b]) : remote' = [remote EXCEPT ![b] = r]
      BY <1>3 DEF CopyFails
    <2>2. QED
      BY <1>3, <2>1 DEF CopyFails, Unborn
  <1>4. ASSUME NEW b \in Blocks, WriteMarker(b) \/ WriteMarkerFails(b) \/ StoreFlushed(b)
        PROVE Unborn'
    BY <1>4 DEF WriteMarker, WriteMarkerFails, StoreFlushed, Unborn
  <1>5. ASSUME NEW b \in Blocks, ClearFlushedBlocks(b) PROVE Unborn'
    BY <1>5 DEF ClearFlushedBlocks, Unborn
  <1>6. CASE Restart
    BY <1>6 DEF Restart, Unborn
  <1>7. CASE Tick \/ UNCHANGED vars
    BY <1>7 DEF Tick, vars, Unborn
  <1>8. QED
    BY <1>1, <1>2, <1>3, <1>4, <1>5, <1>6, <1>7 DEF Next

\* A step that leaves the copies of every block where they were is a
\* stutter of the lifecycle.
LEMMA ViewUnchanged ==
    UNCHANGED <<localFiles, remote, created>> => UNCHANGED LifecycleView
  BY DEF LifecycleView, LifecycleState

\* A block whose copies and creation are untouched keeps its lifecycle state.
LEMMA StateUnchangedAt ==
    ASSUME NEW c,
           localFiles'[c] = localFiles[c], remote'[c] = remote[c],
           (c \in created') <=> (c \in created)
    PROVE  LifecycleState(c)' = LifecycleState(c)
  BY DEF LifecycleState

\* A step that changes the lifecycle state of one block only is an EXCEPT
\* of the view.
LEMMA ViewUpdate ==
    ASSUME NEW b \in Blocks, NEW v,
           \A c \in Blocks \ {b} : LifecycleState(c)' = LifecycleState(c),
           LifecycleState(b)' = v
    PROVE  LifecycleView' = [LifecycleView EXCEPT ![b] = v]
  BY DEF LifecycleView

LEMMA InitRefined == Init => Lifecycle!Init
  BY DEF Init, Lifecycle!Init, LifecycleView, LifecycleState


\* Every step of the flush pipeline is a step of the lifecycle or leaves
\* every block's lifecycle state as it was.
LEMMA StepRefined ==
    IInv /\ Unborn /\ [Next]_vars => [Lifecycle!Next]_LifecycleView
  <1> SUFFICES ASSUME IInv, Unborn, [Next]_vars
               PROVE  [Lifecycle!Next]_LifecycleView
    OBVIOUS
  <1> USE DEF IInv, TypeOK
  <1>1. ASSUME NEW b \in Blocks, CompleteBlock(b) PROVE Lifecycle!Create(b)
    <2>1. b \notin created /\ ~localFiles[b] /\ remote[b] = "none"
      BY <1>1 DEF CompleteBlock, Unborn
    <2>2. LifecycleView[b] = "unborn"
      BY <2>1 DEF LifecycleView, LifecycleState
    <2>3. \A c \in Blocks \ {b} : LifecycleState(c)' = LifecycleState(c)
      BY <1>1, StateUnchangedAt DEF CompleteBlock
    <2>4. LifecycleState(b)' = "local"
      BY <1>1, <2>1 DEF CompleteBlock, LifecycleState
    <2>5. LifecycleView' = [LifecycleView EXCEPT ![b] = "local"]
      BY <2>3, <2>4, ViewUpdate
    <2>6. QED
      BY <2>2, <2>5 DEF Lifecycle!Create, Lifecycle!Move
  <1>2. ASSUME NEW b \in Blocks, CopyBlock(b) PROVE [Lifecycle!Next]_LifecycleView
    <2>1. CASE remote[b] = "full"
      <3>1. remote' = remote
        BY <1>2, <2>1 DEF CopyBlock
      <3>2. QED
        BY <1>2, <3>1, ViewUnchanged DEF CopyBlock
    <2>2. CASE remote[b] # "full"
      <3>1. b \in created /\ localFiles[b]
        BY <1>2, <2>2 DEF CopyBlock, Unborn, NoBlockLost
      <3>2. LifecycleView[b] = "local"
        BY <2>2, <3>1 DEF LifecycleView, LifecycleState
      <3>3. LifecycleView' = [LifecycleView EXCEPT ![b] = "both"]
        <4>1. \A c \in Blocks \ {b} : LifecycleState(c)' = LifecycleState(c)
          BY <1>2, StateUnchangedAt DEF CopyBlock
        <4>2. LifecycleState(b)' = "both"
          BY <1>2, <3>1 DEF CopyBlock, LifecycleState
        <4>3. QED
          BY <4>1, <4>2, ViewUpdate
      <3>4. Lifecycle!Replicate(b)
        BY <3>2, <3>3 DEF Lifecycle!Replicate, Lifecycle!Move
      <3>5. QED
        BY <3>4 DEF Lifecycle!Next
    <2>3. QED
      BY <2>1, <2>2
  <1>3. ASSUME NEW b \in Blocks, CopyFails(b) PROVE UNCHANGED LifecycleView
    <2>1. PICK r \in PartialCopy(remote[b]) : remote' = [remote EXCEPT ![b] = r]
      BY <1>3 DEF CopyFails
    <2>2. r \in RemoteVal /\ (remote[b] = "full" => r = "full")
      BY <2>1, PartialCopyFacts
    <2>3. CASE remote[b] = "full"
      BY <1>3, <2>1, <2>2, <2>3, ViewUnchanged DEF CopyFails
    <2>4. CASE remote[b] # "full"
      <3>1. b \in created /\ localFiles[b] /\ r # "full"
        BY <1>3, <2>1, <2>4 DEF CopyFails, Unborn, NoBlockLost, PartialCopy
      <3>2. QED
        BY <1>3, <2>1, <2>4, <3>1 DEF CopyFails, LifecycleView, LifecycleState
    <2>5. QED
      BY <2>3, <2>4
  <1>4. ASSUME NEW b \in Blocks, ClearFlushedBlocks(b) PROVE [Lifecycle!Next]_LifecycleView
    <2>1. remote[b] = "full" /\ b \in created
      BY <1>4 DEF ClearFlushedBlocks, NeverFlushed, ReplicatedBeforeRecorded, Unborn
    <2>2. CASE localFiles' = [localFiles EXCEPT ![b] = FALSE] /\ localFiles[b]
      <3>1. LifecycleView[b] = "both"
        BY <2>1, <2>2 DEF LifecycleView, LifecycleState
      <3>2. LifecycleView' = [LifecycleView EXCEPT ![b] = "remote"]
        <4>1. \A c \in Blocks \ {b} : LifecycleState(c)' = LifecycleState(c)
          BY <1>4, <2>2, StateUnchangedAt DEF ClearFlushedBlocks
        <4>2. LifecycleState(b)' = "remote"
          BY <1>4, <2>1, <2>2 DEF ClearFlushedBlocks, LifecycleState
        <4>3. QED
          BY <4>1, <4>2, ViewUpdate
      <3>3. Lifecycle!Release(b)
        BY <3>1, <3>2 DEF Lifecycle!Release, Lifecycle!Move
      <3>4. QED
        BY <3>3 DEF Lifecycle!Next
    <2>3. CASE localFiles' = [localFiles EXCEPT ![b] = FALSE] /\ ~localFiles[b]
      <3>1. localFiles' = localFiles
        BY <2>3
      <3>2. QED
        BY <1>4, <3>1, ViewUnchanged DEF ClearFlushedBlocks
    <2>4. CASE UNCHANGED localFiles
      BY <1>4, <2>4, ViewUnchanged DEF ClearFlushedBlocks
    <2>5. QED
      BY <1>4, <2>2, <2>3, <2>4 DEF ClearFlushedBlocks
  <1>5. CASE Tick \/ Restart \/ UNCHANGED vars
    BY <1>5, ViewUnchanged DEF Tick, Restart, vars
  <1>6. ASSUME NEW b \in Blocks, WriteMarker(b) \/ WriteMarkerFails(b) \/ StoreFlushed(b)
        PROVE UNCHANGED LifecycleView
    BY <1>6, ViewUnchanged DEF WriteMarker, WriteMarkerFails, StoreFlushed
  <1>7. QED
    BY <1>1, <1>2, <1>3, <1>4, <1>5, <1>6 DEF Next, Lifecycle!Next

\* The flush pipeline implements the block lifecycle for every number of
\* blocks, crashes and failures: copies, failures, crashes and clean-ups only
\* create, replicate or release blocks (ImplementsLifecycle, checked by the
\* runs).
THEOREM ImplementsBlockLifecycle == Spec => ImplementsLifecycle
  <1>1. Spec => [](IInv /\ Unborn)
    BY InitIInv, InitUnborn, NextIInv, NextUnborn, PTL DEF Spec
  <1>2. QED
    BY <1>1, InitRefined, StepRefined, PTL DEF Spec, ImplementsLifecycle, Lifecycle!Spec


-----------------------------------------------------------------------------
(* The atomic agrees with the marker.                                      *)

\* What keeps the in-memory flushed time equal to the marker: a flush in
\* progress only runs for a block whose atomic is still zero, the marker of
\* a "marked" block holds the stamp StoreFlushed will store, and a block
\* not yet created has a zero atomic and is not listed.
FlushInv ==
    \A b \in Blocks :
        /\ flush[b] # "none" => flushedTime[b] = 0
        /\ flush[b] = "marked" => marker[b] = stamp[b]
        /\ b \notin created => flushedTime[b] = 0 /\ b \notin completeBlocks

PInv == FlushInv /\ FlushedTimePersisted

LEMMA InitPInv == Init => PInv
  BY DEF Init, PInv, FlushInv, FlushedTimePersisted

LEMMA NextPInv == IInv /\ Unborn /\ PInv /\ [Next]_vars => PInv'
  <1> SUFFICES ASSUME IInv, Unborn, PInv, [Next]_vars PROVE PInv'
    OBVIOUS
  <1> USE DEF IInv, TypeOK, PInv
  <1>1. CASE Tick \/ UNCHANGED vars
    BY <1>1 DEF Tick, vars, FlushInv, FlushedTimePersisted, NeverFlushed
  <1>2. ASSUME NEW b \in Blocks, CompleteBlock(b) PROVE PInv'
    BY <1>2 DEF CompleteBlock, FlushInv, FlushedTimePersisted, NeverFlushed
  <1>3. ASSUME NEW b \in Blocks, CopyBlock(b) \/ CopyFails(b) PROVE PInv'
    BY <1>3 DEF CopyBlock, CopyFails, FlushInv, FlushedTimePersisted, NeverFlushed
  <1>4. ASSUME NEW b \in Blocks, WriteMarker(b) PROVE PInv'
    BY <1>4 DEF WriteMarker, FlushInv, FlushedTimePersisted, NeverFlushed
  <1>5. ASSUME NEW b \in Blocks, WriteMarkerFails(b) PROVE PInv'
    <2>1. PICK m \in {marker[b], Torn} : marker' = [marker EXCEPT ![b] = m]
      BY <1>5 DEF WriteMarkerFails
    <2>2. QED
      BY <1>5, <2>1 DEF WriteMarkerFails, FlushInv, FlushedTimePersisted, NeverFlushed
  <1>6. ASSUME NEW b \in Blocks, StoreFlushed(b) PROVE PInv'
    <2>1. b \in created /\ marker[b] = stamp[b]
      BY <1>6 DEF StoreFlushed, FlushInv, Unborn
    <2>2. FlushInv'
      BY <1>6, <2>1 DEF StoreFlushed, FlushInv
    <2>3. FlushedTimePersisted'
      BY <1>6, <2>1 DEF StoreFlushed, FlushedTimePersisted, NeverFlushed
    <2>4. QED
      BY <2>2, <2>3
  <1>7. ASSUME NEW b \in Blocks, ClearFlushedBlocks(b) PROVE PInv'
    BY <1>7 DEF ClearFlushedBlocks, FlushInv, FlushedTimePersisted, NeverFlushed
  <1>8. CASE Restart
    <2>1. PICK torn \in SUBSET {b \in Blocks : flush[b] = "copied"} :
             marker' = [b \in Blocks |-> IF b \in torn THEN Torn ELSE marker[b]]
      BY <1>8 DEF Restart
    <2>2. ASSUME NEW b \in Blocks PROVE
            /\ LoadedFlushedTime(marker'[b]) # 0 => marker'[b] = LoadedFlushedTime(marker'[b])
      BY DEF LoadedFlushedTime
    <2>3. FlushInv'
      BY <1>8, <2>1 DEF Restart, FlushInv, Unborn
    <2>4. FlushedTimePersisted'
      BY <1>8, <2>2 DEF Restart, FlushedTimePersisted, NeverFlushed
    <2>5. QED
      BY <2>3, <2>4
  <1>9. QED
    BY <1>1, <1>2, <1>3, <1>4, <1>5, <1>6, <1>7, <1>8 DEF Next

\* The flushed time the ingester holds for a listed block is always the
\* one in its marker (FlushedTimePersisted), through failed marker writes,
\* crashes that tear the marker and rediscovery: SetFlushed stores the
\* time it marshalled, and newLocalBlock loads what the marker holds.
THEOREM FlushedTimeMatchesMarker == Spec => []FlushedTimePersisted
  <1>1. Spec => [](IInv /\ Unborn /\ PInv)
    BY InitIInv, InitUnborn, InitPInv, NextIInv, NextUnborn, NextPInv, PTL DEF Spec
  <1>2. QED
    BY <1>1, PTL DEF PInv


-----------------------------------------------------------------------------
(* A flushed time never moves while the block is on disk.  FlushInv keeps  *)
(* every flush step away from a flushed block, so only rediscovery can     *)
(* change its atomic, and rediscovery reloads it from the marker.  The      *)
(* marker must hold the flushed time for every block on local disk, also   *)
(* one that a failed ClearFlushedBlocks took off completeBlocks (which     *)
(* FlushedTimePersisted does not cover).                                   *)

\* The marker of every block on local disk holds its non-zero flushed time.
MarkerHeld ==
    \A b \in Blocks :
        (localFiles[b] /\ flushedTime[b] # 0) => marker[b] = flushedTime[b]

LEMMA InitMarkerHeld == Init => MarkerHeld
  BY DEF Init, MarkerHeld

LEMMA NextMarkerHeld ==
    IInv /\ PInv /\ MarkerHeld /\ [Next]_vars => MarkerHeld'
  <1> SUFFICES ASSUME IInv, PInv, MarkerHeld, [Next]_vars PROVE MarkerHeld'
    OBVIOUS
  <1> USE DEF IInv, TypeOK, PInv
  <1>1. CASE Tick \/ UNCHANGED vars
    BY <1>1 DEF Tick, vars, MarkerHeld
  <1>2. ASSUME NEW b \in Blocks, CompleteBlock(b) PROVE MarkerHeld'
    BY <1>2 DEF CompleteBlock, FlushInv, MarkerHeld
  <1>3. ASSUME NEW b \in Blocks,
               \/ CopyBlock(b) \/ CopyFails(b) \/ WriteMarker(b)
               \/ WriteMarkerFails(b)
        PROVE MarkerHeld'
    <2>1. flushedTime[b] = 0 /\ UNCHANGED flushedTime
      BY <1>3 DEF CopyBlock, CopyFails, WriteMarker, WriteMarkerFails, FlushInv
    <2>2. \A c \in Blocks \ {b} : marker'[c] = marker[c] /\ localFiles'[c] = localFiles[c]
      BY <1>3 DEF CopyBlock, CopyFails, WriteMarker, WriteMarkerFails
    <2>3. QED
      BY <2>1, <2>2 DEF MarkerHeld
  <1>4. ASSUME NEW b \in Blocks, StoreFlushed(b) PROVE MarkerHeld'
    BY <1>4 DEF StoreFlushed, FlushInv, MarkerHeld
  <1>5. ASSUME NEW b \in Blocks, ClearFlushedBlocks(b) PROVE MarkerHeld'
    BY <1>5 DEF ClearFlushedBlocks, MarkerHeld
  <1>6. CASE Restart
    <2>1. PICK torn \in SUBSET {b \in Blocks : flush[b] = "copied"} :
             marker' = [b \in Blocks |-> IF b \in torn THEN Torn ELSE marker[b]]
      BY <1>6 DEF Restart
    <2>2. ASSUME NEW b \in Blocks PROVE
            LoadedFlushedTime(marker'[b]) # 0 => marker'[b] = LoadedFlushedTime(marker'[b])
      BY DEF LoadedFlushedTime
    <2>3. QED
      BY <1>6, <2>2 DEF Restart, MarkerHeld
  <1>7. QED
    BY <1>1, <1>2, <1>3, <1>4, <1>5, <1>6 DEF Next

\* One step keeps the flushed time of a flushed block on disk.
LEMMA FlushedTimeStep ==
    IInv /\ PInv /\ MarkerHeld /\ [Next]_vars =>
        \A b \in Blocks :
            (localFiles[b] /\ ~NeverFlushed(b)) => flushedTime'[b] = flushedTime[b]
  <1> SUFFICES ASSUME IInv, PInv, MarkerHeld, [Next]_vars,
                      NEW c \in Blocks, localFiles[c], flushedTime[c] # 0
               PROVE flushedTime'[c] = flushedTime[c]
    BY DEF NeverFlushed
  <1> USE DEF IInv, TypeOK, PInv
  <1>1. ASSUME NEW b \in Blocks, StoreFlushed(b) PROVE flushedTime'[c] = flushedTime[c]
    <2>1. b # c
      BY <1>1 DEF StoreFlushed, FlushInv
    <2>2. QED
      BY <1>1, <2>1 DEF StoreFlushed
  <1>2. CASE Restart
    <2>1. PICK torn \in SUBSET {b \in Blocks : flush[b] = "copied"} :
             marker' = [b \in Blocks |-> IF b \in torn THEN Torn ELSE marker[b]]
      BY <1>2 DEF Restart
    <2>2. c \notin torn
      BY <2>1 DEF FlushInv
    <2>3. marker'[c] = flushedTime[c] /\ flushedTime[c] \in Time
      BY <2>1, <2>2 DEF MarkerHeld, Time
    <2>4. QED
      BY <1>2, <2>3 DEF Restart, LoadedFlushedTime
  <1>3. QED
    BY <1>1, <1>2 DEF Next, vars, Tick, CompleteBlock, CopyBlock, CopyFails,
                      WriteMarker, WriteMarkerFails, ClearFlushedBlocks

\* Once a block's flush is recorded, no crash, failed marker write or retry
\* changes its flushed time while its files are on disk
\* (FlushedTimeStable, checked by the runs): newLocalBlock reloads exactly
\* the time SetFlushed stored, and no flush is queued for a flushed block.
THEOREM FlushedTimeNeverMoves == Spec => FlushedTimeStable
  <1>1. Spec => [](IInv /\ Unborn /\ PInv /\ MarkerHeld)
    BY InitIInv, InitUnborn, InitPInv, InitMarkerHeld, NextIInv, NextUnborn,
       NextPInv, NextMarkerHeld, PTL DEF Spec
  <1>2. QED
    BY <1>1, FlushedTimeStep, PTL DEF Spec, FlushedTimeStable

=============================================================================
