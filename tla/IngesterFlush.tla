--------------------------- MODULE IngesterFlush ---------------------------
(***************************************************************************)
(* The ingester's flush pipeline for complete blocks of one tenant.        *)
(*                                                                         *)
(* A complete block lives on the ingester's local disk (a localBlock,      *)
(* modules/ingester/local_block.go).  A flush operation copies it to the   *)
(* remote backend (localBlock.Write: encoding.CopyBlock, then SetFlushed), *)
(* and SetFlushed persists a "flushed" marker object holding the flush     *)
(* time beside the block before publishing that time in the atomic         *)
(* flushedTime.  The instance later deletes local copies whose flushed     *)
(* time is older than CompleteBlockTimeout (ClearFlushedBlocks), and after *)
(* a crash it rediscovers the blocks on disk, reading each marker back     *)
(* (newLocalBlock) and re-enqueueing a flush for every block that has no   *)
(* readable marker.                                                        *)
(*                                                                         *)
(* The instance side (CompleteBlock, ClearFlushedBlocks, rediscovery) is   *)
(* not part of the repository's src/ tree and is modelled from spec.md     *)
(* 4.3 and 6; the localBlock side is translated from local_block.go.       *)
(***************************************************************************)
EXTENDS Integers, FiniteSets

CONSTANTS
    Blocks,               \* block IDs (UUIDs), model values
    MaxTime,              \* bound on the wall clock, in seconds
    CompleteBlockTimeout, \* how long a flushed block is kept locally
    MaxCrashes,           \* bound on ingester crashes/restarts
    MaxFailures,          \* bound on failed backend writes
    NoMarker,             \* the "flushed" object does not exist
    Torn                  \* the "flushed" object exists but does not parse

ASSUME TimeAssumption ==
    /\ MaxTime \in Nat \ {0}
    /\ CompleteBlockTimeout \in Nat

ASSUME BoundAssumption == MaxCrashes \in Nat /\ MaxFailures \in Nat

ASSUME MarkerAssumption ==
    /\ NoMarker \notin Nat
    /\ Torn \notin Nat
    /\ NoMarker # Torn

Time == 1..MaxTime

\* What the "flushed" object on local disk may hold: a marshalled time
\* (abstracted to its Unix second), nothing, or bytes that do not parse.
MarkerVal == Time \cup {NoMarker, Torn}

\* Where the flush operation of a block is (modelling flushQueue + Write):
\*   "none"   no flush operation pending
\*   "queued" Write pending: CopyBlock has not succeeded yet
\*   "copied" CopyBlock returned nil; SetFlushed is writing the marker
\*   "marked" the marker is written; flushedTime.Store is pending
FlushPc == {"none", "queued", "copied", "marked"}

\* State of a block's objects in the remote backend.
RemoteVal == {"none", "partial", "full"}

VARIABLES
    now,            \* wall clock (time.Now().Unix())
    localFiles,     \* localFiles[b]: the block's data objects are on local disk
    marker,         \* marker[b]: contents of the local "flushed" object
    remote,         \* remote[b]: the block's objects in the remote backend
    completeBlocks, \* the instance's in-memory list of complete localBlocks
    flushedTime,    \* flushedTime[b]: the localBlock's atomic Int64, 0 = never
    stamp,          \* stamp[b]: the time.Now() taken by a running SetFlushed
    flush,          \* flush[b] \in FlushPc
    crashes,        \* number of crashes so far
    failures,       \* number of failed backend writes so far
    created         \* history: every block ever completed

vars == <<now, localFiles, marker, remote, completeBlocks, flushedTime,
          stamp, flush, crashes, failures, created>>

TypeOK ==
    /\ now \in Time
    /\ localFiles \in [Blocks -> BOOLEAN]
    /\ marker \in [Blocks -> MarkerVal]
    /\ remote \in [Blocks -> RemoteVal]
    /\ completeBlocks \subseteq Blocks
    /\ flushedTime \in [Blocks -> 0..MaxTime]
    /\ stamp \in [Blocks -> 0..MaxTime]
    /\ flush \in [Blocks -> FlushPc]
    /\ crashes \in 0..MaxCrashes
    /\ failures \in 0..MaxFailures
    /\ created \subseteq Blocks

Init ==
    /\ now = 1
    /\ localFiles = [b \in Blocks |-> FALSE]
    /\ marker = [b \in Blocks |-> NoMarker]
    /\ remote = [b \in Blocks |-> "none"]
    /\ completeBlocks = {}
    /\ flushedTime = [b \in Blocks |-> 0]
    /\ stamp = [b \in Blocks |-> 0]
    /\ flush = [b \in Blocks |-> "none"]
    /\ crashes = 0
    /\ failures = 0
    /\ created = {}

-----------------------------------------------------------------------------
(* Helpers translated from local_block.go.                                 *)

\* Mutant: newLocalBlock stores flushedTime.Unix() even when UnmarshalText
\* failed, i.e. the Unix time of the zero time.Time, a negative number.
LoadedFlushedTimeIgnoringParseError(m) ==
    IF m \in Time THEN m ELSE IF m = Torn THEN -1 ELSE 0

\* newLocalBlock: the flushed time read back from the marker object; a
\* missing or unparsable object leaves the atomic at 0.
LoadedFlushedTime(m) == IF m \in Time THEN m ELSE 0

\* Mutant: FlushedTime returns time.Unix(0, ns) without testing ns == 0,
\* and the 1970 epoch it gives for 0 is not IsZero().
NeverFlushedEpoch(b) == FALSE

\* FlushedTime().IsZero(): the block was never flushed.
NeverFlushed(b) == flushedTime[b] = 0

-----------------------------------------------------------------------------
(* Actions.                                                                *)

\* The wall clock advances.
Tick ==
    /\ now < MaxTime
    /\ now' = now + 1
    /\ UNCHANGED <<localFiles, marker, remote, completeBlocks, flushedTime,
                   stamp, flush, crashes, failures, created>>

\* instance.CompleteBlock: a new complete block is written to local disk,
\* added to completeBlocks and a flush operation is enqueued for it.
\* Block IDs are never reused.
CompleteBlock(b) ==
    /\ b \notin created
    /\ created' = created \cup {b}
    /\ localFiles' = [localFiles EXCEPT ![b] = TRUE]
    /\ completeBlocks' = completeBlocks \cup {b}
    /\ flush' = [flush EXCEPT ![b] = "queued"]
    /\ UNCHANGED <<now, marker, remote, flushedTime, stamp, crashes, failures>>

\* localBlock.Write, first half: encoding.CopyBlock succeeds, every object
\* of the block is now in the remote backend, and SetFlushed starts by
\* taking time.Now().
CopyBlock(b) ==
    /\ flush[b] = "queued"
    /\ remote' = [remote EXCEPT ![b] = "full"]
    /\ stamp' = [stamp EXCEPT ![b] = now]
    /\ flush' = [flush EXCEPT ![b] = "copied"]
    /\ UNCHANGED <<now, localFiles, marker, completeBlocks, flushedTime,
                   crashes, failures, created>>

\* What a failed copy leaves of a block in the backend: objects are
\* overwritten whole, so a block already entirely there stays so.
PartialCopy(r) == IF r = "full" THEN {"full"} ELSE {r, "partial"}

\* Mutant: a failed re-copy of a block that is already entirely in the
\* backend leaves it partly overwritten.
CopyFailsOverwrites(b) ==
    /\ flush[b] = "queued"
    /\ failures < MaxFailures
    /\ failures' = failures + 1
    /\ remote' \in {[remote EXCEPT ![b] = r] : r \in {remote[b], "partial"}}
    /\ UNCHANGED <<now, localFiles, marker, completeBlocks, flushedTime,
                   stamp, flush, crashes, created>>

\* localBlock.Write: encoding.CopyBlock returns an error after copying some
\* of the objects (or none).  Write returns the error; the flush operation
\* stays queued and is retried.
CopyFails(b) ==
    /\ flush[b] = "queued"
    /\ failures < MaxFailures
    /\ failures' = failures + 1
    /\ remote' \in {[remote EXCEPT ![b] = r] : r \in PartialCopy(remote[b])}
    /\ UNCHANGED <<now, localFiles, marker, completeBlocks, flushedTime,
                   stamp, flush, crashes, created>>

\* SetFlushed: the marshalled time is written to the local "flushed" object.
WriteMarker(b) ==
    /\ flush[b] = "copied"
    /\ marker' = [marker EXCEPT ![b] = stamp[b]]
    /\ flush' = [flush EXCEPT ![b] = "marked"]
    /\ UNCHANGED <<now, localFiles, remote, completeBlocks, flushedTime,
                   stamp, crashes, failures, created>>

\* SetFlushed: writing the "flushed" object fails (the local writer may
\* have truncated it already).  SetFlushed and Write return the error,
\* flushedTime is not stored and the whole Write is retried.
WriteMarkerFails(b) ==
    /\ flush[b] = "copied"
    /\ failures < MaxFailures
    /\ failures' = failures + 1
    /\ marker' \in {[marker EXCEPT ![b] = m] : m \in {marker[b], Torn}}
    /\ flush' = [flush EXCEPT ![b] = "queued"]
    /\ UNCHANGED <<now, localFiles, remote, completeBlocks, flushedTime,
                   stamp, crashes, created>>

\* Mutant: the atomic is stored with a second time.Now() instead of the
\* time that was marshalled into the marker.
StoreFlushedNow(b) ==
    /\ flush[b] = "marked"
    /\ flushedTime' = [flushedTime EXCEPT ![b] = now]
    /\ flush' = [flush EXCEPT ![b] = "none"]
    /\ UNCHANGED <<now, localFiles, marker, remote, completeBlocks, stamp,
                   crashes, failures, created>>

\* SetFlushed: c.flushedTime.Store(flushedTime.Unix()); Write returns nil and
\* the flush operation is done.
StoreFlushed(b) ==
    /\ flush[b] = "marked"
    /\ flushedTime' = [flushedTime EXCEPT ![b] = stamp[b]]
    /\ flush' = [flush EXCEPT ![b] = "none"]
    /\ UNCHANGED <<now, localFiles, marker, remote, completeBlocks, stamp,
                   crashes, failures, created>>

\* instance.ClearFlushedBlocks: a complete block whose flushed time plus
\* CompleteBlockTimeout lies before now is removed from completeBlocks and
\* its local directory (data and marker) is cleared.  Clearing may fail,
\* which leaves the files on disk but the block out of the list.
ClearFlushedBlocks(b) ==
    /\ b \in completeBlocks
    /\ ~NeverFlushed(b)
    /\ flushedTime[b] + CompleteBlockTimeout < now
    /\ completeBlocks' = completeBlocks \ {b}
    /\ \/ /\ localFiles' = [localFiles EXCEPT ![b] = FALSE]
          /\ marker' = [marker EXCEPT ![b] = NoMarker]
          /\ UNCHANGED failures
       \/ /\ failures < MaxFailures
          /\ failures' = failures + 1
          /\ UNCHANGED <<localFiles, marker>>
    /\ UNCHANGED <<now, remote, flushedTime, stamp, flush, crashes, created>>

\* Mutant: rediscovery loads the blocks but enqueues no flush for those
\* without a readable marker.
RestartWithoutRequeue ==
    /\ crashes < MaxCrashes
    /\ crashes' = crashes + 1
    /\ \E torn \in SUBSET {b \in Blocks : flush[b] = "copied"} :
          marker' = [b \in Blocks |-> IF b \in torn THEN Torn ELSE marker[b]]
    /\ completeBlocks' = {b \in Blocks : localFiles[b]}
    /\ flushedTime' = [b \in Blocks |->
                         IF localFiles[b] THEN LoadedFlushedTime(marker'[b])
                                          ELSE 0]
    /\ flush' = [b \in Blocks |-> "none"]
    /\ stamp' = [b \in Blocks |-> 0]
    /\ UNCHANGED <<now, localFiles, remote, failures, created>>

\* Mutant: rediscovery enqueues a flush for every block on disk, without
\* testing its loaded flushed time.
RestartRequeueAll ==
    /\ crashes < MaxCrashes
    /\ crashes' = crashes + 1
    /\ \E torn \in SUBSET {b \in Blocks : flush[b] = "copied"} :
          marker' = [b \in Blocks |-> IF b \in torn THEN Torn ELSE marker[b]]
    /\ completeBlocks' = {b \in Blocks : localFiles[b]}
    /\ flushedTime' = [b \in Blocks |->
                         IF localFiles[b] THEN LoadedFlushedTime(marker'[b])
                                          ELSE 0]
    /\ flush' = [b \in Blocks |-> IF localFiles[b] THEN "queued" ELSE "none"]
    /\ stamp' = [b \in Blocks |-> 0]
    /\ UNCHANGED <<now, localFiles, remote, failures, created>>

\* The ingester crashes and restarts.  In-memory state is lost; a marker
\* write in flight may leave a torn object.  Rediscovery then builds a
\* localBlock (newLocalBlock) for every block on disk, loading its flushed
\* time from the marker, and enqueues a flush for every block whose flushed
\* time is zero.
Restart ==
    /\ crashes < MaxCrashes
    /\ crashes' = crashes + 1
    /\ \E torn \in SUBSET {b \in Blocks : flush[b] = "copied"} :
          marker' = [b \in Blocks |-> IF b \in torn THEN Torn ELSE marker[b]]
    /\ completeBlocks' = {b \in Blocks : localFiles[b]}
    /\ flushedTime' = [b \in Blocks |->
                         IF localFiles[b] THEN LoadedFlushedTime(marker'[b])
                                          ELSE 0]
    /\ flush' = [b \in Blocks |->
                   IF localFiles[b] /\ flushedTime'[b] = 0 THEN "queued"
                                                           ELSE "none"]
    /\ stamp' = [b \in Blocks |-> 0]
    /\ UNCHANGED <<now, localFiles, remote, failures, created>>

Next ==
    \/ Tick
    \/ Restart
    \/ \E b \in Blocks :
          \/ CompleteBlock(b)
          \/ CopyBlock(b)
          \/ CopyFails(b)
          \/ WriteMarker(b)
          \/ WriteMarkerFails(b)
          \/ StoreFlushed(b)
          \/ ClearFlushedBlocks(b)

\* The flush queue workers and the clock keep running; every step of a
\* pending flush operation is eventually taken.
Fairness ==
    /\ WF_vars(Tick)
    /\ \A b \in Blocks :
          /\ WF_vars(CopyBlock(b))
          /\ WF_vars(WriteMarker(b))
          /\ WF_vars(StoreFlushed(b))

Spec == Init /\ [][Next]_vars

FairSpec == Spec /\ Fairness

-----------------------------------------------------------------------------
(* Properties.                                                             *)

\* No block is lost: every block the ingester ever completed is still on
\* local disk or entirely in the remote backend, whatever crashes, failed
\* copies, failed marker writes and timed clean-ups happened (the order
\* CopyBlock-then-SetFlushed in localBlock.Write and the IsZero guard of
\* ClearFlushedBlocks are what keeps this true).
NoBlockLost ==
    \A b \in created : localFiles[b] \/ remote[b] = "full"

\* The flushed time the ingester holds in memory for a block is the one
\* persisted in its marker, so a restart (newLocalBlock) reproduces the
\* same clean-up deadline and the second flush's timestamp is the one
\* both record.
FlushedTimePersisted ==
    \A b \in completeBlocks :
          ~NeverFlushed(b) => marker[b] = flushedTime[b]

\* A block's flushed time, once set, is never changed while its files are on
\* local disk: no crash (newLocalBlock reloading the marker), failed marker
\* write or retried flush makes a flushed block look unflushed or gives it a
\* second SetFlushed stamp, so its ClearFlushedBlocks deadline never moves.
FlushedTimeStable ==
    [][\A b \in Blocks :
          (localFiles[b] /\ ~NeverFlushed(b)) => flushedTime'[b] = flushedTime[b]]_vars

\* Every completed block is eventually entirely in the remote backend with
\* its flush recorded (or its local copy gone): failed copies and crashes
\* only delay the flush, because failures re-queue it and rediscovery
\* re-enqueues every block without a readable marker.
EventuallyFlushed ==
    \A b \in Blocks :
          b \in created ~>
              (remote[b] = "full" /\ (~NeverFlushed(b) \/ ~localFiles[b]))


-----------------------------------------------------------------------------
(* Refinement of the block lifecycle (BlockLifecycle).                     *)

\* The lifecycle state of block b, from where its copies are.  A block that
\* is neither on local disk nor entirely in the backend once created maps
\* to no lifecycle state.
LifecycleState(b) ==
    CASE b \notin created                         -> "unborn"
      [] localFiles[b] /\ remote[b] # "full"      -> "local"
      [] localFiles[b] /\ remote[b] = "full"      -> "both"
      [] ~localFiles[b] /\ remote[b] = "full"     -> "remote"
      [] OTHER                                    -> "lost"

\* The refinement mapping: every block's lifecycle state.
LifecycleView == [b \in Blocks |-> LifecycleState(b)]

Lifecycle == INSTANCE BlockLifecycle WITH blockState <- LifecycleView

\* The flush pipeline implements the block lifecycle: copying, marking,
\* failed copies and marker writes, crashes and rediscovery, and timed
\* clean-ups only ever create a block locally, replicate it, or release
\* the local copy of a replicated block.
ImplementsLifecycle == Lifecycle!Spec

=============================================================================
