--------------------------- MODULE BlockLifecycle ---------------------------
(***************************************************************************)
(* What the ingester promises about the durability of a complete block     *)
(* (spec.md 3 and 4.3): a block is created on local disk, becomes          *)
(* replicated when it is entirely in the remote backend, and only then may *)
(* its local copy be released.  No step ever takes a replicated block out  *)
(* of the backend, and a block is never anywhere else than on local disk   *)
(* or in the backend once created.                                         *)
(***************************************************************************)
CONSTANTS Blocks

VARIABLE blockState

\* "unborn":   not created yet
\* "local":    on local disk only
\* "both":     on local disk and entirely in the backend
\* "remote":   entirely in the backend, local copy released
BlockStates == {"unborn", "local", "both", "remote"}

TypeOK == blockState \in [Blocks -> BlockStates]

Init == blockState = [b \in Blocks |-> "unborn"]

\* A step of one block from one state to the next.
Move(b, from, to) ==
    /\ blockState[b] = from
    /\ blockState' = [blockState EXCEPT ![b] = to]

Create(b) == Move(b, "unborn", "local")

Replicate(b) == Move(b, "local", "both")

Release(b) == Move(b, "both", "remote")

Next == \E b \in Blocks : Create(b) \/ Replicate(b) \/ Release(b)

Spec == Init /\ [][Next]_blockState

\* A created block is eventually replicated.
FairSpec == Spec /\ \A b \in Blocks : WF_blockState(Replicate(b))

=============================================================================
