------------------------- MODULE MCIngesterFlush -------------------------
(* Model-checking instance of IngesterFlush: three blocks, a clock of four *)
(* seconds so a one-second CompleteBlockTimeout can expire after a flush,  *)
(* two crashes and two backend failures.  No symmetry: the run checks      *)
(* liveness.                                                               *)
EXTENDS IngesterFlush
=============================================================================
