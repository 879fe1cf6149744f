-------------------------- MODULE MCContextReaders --------------------------
(* ContextReaders over an object of three bytes: offsets 0..2 and buffers  *)
(* of 1..3 bytes reach reads inside the object, reads running past its     *)
(* end, and failures after a partial fill.                                 *)
EXTENDS ContextReaders
=============================================================================
