------------------------- MODULE MCProcessorUtil -------------------------
(* Model-checking instance of ProcessorUtil: two keys, a negative, a zero  *)
(* and two positive ratios, a string value, up to two attributes per list  *)
(* and up to two lists, so a key can match twice, in either list, and a   *)
(* usable ratio can be followed by an unusable one.                        *)
EXTENDS ProcessorUtil

MCDoubles == {-1, 0, 2, 4}
=============================================================================
