--------------------------- MODULE MCRetryWare ---------------------------
(* Model-checking instance of RetryWare: three tries allowed, and one      *)
(* status code of each class the loop distinguishes (2xx, 4xx, 5xx).       *)
EXTENDS RetryWare
=============================================================================
