------------------------ MODULE MCIdempotentAction -------------------------
(* Model-checking instances of IdempotentAction. *)
EXTENDS IdempotentAction
=============================================================================
