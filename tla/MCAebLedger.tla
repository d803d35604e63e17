---------------------------- MODULE MCAebLedger ----------------------------
(* Model-checking instances of AebLedger. *)
EXTENDS AebLedger
=============================================================================
