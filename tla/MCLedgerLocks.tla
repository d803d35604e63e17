--------------------------- MODULE MCLedgerLocks ---------------------------
(***************************************************************************)
(* Model-checking instance of LedgerLocks.  A behaviour has one of two     *)
(* scopes: two accounts and two settle runs that overlap on rows which are *)
(* mature at once, or one account whose rows mature while withdrawals are  *)
(* made, spends repeat and a settle run dies.                              *)
(***************************************************************************)
EXTENDS LedgerLocks

VARIABLE scope               \* the scope of this behaviour

WithinWide ==
  /\ now = 0 /\ crashes = 0 /\ attempts <= 1 /\ withdrawals = << >>
  /\ \A a \in Accounts : issued[a] <= 2
  /\ \A i \in DOMAIN records : records[i].unlockAt = 0

WithinDeep ==
  /\ \A a \in Accounts \ {1} : issued[a] = 0

MCInit == LInit /\ scope \in {"wide", "deep"}

MCNext ==
  /\ LNext
  /\ IF scope = "wide" THEN WithinWide' ELSE WithinDeep'
  /\ UNCHANGED scope

MCSpec == MCInit /\ [][MCNext]_<<allVars, scope>> /\ Fairness
=============================================================================
