----------------------------- MODULE MCPayouts ------------------------------
(***************************************************************************)
(* Model-checking instances of Payouts.  With stub payouts only the grants *)
(* are of interest: two accounts, three withdrawals, three hours of two    *)
(* days.  Otherwise one account asks within an hour for two withdrawals,   *)
(* granted automatically or too large for it, of which a run or an answer  *)
(* is lost, or for one of which both are.                                  *)
(***************************************************************************)
EXTENDS Payouts

OnChain == {[mode |-> "rpc", rpc |-> TRUE]}
AllDeployments == OnChain \cup {[mode |-> "record", rpc |-> FALSE], [mode |-> "stub", rpc |-> FALSE]}

Within ==
  IF PayoutMode = "stub"
  THEN /\ block = 0 /\ ~paused
       /\ \A w \in Ids : Amount(w) < 3
  ELSE /\ now = 0 /\ Len(withdrawals) <= 2 /\ Len(withdrawals) + aborts + lost <= 3
       /\ \A w \in Ids : Amount(w) \in {1, 3} /\ withdrawals[w].account = 1

MCSpec == Init /\ [][Next /\ Within']_vars /\ Fairness
=============================================================================
