-------------------------- MODULE MCPaymentOrders ---------------------------
(* Model-checking instances of PaymentOrders. *)
EXTENDS PaymentOrders

(* A receipt of 2 is the exact price of any number of shop orders, among   *)
(* which the scan has to choose, and more than a license costs: only a     *)
(* verified submit takes it for that.                                      *)
Prices == [purpose \in Purposes |-> IF purpose = "shop" THEN 2 ELSE 1]
=============================================================================
