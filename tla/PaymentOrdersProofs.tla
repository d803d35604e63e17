------------------------- MODULE PaymentOrdersProofs ------------------------
(***************************************************************************)
(* Proofs about payment orders and receipts, for every set of accounts,    *)
(* purposes and prices, any number of verified submits and every bound.    *)
(***************************************************************************)
EXTENDS PaymentOrders, Sums, TLAPS

OrderRow == [account : Accounts, purpose : Purposes, amount : Nat, sig : Nat,
             status : Open \cup {"FULFILLED"}, expiresAt : Nat]
ReceiptRow == [from : Accounts \cup {Stranger}, amount : PayAmounts]
DepositStatus == {"CREDITED", "IGNORED", "PAYMENT_MATCHED"}

(* What TypeOK leaves open. *)
ShapeInv ==
    /\ rpcEnabled \in BOOLEAN /\ now \in Nat /\ errors \in Nat
    /\ scan \in [pc : {"idle", "scanning"}, head : Nat, todo : SUBSET Nat, rows : {scan.rows},
                 paid : {scan.paid}, locked : SUBSET Nat]
    /\ \A sig \in DOMAIN scan.rows : scan.rows[sig] \in DepositStatus
    /\ scan.head <= Len(receipts)

(* Nothing is in flight before SOLANA_RPC_ENABLED, and what is not in      *)
(* flight holds nothing.                                                   *)
IdleInv ==
    /\ scan.pc = "idle" => DOMAIN scan.rows = {} /\ DOMAIN scan.paid = {} /\ scan.locked = {}
    /\ ~rpcEnabled => scan.pc = "idle" /\ \A c \in Clients : client[c].pc = "idle"
    /\ \A c \in Clients : client[c].pc # "idle" =>
          client[c].order \in DOMAIN orders /\ client[c].sig \in DOMAIN receipts

(* A locked order stays open, and one transaction has it. *)
LockInv ==
    /\ \A c \in Clients : client[c].pc # "idle" =>
          orders[client[c].order].status \in Open /\ client[c].order \notin scan.locked
    /\ \A c, d \in Clients : client[c].pc # "idle" /\ client[d].pc # "idle" /\ c # d =>
          client[c].order # client[d].order
    /\ \A o \in scan.locked : orders[o].status \in Open
    /\ DOMAIN scan.paid \subseteq scan.locked

(* An inserted signature is verified, and no other transaction or row has  *)
(* it.                                                                     *)
InsertInv ==
    /\ \A c \in Clients : client[c].pc = "inserted" =>
          /\ Verified(client[c].order, client[c].sig)
          /\ client[c].sig \notin DOMAIN deposits
          /\ client[c].sig \notin DOMAIN scan.rows
    /\ \A c, d \in Clients : client[c].pc = "inserted" /\ client[d].pc = "inserted" /\ c # d =>
          client[c].sig # client[d].sig

(* The scan writes new rows, one for each receipt it has seen, and matches *)
(* an order with a receipt that pays for it and that no other order names. *)
RowsInv ==
    /\ \A sig \in DOMAIN scan.rows : sig \notin DOMAIN deposits /\ sig \notin scan.todo
    /\ \A o \in DOMAIN scan.paid :
          /\ scan.paid[o] \in DOMAIN scan.rows /\ scan.rows[scan.paid[o]] = "PAYMENT_MATCHED"
          /\ Verified(o, scan.paid[o])
          /\ \A p \in DOMAIN orders : p # o => orders[p].sig # scan.paid[o]
          /\ \A p \in DOMAIN scan.paid : scan.paid[p] = scan.paid[o] => p = o

(* tx_signature is unique among orders. *)
SigInv ==
    \A o, p \in DOMAIN orders : orders[o].sig = orders[p].sig => o = p \/ orders[o].sig = NoSig

(* What the scan has still to look at reaches down to the cursor. *)
CoverInv ==
    scan.pc = "scanning" =>
        \A sig \in 1..scan.head : sig \in scan.todo \/ sig \in DOMAIN scan.rows \/ sig \in DOMAIN deposits

IInv ==
    /\ TypeOK /\ ShapeInv /\ IdleInv /\ LockInv /\ InsertInv /\ RowsInv /\ SigInv /\ CoverInv
    /\ FulfilledIsPaid /\ DeliveredOnce /\ CursorSkipsNothing

-----------------------------------------------------------------------------
(* A bounded nonempty set of naturals has a greatest element, and Max and  *)
(* Min of the library name an element of the set.                          *)
LEMMA MinMaxIn ==
    ASSUME NEW S \in SUBSET Nat, S # {}
    PROVE  /\ Min(S) \in S
           /\ \A n \in Nat : (\A x \in S : x <= n) => Max(S) \in S
<1>1. \E x \in S : \A y \in S : x <= y
    BY LeastNumber
<1>2. Min(S) \in S
    BY <1>1 DEF Min
<1>3. ASSUME NEW n \in Nat, \A x \in S : x <= n PROVE Max(S) \in S
  <2>. DEFINE T == {n - x : x \in S}
  <2>1. T \in SUBSET Nat /\ T # {}
    <3>1. \A x \in S : x \in Nat /\ n - x \in Nat
        BY <1>3
    <3>2. T # {}
        OBVIOUS
    <3>. QED
        BY <3>1, <3>2
  <2>2. PICK t \in T : \A u \in T : t <= u
      BY <2>1, LeastNumber
  <2>3. PICK x \in S : t = n - x
      BY <2>2
  <2>4. \A y \in S : n - x <= n - y
      BY <2>2, <2>3
  <2>5. \A y \in S : x >= y
      BY <1>3, <2>4
  <2>. QED
      BY <2>5 DEF Max
<1>. QED
    BY <1>2, <1>3

(* Orders and receipts are numbered from one, and their rows are typed. *)
LEMMA TableFacts ==
    ASSUME TypeOK
    PROVE  /\ orders \in Seq(OrderRow) /\ Len(orders) \in Nat /\ DOMAIN orders = 1..Len(orders)
           /\ \A o \in DOMAIN orders : orders[o] \in OrderRow
           /\ receipts \in Seq(ReceiptRow) /\ Len(receipts) \in Nat /\ DOMAIN receipts = 1..Len(receipts)
           /\ \A sig \in DOMAIN receipts : receipts[sig] \in ReceiptRow
<1>1. orders \in Seq(OrderRow) /\ receipts \in Seq(ReceiptRow)
    BY DEF TypeOK, OrderRow, ReceiptRow
<1>. QED
    BY <1>1

(* Nothing has happened yet. *)
LEMMA InitIInv == Init => IInv
<1>. SUFFICES ASSUME Init PROVE IInv
    OBVIOUS
<1>. USE DEF Init
<1>1. /\ DOMAIN orders = {} /\ DOMAIN deposits = {} /\ DOMAIN receipts = {} /\ Len(receipts) = 0
      /\ orders \in Seq(OrderRow) /\ receipts \in Seq(ReceiptRow)
    OBVIOUS
<1>2. /\ scan.pc = "idle" /\ scan.head = 0 /\ scan.todo = {} /\ DOMAIN scan.rows = {}
      /\ DOMAIN scan.paid = {} /\ scan.locked = {}
    BY DEF IdleScan
<1>3. \A c \in Clients : client[c].pc = "idle"
    BY DEF IdleClient
<1>4. TypeOK
  <2>1. grants \in [DOMAIN orders -> Nat]
      BY <1>1
  <2>2. client \in [Clients -> [pc : {"idle", "locked", "inserted"},
                               order : DOMAIN orders \cup {NoOrder}, sig : 0..Len(receipts)]]
      BY <1>1 DEF IdleClient, NoSig
  <2>. QED
      BY <1>1, <1>2, <2>1, <2>2 DEF TypeOK, OrderRow, ReceiptRow, NoSig
<1>5. ShapeInv
  <2>1. scan \in [pc : {"idle", "scanning"}, head : Nat, todo : SUBSET Nat, rows : {scan.rows},
                 paid : {scan.paid}, locked : SUBSET Nat]
      BY DEF IdleScan
  <2>2. rpcEnabled \in BOOLEAN
      BY OrdersAssumption
  <2>. QED
      BY <1>1, <1>2, <2>1, <2>2 DEF ShapeInv
<1>6. IdleInv /\ LockInv /\ InsertInv /\ RowsInv /\ SigInv /\ CoverInv
    BY <1>1, <1>2, <1>3 DEF IdleInv, LockInv, InsertInv, RowsInv, SigInv, CoverInv
<1>7. FulfilledIsPaid /\ DeliveredOnce /\ CursorSkipsNothing
    BY <1>1 DEF FulfilledIsPaid, DeliveredOnce, CursorSkipsNothing, Fulfilled, NoSig
<1>. QED
    BY <1>4, <1>5, <1>6, <1>7 DEF IInv

-----------------------------------------------------------------------------
(* An order that is created is open, names no receipt and is locked by     *)
(* nobody.                                                                 *)
LEMMA CreateStep ==
    ASSUME IInv, NEW a \in Accounts, NEW purpose \in Purposes, CreateOrder(a, purpose)
    PROVE  IInv'
<1>. DEFINE row == [account |-> a, purpose |-> purpose, amount |-> Price[purpose],
                    status |-> "PENDING_PAYMENT", sig |-> NoSig, expiresAt |-> now + Timeout]
            n == Len(orders) + 1
<1>. USE DEF IInv
<1>1. /\ orders' = Append(orders, row) /\ grants' = Append(grants, 0)
      /\ UNCHANGED <<byHand, deposits, cursor, receipts, rpcEnabled, client, scan, broken, now, errors>>
    BY DEF CreateOrder
<1>2. row \in OrderRow /\ row.status = "PENDING_PAYMENT" /\ row.sig = NoSig
    BY OrdersAssumption DEF OrderRow, NoSig, Open, ShapeInv
<1>. HIDE DEF row
<1>3. orders \in Seq(OrderRow) /\ Len(orders) \in Nat /\ DOMAIN orders = 1..Len(orders)
    BY TableFacts
<1>4. /\ orders' \in Seq(OrderRow) /\ DOMAIN orders' = DOMAIN orders \cup {n} /\ n \notin DOMAIN orders
      /\ \A o \in DOMAIN orders : orders'[o] = orders[o]
      /\ orders'[n] = row
    BY <1>1, <1>2, <1>3
<1>5. /\ grants' \in [DOMAIN orders' -> Nat] /\ grants'[n] = 0
      /\ \A o \in DOMAIN orders : grants'[o] = grants[o]
  <2>1. grants \in [1..Len(orders) -> Nat]
      BY <1>3 DEF TypeOK
  <2>2. grants \in Seq(Nat) /\ Len(grants) = Len(orders)
      BY <1>3, <2>1
  <2>3. Append(grants, 0) \in Seq(Nat) /\ Len(Append(grants, 0)) = n
      BY <1>3, <2>2
  <2>4. \A q \in Seq(Nat) : q \in [1..Len(q) -> Nat]
      OBVIOUS
  <2>5. DOMAIN orders' = 1..n
      BY <1>3, <1>4
  <2>6. grants' \in [DOMAIN orders' -> Nat]
      BY <1>1, <2>3, <2>4, <2>5
  <2>7. grants'[n] = 0
      BY <1>1, <2>2
  <2>8. \A o \in DOMAIN orders : grants'[o] = grants[o]
      BY <1>1, <1>3, <2>2
  <2>. QED
      BY <2>6, <2>7, <2>8
<1>. HIDE DEF n
<1>6. /\ DOMAIN scan.paid \cup scan.locked \cup broken \cup byHand \subseteq DOMAIN orders
      /\ \A c \in Clients : client[c].pc # "idle" => client[c].order \in DOMAIN orders
    BY DEF TypeOK, IdleInv
<1>7. TypeOK'
  <2>1. client' \in [Clients -> [pc : {"idle", "locked", "inserted"},
                                 order : DOMAIN orders' \cup {NoOrder}, sig : 0..Len(receipts')]]
      BY <1>1, <1>4 DEF TypeOK
  <2>. QED
      BY <1>1, <1>4, <1>5, <2>1 DEF TypeOK, OrderRow
<1>8. ShapeInv'
    BY <1>1 DEF ShapeInv
<1>9. IdleInv'
    BY <1>1, <1>4 DEF IdleInv
<1>10. LockInv'
    BY <1>1, <1>4, <1>6 DEF LockInv
<1>11. \A o \in DOMAIN orders : \A sig : Verified(o, sig)' <=> Verified(o, sig)
    BY <1>1, <1>4 DEF Verified
<1>12. InsertInv'
  <2>1. \A c \in Clients : client[c].pc = "inserted" => client[c].order \in DOMAIN orders
      BY <1>6
  <2>. QED
      BY <1>1, <1>11, <2>1 DEF InsertInv
<1>13. RowsInv'
  <2>1. \A sig \in DOMAIN scan.rows : sig # NoSig
      BY TableFacts DEF TypeOK, NoSig
  <2>2. \A o \in DOMAIN scan.paid : o \in DOMAIN orders /\ scan.paid[o] \in DOMAIN scan.rows
      BY <1>6 DEF RowsInv
  <2>3. \A o \in DOMAIN scan.paid : \A p \in DOMAIN orders' : p # o => orders'[p].sig # scan.paid[o]
      BY <1>2, <1>4, <2>1, <2>2 DEF RowsInv
  <2>4. \A o \in DOMAIN scan.paid : Verified(o, scan.paid[o])'
      BY <1>1, <1>4, <2>2 DEF RowsInv, Verified
  <2>. QED
      BY <1>1, <2>3, <2>4 DEF RowsInv
<1>14. SigInv'
    BY <1>2, <1>4 DEF SigInv
<1>15. CoverInv' /\ CursorSkipsNothing'
    BY <1>1 DEF CoverInv, CursorSkipsNothing
<1>16. Fulfilled' = Fulfilled
    BY <1>2, <1>4 DEF Fulfilled
<1>17. FulfilledIsPaid'
  <2>1. Fulfilled \subseteq DOMAIN orders
      BY DEF Fulfilled
  <2>. QED
      BY <1>1, <1>4, <1>16, <2>1 DEF FulfilledIsPaid
<1>18. DeliveredOnce'
  <2>1. n \notin Fulfilled
      BY <1>4 DEF Fulfilled
  <2>. QED
      BY <1>4, <1>5, <1>16, <2>1 DEF DeliveredOnce
<1>. QED
    BY <1>7, <1>8, <1>9, <1>10, <1>12, <1>13, <1>14, <1>15, <1>17, <1>18

(* A transfer adds a receipt that no row and no transaction has seen. *)
LEMMA PayStep ==
    ASSUME IInv, NEW payer \in Accounts \cup {Stranger}, NEW amount \in PayAmounts, Pay(payer, amount)
    PROVE  IInv'
<1>. DEFINE row == [from |-> payer, amount |-> amount]
<1>. USE DEF IInv
<1>1. /\ receipts' = Append(receipts, row)
      /\ UNCHANGED <<orders, deposits, cursor, rpcEnabled, client, scan, broken, now, errors, grants, byHand>>
    BY DEF Pay, ghosts
<1>2. row \in ReceiptRow
    BY DEF ReceiptRow
<1>. HIDE DEF row
<1>3. receipts \in Seq(ReceiptRow) /\ Len(receipts) \in Nat /\ DOMAIN receipts = 1..Len(receipts)
    BY TableFacts
<1>4. /\ receipts' \in Seq(ReceiptRow) /\ Len(receipts') = Len(receipts) + 1
      /\ DOMAIN receipts \subseteq DOMAIN receipts'
      /\ \A sig \in DOMAIN receipts : receipts'[sig] = receipts[sig]
    BY <1>1, <1>2, <1>3
<1>5. TypeOK'
  <2>1. 0..Len(receipts) \subseteq 0..Len(receipts')
      BY <1>3, <1>4
  <2>2. client' \in [Clients -> [pc : {"idle", "locked", "inserted"},
                                 order : DOMAIN orders' \cup {NoOrder}, sig : 0..Len(receipts')]]
      BY <1>1, <2>1 DEF TypeOK
  <2>. QED
      BY <1>1, <1>4, <2>1, <2>2 DEF TypeOK, ReceiptRow
<1>6. ShapeInv'
  <2>1. scan.head <= Len(receipts) + 1
      BY <1>3 DEF ShapeInv
  <2>. QED
      BY <1>1, <1>4, <2>1 DEF ShapeInv
<1>7. IdleInv'
    BY <1>1, <1>4 DEF IdleInv
<1>8. \A sig \in DOMAIN receipts : \A o : Verified(o, sig)' <=> Verified(o, sig)
    BY <1>1, <1>4 DEF Verified
<1>9. InsertInv'
  <2>1. \A c \in Clients : client[c].pc = "inserted" => client[c].sig \in DOMAIN receipts
      BY DEF IdleInv
  <2>. QED
      BY <1>1, <1>8, <2>1 DEF InsertInv
<1>10. RowsInv'
  <2>1. \A o \in DOMAIN scan.paid : scan.paid[o] \in DOMAIN receipts
      BY DEF RowsInv, TypeOK
  <2>. QED
      BY <1>1, <1>8, <2>1 DEF RowsInv
<1>11. LockInv' /\ SigInv' /\ CoverInv' /\ DeliveredOnce' /\ CursorSkipsNothing'
    BY <1>1 DEF LockInv, SigInv, CoverInv, DeliveredOnce, CursorSkipsNothing, Fulfilled
<1>12. FulfilledIsPaid'
  <2>1. \A o \in Fulfilled \ byHand : orders[o].sig \in DOMAIN receipts
      BY DEF FulfilledIsPaid, TypeOK
  <2>. QED
      BY <1>1, <1>4, <2>1 DEF FulfilledIsPaid, Fulfilled
<1>. QED
    BY <1>5, <1>6, <1>7, <1>9, <1>10, <1>11, <1>12

(* Steps that move no order, row, receipt or transaction: what breaks, the *)
(* clock, the restart with RPC, and the empty page that resets the cursor. *)
LEMMA QuietStep ==
    ASSUME IInv, UNCHANGED <<orders, deposits, receipts, client, scan, grants, byHand>>,
           rpcEnabled' \in BOOLEAN, rpcEnabled => rpcEnabled', now' \in Nat, errors' \in Nat,
           broken' \subseteq DOMAIN orders, cursor' \in {cursor, NoSig}
    PROVE  IInv'
<1>. USE DEF IInv
<1>1. cursor' \in 0..Len(receipts)
    BY TableFacts DEF TypeOK, NoSig
<1>2. TypeOK'
    BY <1>1 DEF TypeOK
<1>3. ShapeInv'
    BY DEF ShapeInv
<1>4. IdleInv'
    BY DEF IdleInv
<1>5. InsertInv' /\ RowsInv'
    BY DEF InsertInv, RowsInv, Verified
<1>6. LockInv' /\ SigInv' /\ CoverInv' /\ DeliveredOnce' /\ FulfilledIsPaid'
    BY DEF LockInv, SigInv, CoverInv, DeliveredOnce, FulfilledIsPaid, Fulfilled
<1>7. CursorSkipsNothing'
    BY DEF CursorSkipsNothing, NoSig
<1>. QED
    BY <1>2, <1>3, <1>4, <1>5, <1>6, <1>7

LEMMA QuietSteps ==
    ASSUME IInv, (\E o \in DOMAIN orders : Break(o)) \/ EnableRpc \/ Tick \/ ScanEmpty
    PROVE  IInv'
<1>. USE DEF IInv, ghosts
<1>1. CASE \E o \in DOMAIN orders : Break(o)
  <2>1. broken' \subseteq DOMAIN orders
      BY <1>1 DEF Break, TypeOK
  <2>. QED
      BY <1>1, <2>1, QuietStep DEF Break, ShapeInv
<1>2. CASE EnableRpc
    BY <1>2, QuietStep DEF EnableRpc, ShapeInv, TypeOK
<1>3. CASE Tick
    BY <1>3, QuietStep DEF Tick, ShapeInv, TypeOK
<1>4. CASE ScanEmpty
    BY <1>4, QuietStep DEF ScanEmpty, ShapeInv, TypeOK
<1>. QED
    BY <1>1, <1>2, <1>3, <1>4

-----------------------------------------------------------------------------
(* A sequence with one element replaced. *)
LEMMA SeqUpdated ==
    ASSUME NEW S, NEW s \in Seq(S), NEW i \in DOMAIN s, NEW v \in S, NEW q, q = [s EXCEPT ![i] = v]
    PROVE  /\ q \in Seq(S) /\ DOMAIN q = DOMAIN s /\ q[i] = v
           /\ \A j \in DOMAIN s : j # i => q[j] = s[j]
<1>1. q \in Seq(S) /\ DOMAIN q = DOMAIN s
    OBVIOUS
<1>. QED
    BY <1>1

(* An update of one order's status and signature. *)
Updated(o, status, sig) == [orders EXCEPT ![o].status = status, ![o].sig = sig]

LEMMA OrderUpdated ==
    ASSUME TypeOK, NEW o \in DOMAIN orders, NEW status \in Open \cup {"FULFILLED"}, NEW sig \in Nat,
           orders' = Updated(o, status, sig)
    PROVE  /\ orders' \in Seq(OrderRow) /\ DOMAIN orders' = DOMAIN orders
           /\ \A p \in DOMAIN orders : p # o => orders'[p] = orders[p]
           /\ orders'[o].status = status /\ orders'[o].sig = sig
           /\ \A p \in DOMAIN orders : /\ orders'[p].account = orders[p].account
                                       /\ orders'[p].amount = orders[p].amount
<1>1. orders \in Seq(OrderRow) /\ Len(orders) \in Nat /\ DOMAIN orders = 1..Len(orders)
    BY TableFacts
<1>2. orders[o] \in OrderRow
    BY TableFacts
<1>. DEFINE row == [orders[o] EXCEPT !.status = status, !.sig = sig]
<1>3. /\ row \in OrderRow /\ row.status = status /\ row.sig = sig
      /\ row.account = orders[o].account /\ row.amount = orders[o].amount
    BY <1>2 DEF OrderRow
<1>4. orders' = [orders EXCEPT ![o] = row]
    BY DEF Updated
<1>. HIDE DEF row
<1>5. /\ orders' \in Seq(OrderRow) /\ DOMAIN orders' = DOMAIN orders /\ orders'[o] = row
      /\ \A p \in DOMAIN orders : p # o => orders'[p] = orders[p]
    BY <1>1, <1>3, <1>4, SeqUpdated
<1>. QED
    BY <1>3, <1>5

(* Without RPC nothing is in flight, and the signature is unused. *)
LEMMA SubmitUnverifiedStep ==
    ASSUME IInv, NEW o \in DOMAIN orders, NEW sig \in DOMAIN receipts, SubmitUnverified(o, sig)
    PROVE  IInv'
<1>. USE DEF IInv
<1>1. /\ orders' = [orders EXCEPT ![o].status = "SUBMITTED", ![o].sig = sig]
      /\ UNCHANGED <<deposits, cursor, receipts, rpcEnabled, client, scan, broken, now, errors, grants, byHand>>
      /\ ~rpcEnabled /\ orders[o].status \in Open
      /\ \A p \in DOMAIN orders \ {o} : orders[p].sig # sig
    BY DEF SubmitUnverified, ghosts
<1>2. /\ scan.pc = "idle" /\ DOMAIN scan.paid = {} /\ DOMAIN scan.rows = {} /\ scan.locked = {}
      /\ \A c \in Clients : client[c].pc = "idle"
    BY <1>1 DEF IdleInv
<1>3. sig \in Nat
    BY TableFacts
<1>4. /\ orders' \in Seq(OrderRow) /\ DOMAIN orders' = DOMAIN orders
      /\ \A p \in DOMAIN orders : p # o => orders'[p] = orders[p]
      /\ orders'[o].status = "SUBMITTED" /\ orders'[o].sig = sig
  <2>1. "SUBMITTED" \in Open \cup {"FULFILLED"} /\ TypeOK
      BY DEF Open
  <2>2. orders' = Updated(o, "SUBMITTED", sig)
      BY <1>1 DEF Updated
  <2>. QED
      BY <1>3, <2>1, <2>2, OrderUpdated
<1>5. TypeOK'
    BY <1>1, <1>4 DEF TypeOK, OrderRow
<1>6. ShapeInv'
    BY <1>1 DEF ShapeInv
<1>7. IdleInv' /\ LockInv' /\ InsertInv' /\ RowsInv' /\ CoverInv'
    BY <1>1, <1>2 DEF IdleInv, LockInv, InsertInv, RowsInv, CoverInv
<1>8. SigInv'
    BY <1>1, <1>4 DEF SigInv
<1>9. Fulfilled' = Fulfilled /\ o \notin Fulfilled
    BY <1>1, <1>4 DEF Fulfilled, Open
<1>10. FulfilledIsPaid'
  <2>1. Fulfilled \subseteq DOMAIN orders \ {o}
      BY <1>9 DEF Fulfilled
  <2>. QED
      BY <1>1, <1>4, <1>9, <2>1 DEF FulfilledIsPaid
<1>11. DeliveredOnce'
    BY <1>1, <1>4, <1>9 DEF DeliveredOnce
<1>12. CursorSkipsNothing'
    BY <1>1 DEF CursorSkipsNothing
<1>. QED
    BY <1>5, <1>6, <1>7, <1>8, <1>10, <1>11, <1>12

(* An order confirmed by hand is locked by nobody, and keeps its signature. *)
LEMMA ConfirmStep ==
    ASSUME IInv, NEW o \in DOMAIN orders, ConfirmPaymentOrder(o)
    PROVE  IInv'
<1>. USE DEF IInv
<1>1. /\ orders' = [orders EXCEPT ![o].status = "FULFILLED"]
      /\ grants' = [grants EXCEPT ![o] = @ + 1] /\ byHand' = byHand \cup {o}
      /\ UNCHANGED <<deposits, cursor, receipts, rpcEnabled, client, scan, broken, now, errors>>
      /\ o \notin LockedByClients \cup scan.locked /\ orders[o].status = "SUBMITTED"
    BY DEF ConfirmPaymentOrder
<1>2. \A c \in Clients : client[c].pc # "idle" => client[c].order # o
    BY <1>1 DEF LockedByClients
<1>3. /\ orders \in Seq(OrderRow) /\ Len(orders) \in Nat /\ DOMAIN orders = 1..Len(orders)
      /\ orders[o] \in OrderRow
    BY TableFacts
<1>. DEFINE row == [orders[o] EXCEPT !.status = "FULFILLED"]
<1>4. /\ row \in OrderRow /\ row.status = "FULFILLED" /\ row.sig = orders[o].sig
      /\ row.account = orders[o].account /\ row.amount = orders[o].amount
    BY <1>3 DEF OrderRow
<1>5. orders' = [orders EXCEPT ![o] = row]
    BY <1>1
<1>. HIDE DEF row
<1>6. /\ orders' \in Seq(OrderRow) /\ DOMAIN orders' = DOMAIN orders
      /\ \A p \in DOMAIN orders : p # o => orders'[p] = orders[p]
      /\ orders'[o].status = "FULFILLED"
      /\ \A p \in DOMAIN orders : /\ orders'[p].sig = orders[p].sig
                                  /\ orders'[p].account = orders[p].account
                                  /\ orders'[p].amount = orders[p].amount
  <2>1. orders' \in Seq(OrderRow) /\ DOMAIN orders' = DOMAIN orders
      BY <1>3, <1>4, <1>5
  <2>. QED
      BY <1>3, <1>4, <1>5, <2>1
<1>7. /\ grants' \in [DOMAIN orders -> Nat] /\ grants'[o] = grants[o] + 1
      /\ \A p \in DOMAIN orders : p # o => grants'[p] = grants[p]
    BY <1>1 DEF TypeOK
<1>8. TypeOK'
    BY <1>1, <1>6, <1>7 DEF TypeOK, OrderRow
<1>9. ShapeInv' /\ CoverInv' /\ CursorSkipsNothing'
    BY <1>1 DEF ShapeInv, CoverInv, CursorSkipsNothing
<1>10. IdleInv'
    BY <1>1, <1>6 DEF IdleInv
<1>11. LockInv'
  <2>1. \A c \in Clients : client[c].pc # "idle" => client[c].order \in DOMAIN orders
      BY DEF IdleInv
  <2>2. scan.locked \subseteq DOMAIN orders
      BY DEF TypeOK
  <2>. QED
      BY <1>1, <1>2, <1>6, <2>1, <2>2 DEF LockInv
<1>12. \A p \in DOMAIN orders : \A sig : Verified(p, sig)' <=> Verified(p, sig)
    BY <1>1, <1>6 DEF Verified
<1>13. InsertInv'
  <2>1. \A c \in Clients : client[c].pc = "inserted" => client[c].order \in DOMAIN orders
      BY DEF IdleInv
  <2>. QED
      BY <1>1, <1>12, <2>1 DEF InsertInv
<1>14. RowsInv'
  <2>1. DOMAIN scan.paid \subseteq DOMAIN orders
      BY DEF TypeOK
  <2>. QED
      BY <1>1, <1>6, <1>12, <2>1 DEF RowsInv
<1>15. SigInv'
    BY <1>6 DEF SigInv
<1>16. Fulfilled' = Fulfilled \cup {o} /\ o \notin Fulfilled
    BY <1>1, <1>6 DEF Fulfilled
<1>17. FulfilledIsPaid'
  <2>1. Fulfilled' \ byHand' \subseteq Fulfilled \ byHand /\ Fulfilled \subseteq DOMAIN orders
      BY <1>1, <1>16 DEF Fulfilled
  <2>. QED
      BY <1>1, <1>6, <2>1 DEF FulfilledIsPaid
<1>18. DeliveredOnce'
    BY <1>6, <1>7, <1>16 DEF DeliveredOnce
<1>. QED
    BY <1>8, <1>9, <1>10, <1>11, <1>13, <1>14, <1>15, <1>17, <1>18

-----------------------------------------------------------------------------
ClientRow == [pc : {"idle", "locked", "inserted"}, order : DOMAIN orders \cup {NoOrder},
              sig : 0..Len(receipts)]

(* What a verified submit may become without a commit. *)
Admissible(c, x) ==
    /\ x.pc # "idle" =>
          /\ rpcEnabled /\ x.order \in DOMAIN orders /\ x.sig \in DOMAIN receipts
          /\ orders[x.order].status \in Open /\ x.order \notin scan.locked
          /\ \A d \in Clients : d # c /\ client[d].pc # "idle" => client[d].order # x.order
    /\ x.pc = "inserted" =>
          /\ Verified(x.order, x.sig)
          /\ x.sig \notin DOMAIN deposits /\ x.sig \notin DOMAIN scan.rows
          /\ \A d \in Clients : d # c /\ client[d].pc = "inserted" => client[d].sig # x.sig

LEMMA ClientStep ==
    ASSUME IInv, NEW c \in Clients, NEW x \in ClientRow, Admissible(c, x),
           client' = [client EXCEPT ![c] = x],
           UNCHANGED <<orders, deposits, cursor, receipts, rpcEnabled, scan, broken, now, errors, grants, byHand>>
    PROVE  IInv'
<1>. USE DEF IInv
<1>1. /\ client' \in [Clients -> ClientRow] /\ client'[c] = x
      /\ \A d \in Clients : d # c => client'[d] = client[d]
    BY DEF TypeOK, ClientRow
<1>2. TypeOK'
    BY <1>1 DEF TypeOK, ClientRow
<1>3. ShapeInv' /\ CoverInv' /\ CursorSkipsNothing' /\ SigInv'
    BY DEF ShapeInv, CoverInv, CursorSkipsNothing, SigInv
<1>4. IdleInv'
    BY <1>1 DEF IdleInv, Admissible
<1>5. LockInv'
    BY <1>1 DEF LockInv, Admissible
<1>6. \A o, sig : Verified(o, sig)' <=> Verified(o, sig)
    BY DEF Verified
<1>7. InsertInv'
    BY <1>1, <1>6 DEF InsertInv, Admissible
<1>8. RowsInv'
    BY <1>6 DEF RowsInv
<1>9. FulfilledIsPaid' /\ DeliveredOnce'
    BY DEF FulfilledIsPaid, DeliveredOnce, Fulfilled
<1>. QED
    BY <1>2, <1>3, <1>4, <1>5, <1>7, <1>8, <1>9

LEMMA SubmitLockStep ==
    ASSUME IInv, NEW o \in DOMAIN orders, NEW sig \in DOMAIN receipts, NEW c \in Clients, SubmitLock(c, o, sig)
    PROVE  IInv'
<1>. USE DEF IInv
<1>. DEFINE x == [pc |-> "locked", order |-> o, sig |-> sig]
<1>1. x \in ClientRow /\ x.pc = "locked" /\ x.order = o /\ x.sig = sig
    BY TableFacts DEF ClientRow
<1>2. client' = [client EXCEPT ![c] = x]
    BY DEF SubmitLock
<1>. HIDE DEF x
<1>3. Admissible(c, x)
    BY <1>1 DEF SubmitLock, Admissible, LockedByClients
<1>. QED
    BY <1>1, <1>2, <1>3, ClientStep DEF SubmitLock, ghosts

LEMMA SubmitInsertStep ==
    ASSUME IInv, NEW c \in Clients, SubmitInsert(c)
    PROVE  IInv'
<1>. USE DEF IInv
<1>. DEFINE x == [client[c] EXCEPT !.pc = "inserted"]
<1>1. client[c] \in ClientRow /\ client \in [Clients -> ClientRow]
    BY DEF TypeOK, ClientRow
<1>2. x \in ClientRow /\ x.pc = "inserted" /\ x.order = client[c].order /\ x.sig = client[c].sig
    BY <1>1 DEF ClientRow
<1>3. client' = [client EXCEPT ![c] = x]
    BY DEF SubmitInsert
<1>. HIDE DEF x
<1>4. /\ client[c].pc = "locked" /\ Verified(client[c].order, client[c].sig)
      /\ client[c].sig \notin InsertedByClients \cup DOMAIN scan.rows
      /\ client[c].sig \notin DOMAIN deposits
    BY DEF SubmitInsert
<1>5. Admissible(c, x)
    BY <1>2, <1>4 DEF Admissible, InsertedByClients, IdleInv, LockInv
<1>. QED
    BY <1>2, <1>3, <1>5, ClientStep DEF SubmitInsert, ghosts

LEMMA SubmitRollbackStep ==
    ASSUME IInv, NEW c \in Clients, SubmitRollback(c)
    PROVE  IInv'
<1>1. IdleClient \in ClientRow
    BY TableFacts DEF IInv, ClientRow, IdleClient, NoSig
<1>2. Admissible(c, IdleClient)
    BY DEF Admissible, IdleClient
<1>. QED
    BY <1>1, <1>2, ClientStep DEF SubmitRollback, ghosts

(* The commit of a verified submit: its order was open and locked, and its *)
(* signature is in no row.                                                 *)
LEMMA SubmitCommitStep ==
    ASSUME IInv, NEW c \in Clients, SubmitCommit(c)
    PROVE  IInv'
<1>. USE DEF IInv
<1>. DEFINE o == client[c].order
            sig == client[c].sig
<1>1. /\ client[c].pc = "inserted"
      /\ \A p \in DOMAIN orders \ {o} : orders[p].sig # sig
      /\ orders' = Updated(o, "FULFILLED", sig)
      /\ deposits' = [s \in DOMAIN deposits \cup {sig} |->
                            IF s \in DOMAIN deposits THEN deposits[s] ELSE "PAYMENT_MATCHED"]
      /\ grants' = [grants EXCEPT ![o] = @ + 1]
      /\ client' = [client EXCEPT ![c] = IdleClient]
      /\ UNCHANGED <<byHand, cursor, receipts, rpcEnabled, scan, broken, now, errors>>
    BY DEF SubmitCommit, Updated
<1>2. /\ o \in DOMAIN orders /\ sig \in DOMAIN receipts /\ orders[o].status \in Open
      /\ o \notin scan.locked
      /\ \A d \in Clients : client[d].pc # "idle" /\ d # c => client[d].order # o
      /\ Verified(o, sig) /\ sig \notin DOMAIN deposits /\ sig \notin DOMAIN scan.rows
      /\ \A d \in Clients : client[d].pc = "inserted" /\ d # c => client[d].sig # sig
    BY <1>1 DEF IdleInv, LockInv, InsertInv
<1>. HIDE DEF o, sig
<1>3. sig \in Nat /\ sig # NoSig
    BY <1>2, TableFacts DEF NoSig
<1>4. /\ orders' \in Seq(OrderRow) /\ DOMAIN orders' = DOMAIN orders
      /\ \A p \in DOMAIN orders : p # o => orders'[p] = orders[p]
      /\ orders'[o].status = "FULFILLED" /\ orders'[o].sig = sig
      /\ \A p \in DOMAIN orders : /\ orders'[p].account = orders[p].account
                                  /\ orders'[p].amount = orders[p].amount
  <2>1. "FULFILLED" \in Open \cup {"FULFILLED"} /\ TypeOK
      OBVIOUS
  <2>. QED
      BY <1>1, <1>2, <1>3, <2>1, OrderUpdated
<1>5. /\ DOMAIN deposits' = DOMAIN deposits \cup {sig} /\ deposits'[sig] = "PAYMENT_MATCHED"
      /\ \A s \in DOMAIN deposits : deposits'[s] = deposits[s]
    BY <1>1, <1>2
<1>6. /\ grants' \in [DOMAIN orders -> Nat] /\ grants'[o] = grants[o] + 1
      /\ \A p \in DOMAIN orders : p # o => grants'[p] = grants[p]
    BY <1>1, <1>2 DEF TypeOK
<1>7. /\ client' \in [Clients -> ClientRow] /\ client'[c].pc = "idle"
      /\ \A d \in Clients : d # c => client'[d] = client[d]
  <2>1. IdleClient \in ClientRow /\ IdleClient.pc = "idle"
      BY TableFacts DEF ClientRow, IdleClient, NoSig
  <2>. QED
      BY <1>1, <2>1 DEF TypeOK, ClientRow
<1>8. TypeOK'
    BY <1>1, <1>2, <1>4, <1>5, <1>6, <1>7 DEF TypeOK, OrderRow, ClientRow
<1>9. ShapeInv'
    BY <1>1 DEF ShapeInv
<1>10. IdleInv'
    BY <1>1, <1>4, <1>7 DEF IdleInv
<1>11. LockInv'
  <2>1. \A d \in Clients : client[d].pc # "idle" => client[d].order \in DOMAIN orders
      BY DEF IdleInv
  <2>2. scan.locked \subseteq DOMAIN orders
      BY DEF TypeOK
  <2>. QED
      BY <1>1, <1>2, <1>4, <1>7, <2>1, <2>2 DEF LockInv
<1>12. \A p \in DOMAIN orders : \A s : Verified(p, s)' <=> Verified(p, s)
    BY <1>1, <1>4 DEF Verified
<1>13. InsertInv'
  <2>1. \A d \in Clients : client[d].pc = "inserted" => client[d].order \in DOMAIN orders
      BY DEF IdleInv
  <2>. QED
      BY <1>1, <1>2, <1>5, <1>7, <1>12, <2>1 DEF InsertInv
<1>14. RowsInv'
  <2>1. \A p \in DOMAIN scan.paid : p \in DOMAIN orders /\ scan.paid[p] \in DOMAIN scan.rows
      BY DEF TypeOK, RowsInv
  <2>2. \A p \in DOMAIN scan.paid : \A q \in DOMAIN orders : q # p => orders'[q].sig # scan.paid[p]
      BY <1>2, <1>4, <2>1 DEF RowsInv
  <2>. QED
      BY <1>1, <1>2, <1>4, <1>5, <1>12, <2>1, <2>2 DEF RowsInv
<1>15. SigInv'
    BY <1>1, <1>4 DEF SigInv
<1>16. CoverInv' /\ CursorSkipsNothing'
    BY <1>1, <1>5 DEF CoverInv, CursorSkipsNothing
<1>17. Fulfilled' = Fulfilled \cup {o} /\ o \notin Fulfilled
    BY <1>2, <1>4 DEF Fulfilled, Open
<1>18. FulfilledIsPaid'
  <2>1. Fulfilled \subseteq DOMAIN orders
      BY DEF Fulfilled
  <2>2. receipts[sig].from = orders[o].account /\ receipts[sig].amount >= orders[o].amount
      BY <1>2 DEF Verified
  <2>. QED
      BY <1>1, <1>2, <1>4, <1>5, <1>17, <2>1, <2>2 DEF FulfilledIsPaid
<1>19. DeliveredOnce'
    BY <1>2, <1>4, <1>6, <1>17 DEF DeliveredOnce
<1>. QED
    BY <1>8, <1>9, <1>10, <1>11, <1>13, <1>14, <1>15, <1>16, <1>18, <1>19

-----------------------------------------------------------------------------
(* A step of the scan that commits nothing: what has to be shown. *)
LEMMA ScanStep ==
    ASSUME IInv, errors' \in Nat,
           UNCHANGED <<orders, deposits, cursor, receipts, rpcEnabled, client, broken, now, grants, byHand>>,
           scan'.todo \subseteq DOMAIN receipts, DOMAIN scan'.rows \subseteq DOMAIN receipts,
           DOMAIN scan'.paid \cup scan'.locked \subseteq DOMAIN orders,
           ShapeInv', IdleInv', LockInv', InsertInv', RowsInv', CoverInv'
    PROVE  IInv'
<1>. USE DEF IInv
<1>1. TypeOK'
    BY DEF TypeOK
<1>2. SigInv' /\ CursorSkipsNothing'
    BY DEF SigInv, CursorSkipsNothing
<1>3. FulfilledIsPaid' /\ DeliveredOnce'
    BY DEF FulfilledIsPaid, DeliveredOnce, Fulfilled
<1>. QED
    BY <1>1, <1>2, <1>3

(* The scan is rolled back. *)
LEMMA ScanRollbackStep ==
    ASSUME IInv, scan' = IdleScan, errors' \in Nat,
           UNCHANGED <<orders, deposits, cursor, receipts, rpcEnabled, client, broken, now, grants, byHand>>
    PROVE  IInv'
<1>. USE DEF IInv
<1>1. /\ scan'.pc = "idle" /\ scan'.head = 0 /\ scan'.todo = {} /\ DOMAIN scan'.rows = {}
      /\ DOMAIN scan'.paid = {} /\ scan'.locked = {}
    BY DEF IdleScan
<1>2. ShapeInv'
  <2>1. scan' \in [pc : {"idle", "scanning"}, head : Nat, todo : SUBSET Nat, rows : {scan'.rows},
                   paid : {scan'.paid}, locked : SUBSET Nat]
      BY DEF IdleScan
  <2>2. 0 <= Len(receipts)
      BY TableFacts
  <2>. QED
      BY <1>1, <2>1, <2>2 DEF ShapeInv
<1>3. IdleInv' /\ CoverInv'
    BY <1>1 DEF IdleInv, CoverInv
<1>4. LockInv'
    BY <1>1 DEF LockInv
<1>5. InsertInv' /\ RowsInv'
    BY <1>1 DEF InsertInv, RowsInv, Verified
<1>. QED
    BY <1>1, <1>2, <1>3, <1>4, <1>5, ScanStep

LEMMA ScanBeginStep ==
    ASSUME IInv, ScanBegin
    PROVE  IInv'
<1>. USE DEF IInv
<1>1. Len(receipts) \in Nat /\ DOMAIN receipts = 1..Len(receipts) /\ cursor \in 0..Len(receipts)
    BY TableFacts DEF TypeOK
<1>2. /\ scan' = [IdleScan EXCEPT !.pc = "scanning", !.head = Len(receipts),
                                  !.todo = (cursor + 1)..Len(receipts)]
      /\ rpcEnabled
      /\ UNCHANGED <<orders, deposits, cursor, receipts, rpcEnabled, client, broken, now, errors, grants, byHand>>
    BY DEF ScanBegin, ghosts
<1>3. /\ scan'.pc = "scanning" /\ scan'.head = Len(receipts) /\ scan'.todo = (cursor + 1)..Len(receipts)
      /\ DOMAIN scan'.rows = {} /\ DOMAIN scan'.paid = {} /\ scan'.locked = {}
    BY <1>2 DEF IdleScan
<1>4. scan'.todo \subseteq DOMAIN receipts /\ scan'.todo \subseteq Nat
    BY <1>1, <1>3
<1>5. ShapeInv'
  <2>1. scan' \in [pc : {"idle", "scanning"}, head : Nat, todo : SUBSET Nat, rows : {scan'.rows},
                   paid : {scan'.paid}, locked : SUBSET Nat]
    <3>1. (cursor + 1)..Len(receipts) \in SUBSET Nat
        BY <1>1
    <3>. QED
        BY <1>1, <1>2, <3>1 DEF IdleScan
  <2>. QED
      BY <1>1, <1>2, <1>3, <2>1 DEF ShapeInv
<1>6. IdleInv' /\ LockInv'
    BY <1>2, <1>3 DEF IdleInv, LockInv
<1>7. InsertInv' /\ RowsInv'
    BY <1>2, <1>3 DEF InsertInv, RowsInv, Verified
<1>8. CoverInv'
  <2>1. \A sig \in 1..Len(receipts) : sig \in (cursor + 1)..Len(receipts) \/ sig \in 1..cursor
      BY <1>1
  <2>. QED
      BY <1>2, <1>3, <2>1 DEF CoverInv, CursorSkipsNothing
<1>9. errors' \in Nat
    BY <1>2 DEF ShapeInv
<1>. QED
    BY <1>2, <1>3, <1>4, <1>5, <1>6, <1>7, <1>8, <1>9, ScanStep

(* The order the scan takes for a receipt is one that matches. *)
LEMMA MatchFacts ==
    ASSUME TypeOK, NEW sig \in DOMAIN receipts
    PROVE  Match(sig) # NoOrder =>
              /\ Match(sig) \in DOMAIN orders /\ Match(sig) \notin LockedByClients
              /\ Match(sig) \notin DOMAIN scan.paid
              /\ orders[Match(sig)].status \in Open
              /\ Verified(Match(sig), sig)
<1>. DEFINE named == {o \in Matching(sig) : orders[o].sig = sig}
<1>1. Matching(sig) \subseteq Nat /\ named \subseteq Nat
  <2>1. DOMAIN orders \subseteq Nat
      BY TableFacts
  <2>. QED
      BY <2>1 DEF Matching
<1>2. Matching(sig) # {} => Match(sig) \in Matching(sig)
  <2>1. CASE named # {}
    <3>1. Min(named) \in named
        BY <1>1, <2>1, MinMaxIn
    <3>. QED
        BY <2>1, <3>1 DEF Match
  <2>2. CASE named = {} /\ Matching(sig) # {}
    <3>1. Min(Matching(sig)) \in Matching(sig)
        BY <1>1, <2>2, MinMaxIn
    <3>. QED
        BY <2>2, <3>1 DEF Match
  <2>. QED
      BY <2>1, <2>2
<1>3. Match(sig) # NoOrder => Match(sig) \in Matching(sig)
    BY <1>2 DEF Match
<1>4. ASSUME NEW o \in Matching(sig)
      PROVE  /\ o \in DOMAIN orders /\ o \notin LockedByClients /\ o \notin DOMAIN scan.paid
             /\ orders[o].status \in Open /\ Verified(o, sig)
  <2>1. /\ o \in DOMAIN orders /\ o \notin LockedByClients /\ o \notin DOMAIN scan.paid
        /\ orders[o].account = receipts[sig].from /\ orders[o].status \in Open
        /\ orders[o].amount = receipts[sig].amount
      BY DEF Matching
  <2>2. orders[o].amount \in Nat
      BY <2>1, TableFacts DEF OrderRow
  <2>. QED
      BY <2>1, <2>2 DEF Verified
<1>. QED
    BY <1>3, <1>4

(* The scan has dealt with its newest receipt: rows and paid grow by what  *)
(* it did about it, or not at all.                                         *)
LEMMA ReceiptDone ==
    ASSUME IInv, scan.pc = "scanning", NEW sig \in scan.todo, sig \notin InsertedByClients,
           UNCHANGED <<orders, deposits, cursor, receipts, rpcEnabled, client, broken, now, errors, grants, byHand>>,
           scan' \in [pc : {"scanning"}, head : {scan.head}, todo : {scan.todo \ {sig}}, rows : {scan'.rows},
                      paid : {scan'.paid}, locked : {scan'.locked}],
           \/ sig \in DOMAIN deposits /\ scan'.rows = scan.rows
           \/ /\ sig \notin DOMAIN deposits /\ DOMAIN scan'.rows = DOMAIN scan.rows \cup {sig}
              /\ scan'.rows[sig] \in DepositStatus
              /\ \A s \in DOMAIN scan.rows : s # sig => scan'.rows[s] = scan.rows[s],
           NEW new \in SUBSET (DOMAIN orders \ LockedByClients), scan'.locked = scan.locked \cup new,
           \A o \in new : orders[o].status \in Open,
           DOMAIN scan'.paid \subseteq DOMAIN scan.paid \cup new,
           DOMAIN scan.paid \subseteq DOMAIN scan'.paid,
           \A o \in DOMAIN scan.paid : scan'.paid[o] = scan.paid[o],
           \A o \in DOMAIN scan'.paid \ DOMAIN scan.paid :
              /\ scan'.paid[o] = sig /\ sig \in DOMAIN scan'.rows /\ scan'.rows[sig] = "PAYMENT_MATCHED"
              /\ Verified(o, sig) /\ \A p \in DOMAIN orders \ {o} : orders[p].sig # sig
              /\ DOMAIN scan'.paid = DOMAIN scan.paid \cup {o}
    PROVE  IInv'
<1>. USE DEF IInv
<1>1. /\ scan'.pc = "scanning" /\ scan'.head = scan.head /\ scan'.todo = scan.todo \ {sig}
    OBVIOUS
<1>2. /\ sig \in DOMAIN receipts /\ sig \notin DOMAIN scan.rows
      /\ DOMAIN scan.rows \subseteq DOMAIN receipts /\ scan.todo \subseteq DOMAIN receipts
      /\ scan.locked \subseteq DOMAIN orders /\ DOMAIN scan.paid \subseteq DOMAIN orders
      /\ DOMAIN orders \subseteq Nat /\ DOMAIN receipts \subseteq Nat
    BY TableFacts DEF TypeOK, RowsInv
<1>3. \A o \in DOMAIN scan.paid :
          scan.paid[o] \in DOMAIN scan.rows /\ scan'.rows[scan.paid[o]] = scan.rows[scan.paid[o]]
    BY <1>2 DEF RowsInv
<1>4. /\ scan'.todo \subseteq DOMAIN receipts /\ DOMAIN scan'.rows \subseteq DOMAIN receipts
      /\ DOMAIN scan'.paid \cup scan'.locked \subseteq DOMAIN orders
    BY <1>1, <1>2
<1>5. ShapeInv'
  <2>1. scan' \in [pc : {"idle", "scanning"}, head : Nat, todo : SUBSET Nat, rows : {scan'.rows},
                   paid : {scan'.paid}, locked : SUBSET Nat]
    <3>1. scan.head \in Nat /\ scan.todo \ {sig} \in SUBSET Nat /\ scan'.locked \in SUBSET Nat
        BY <1>2, <1>4 DEF ShapeInv
    <3>. QED
        BY <3>1
  <2>2. \A s \in DOMAIN scan'.rows : scan'.rows[s] \in DepositStatus
      BY <1>2 DEF ShapeInv
  <2>. QED
      BY <1>1, <2>1, <2>2 DEF ShapeInv
<1>6. IdleInv'
    BY <1>1 DEF IdleInv
<1>7. LockInv'
  <2>1. \A c \in Clients : client[c].pc # "idle" => client[c].order \notin new
      BY DEF LockedByClients
  <2>. QED
      BY <2>1 DEF LockInv
<1>8. \A o, s : Verified(o, s)' <=> Verified(o, s)
    BY DEF Verified
<1>9. InsertInv'
  <2>1. \A c \in Clients : client[c].pc = "inserted" => client[c].sig # sig
      BY DEF InsertedByClients
  <2>. QED
      BY <1>8, <2>1 DEF InsertInv
<1>10. RowsInv'
  <2>1. \A s \in DOMAIN scan'.rows : s \notin DOMAIN deposits /\ s \notin scan'.todo
      BY <1>1, <1>2 DEF RowsInv
  <2>2. ASSUME NEW o \in DOMAIN scan'.paid
        PROVE  /\ scan'.paid[o] \in DOMAIN scan'.rows /\ scan'.rows[scan'.paid[o]] = "PAYMENT_MATCHED"
               /\ Verified(o, scan'.paid[o])
               /\ \A p \in DOMAIN orders : p # o => orders[p].sig # scan'.paid[o]
               /\ \A p \in DOMAIN scan'.paid : scan'.paid[p] = scan'.paid[o] => p = o
    <3>1. CASE o \in DOMAIN scan.paid
      <4>1. \A p \in DOMAIN scan'.paid \ DOMAIN scan.paid : scan'.paid[p] # scan'.paid[o]
          BY <1>2, <1>3, <3>1
      <4>. QED
          BY <1>2, <1>3, <3>1, <4>1 DEF RowsInv
    <3>2. CASE o \notin DOMAIN scan.paid
      <4>1. \A p \in DOMAIN scan.paid : scan'.paid[p] # sig
          BY <1>2, <1>3
      <4>. QED
          BY <3>2, <4>1
    <3>. QED
        BY <3>1, <3>2
  <2>. QED
      BY <1>8, <2>1, <2>2 DEF RowsInv
<1>11. CoverInv'
    BY <1>1 DEF CoverInv
<1>12. errors' \in Nat
    BY DEF ShapeInv
<1>. QED
    BY <1>4, <1>5, <1>6, <1>7, <1>9, <1>10, <1>11, <1>12, ScanStep

LEMMA ScanReceiptStep ==
    ASSUME IInv, ScanReceipt
    PROVE  IInv'
<1>. USE DEF IInv
<1>. DEFINE sig == Max(scan.todo)
            o == Match(sig)
<1>1. /\ scan.pc = "scanning" /\ scan.todo # {} /\ sig \notin InsertedByClients
      /\ UNCHANGED <<orders, deposits, cursor, receipts, rpcEnabled, client, broken, now, errors, grants, byHand>>
    BY DEF ScanReceipt, ghosts
<1>2. sig \in scan.todo /\ sig \in DOMAIN receipts
  <2>1. /\ scan.todo \subseteq DOMAIN receipts /\ DOMAIN receipts = 1..Len(receipts)
        /\ Len(receipts) \in Nat
      BY TableFacts DEF TypeOK
  <2>2. scan.todo \in SUBSET Nat /\ \A x \in scan.todo : x <= Len(receipts)
      BY <2>1
  <2>3. Max(scan.todo) \in scan.todo
      BY <1>1, <2>1, <2>2, MinMaxIn
  <2>. QED
      BY <2>1, <2>3
<1>3. o # NoOrder =>
          /\ o \in DOMAIN orders /\ o \notin LockedByClients /\ o \notin DOMAIN scan.paid
          /\ orders[o].status \in Open /\ Verified(o, sig)
    BY <1>2, MatchFacts
<1>4. scan \in [pc : {"idle", "scanning"}, head : Nat, todo : SUBSET Nat, rows : {scan.rows},
                paid : {scan.paid}, locked : SUBSET Nat]
    BY DEF ShapeInv
<1>5. CASE /\ o = NoOrder /\ sig \notin DOMAIN deposits
           /\ scan' = [scan EXCEPT !.todo = @ \ {sig}, !.rows =
                    Record(sig, IF receipts[sig].from = Stranger THEN "IGNORED" ELSE "CREDITED")]
  <2>. DEFINE rows == Record(sig, IF receipts[sig].from = Stranger THEN "IGNORED" ELSE "CREDITED")
  <2>1. /\ DOMAIN rows = DOMAIN scan.rows \cup {sig} /\ rows[sig] \in DepositStatus
        /\ \A s \in DOMAIN scan.rows : s # sig => rows[s] = scan.rows[s]
      BY DEF Record, DepositStatus
  <2>. HIDE DEF rows, sig, o
  <2>2. scan' \in [pc : {"scanning"}, head : {scan.head}, todo : {scan.todo \ {sig}}, rows : {rows},
                   paid : {scan.paid}, locked : {scan.locked}]
      BY <1>1, <1>4, <1>5 DEF rows, sig, o
  <2>3. scan'.rows = rows /\ scan'.paid = scan.paid /\ scan'.locked = scan.locked
      BY <2>2
  <2>4. {} \in SUBSET (DOMAIN orders \ LockedByClients) /\ scan'.locked = scan.locked \cup {}
      BY <2>3
  <2>. HIDE DEF IInv
  <2>. QED
      BY <1>1, <1>2, <1>5, <2>1, <2>2, <2>3, <2>4, ReceiptDone
<1>6. CASE /\ o # NoOrder /\ sig \notin DOMAIN deposits
           /\ o \notin broken
           /\ \A p \in DOMAIN orders \ {o} : orders[p].sig # sig
           /\ scan' = [scan EXCEPT !.todo = @ \ {sig}, !.locked = @ \cup {o},
                            !.rows = Record(sig, "PAYMENT_MATCHED"),
                            !.paid = [p \in DOMAIN @ \cup {o} |-> IF p = o THEN sig ELSE @[p]]]
  <2>. DEFINE rows == Record(sig, "PAYMENT_MATCHED")
              paid == [p \in DOMAIN scan.paid \cup {o} |-> IF p = o THEN sig ELSE scan.paid[p]]
  <2>1. /\ DOMAIN rows = DOMAIN scan.rows \cup {sig} /\ rows[sig] = "PAYMENT_MATCHED"
        /\ rows[sig] \in DepositStatus
        /\ \A s \in DOMAIN scan.rows : s # sig => rows[s] = scan.rows[s]
      BY DEF Record, DepositStatus
  <2>2. /\ DOMAIN paid = DOMAIN scan.paid \cup {o} /\ paid[o] = sig
        /\ \A p \in DOMAIN scan.paid : p # o => paid[p] = scan.paid[p]
      OBVIOUS
  <2>3. scan' \in [pc : {"scanning"}, head : {scan.head}, todo : {scan.todo \ {sig}}, rows : {rows},
                   paid : {paid}, locked : {scan.locked \cup {o}}]
      BY <1>1, <1>4, <1>6
  <2>. HIDE DEF rows, paid, sig, o
  <2>4. scan'.rows = rows /\ scan'.paid = paid /\ scan'.locked = scan.locked \cup {o}
      BY <2>3
  <2>5. {o} \in SUBSET (DOMAIN orders \ LockedByClients) /\ o \notin DOMAIN scan.paid
        /\ orders[o].status \in Open /\ Verified(o, sig)
      BY <1>3, <1>6
  <2>6. /\ DOMAIN scan'.paid = DOMAIN scan.paid \cup {o} /\ scan'.paid[o] = sig
        /\ \A p \in DOMAIN scan.paid : scan'.paid[p] = scan.paid[p]
        /\ \A p \in DOMAIN scan'.paid \ DOMAIN scan.paid : p = o
      BY <2>2, <2>4, <2>5
  <2>7. \A p \in DOMAIN scan'.paid \ DOMAIN scan.paid :
              /\ scan'.paid[p] = sig /\ sig \in DOMAIN scan'.rows /\ scan'.rows[sig] = "PAYMENT_MATCHED"
              /\ Verified(p, sig) /\ \A q \in DOMAIN orders \ {p} : orders[q].sig # sig
              /\ DOMAIN scan'.paid = DOMAIN scan.paid \cup {p}
      BY <1>6, <2>1, <2>4, <2>5, <2>6
  <2>8. /\ DOMAIN scan'.rows = DOMAIN scan.rows \cup {sig} /\ scan'.rows[sig] \in DepositStatus
        /\ \A s \in DOMAIN scan.rows : s # sig => scan'.rows[s] = scan.rows[s]
        /\ scan' \in [pc : {"scanning"}, head : {scan.head}, todo : {scan.todo \ {sig}}, rows : {scan'.rows},
                      paid : {scan'.paid}, locked : {scan'.locked}]
      BY <2>1, <2>3, <2>4
  <2>9. /\ \A p \in {o} : orders[p].status \in Open
        /\ DOMAIN scan'.paid \subseteq DOMAIN scan.paid \cup {o} /\ DOMAIN scan.paid \subseteq DOMAIN scan'.paid
        /\ sig \notin DOMAIN deposits /\ scan'.locked = scan.locked \cup {o}
      BY <1>6, <2>4, <2>5, <2>6
  <2>10. \A p \in DOMAIN scan.paid : scan'.paid[p] = scan.paid[p]
      BY <2>6
  <2>11. {o} \in SUBSET (DOMAIN orders \ LockedByClients)
      BY <2>5
  <2>. HIDE DEF IInv
  <2>. QED
      BY <1>1, <1>2, <2>7, <2>8, <2>9, <2>10, <2>11, ReceiptDone
<1>7. CASE /\ sig \in DOMAIN deposits
           /\ scan' = [scan EXCEPT !.todo = @ \ {sig}, !.locked = @ \cup ({o} \ {NoOrder})]
  <2>. DEFINE new == {o} \ {NoOrder}
  <2>1. scan' \in [pc : {"scanning"}, head : {scan.head}, todo : {scan.todo \ {sig}}, rows : {scan.rows},
                   paid : {scan.paid}, locked : {scan.locked \cup new}]
      BY <1>1, <1>4, <1>7
  <2>2. new \in SUBSET (DOMAIN orders \ LockedByClients) /\ \A p \in new : orders[p].status \in Open
      BY <1>3
  <2>. HIDE DEF new, sig, o
  <2>3. scan'.rows = scan.rows /\ scan'.paid = scan.paid /\ scan'.locked = scan.locked \cup new
      BY <2>1
  <2>4. /\ scan' \in [pc : {"scanning"}, head : {scan.head}, todo : {scan.todo \ {sig}}, rows : {scan'.rows},
                      paid : {scan'.paid}, locked : {scan'.locked}]
        /\ sig \in DOMAIN deposits /\ scan'.rows = scan.rows
        /\ DOMAIN scan'.paid \ DOMAIN scan.paid = {}
      BY <1>7, <2>1, <2>3
  <2>. HIDE DEF IInv
  <2>. QED
      BY <1>1, <1>2, <2>2, <2>3, <2>4, ReceiptDone
<1>. QED
    BY <1>5, <1>6, <1>7 DEF ScanReceipt

(* The commit of a scan: the orders it paid were open and locked, its rows *)
(* are new, and with nothing left to look at the cursor may move to its    *)
(* head.                                                                   *)
LEMMA ScanCommitStep ==
    ASSUME IInv, ScanCommit
    PROVE  IInv'
<1>. USE DEF IInv
<1>. DEFINE rows == scan.rows
            paid == scan.paid
<1>1. /\ scan.pc = "scanning" /\ scan.todo = {}
      /\ deposits' = [s \in DOMAIN deposits \cup DOMAIN rows |->
                        IF s \in DOMAIN rows THEN rows[s] ELSE deposits[s]]
      /\ orders' = [o \in DOMAIN orders |->
                    IF o \in DOMAIN paid
                    THEN [orders[o] EXCEPT !.status = "FULFILLED", !.sig = paid[o]]
                    ELSE orders[o]]
      /\ grants' = [o \in DOMAIN grants |-> IF o \in DOMAIN paid THEN grants[o] + 1 ELSE grants[o]]
      /\ cursor' = scan.head /\ scan' = IdleScan
      /\ UNCHANGED <<byHand, receipts, rpcEnabled, client, broken, now, errors>>
    BY DEF ScanCommit
<1>2. /\ Len(orders) \in Nat /\ DOMAIN orders = 1..Len(orders)
      /\ Len(receipts) \in Nat /\ DOMAIN receipts = 1..Len(receipts)
      /\ \A o \in DOMAIN orders : orders[o] \in OrderRow
    BY TableFacts
<1>3. /\ DOMAIN rows \subseteq DOMAIN receipts /\ DOMAIN deposits \subseteq DOMAIN receipts
      /\ DOMAIN paid \subseteq DOMAIN orders /\ DOMAIN paid \subseteq scan.locked
      /\ \A s \in DOMAIN rows : s \notin DOMAIN deposits /\ rows[s] \in DepositStatus
      /\ \A o \in DOMAIN paid : orders[o].status \in Open
    BY DEF TypeOK, LockInv, RowsInv, ShapeInv
<1>4. \A o \in DOMAIN paid :
          /\ paid[o] \in DOMAIN rows /\ rows[paid[o]] = "PAYMENT_MATCHED" /\ Verified(o, paid[o])
          /\ \A p \in DOMAIN orders : p # o => orders[p].sig # paid[o]
          /\ \A p \in DOMAIN paid : paid[p] = paid[o] => p = o
    BY DEF RowsInv
<1>. HIDE DEF rows, paid
<1>5. ASSUME NEW o \in DOMAIN paid
      PROVE  /\ orders'[o] \in OrderRow /\ orders'[o].status = "FULFILLED" /\ orders'[o].sig = paid[o]
             /\ orders'[o].account = orders[o].account /\ orders'[o].amount = orders[o].amount
  <2>1. o \in DOMAIN orders /\ orders[o] \in OrderRow /\ paid[o] \in Nat
      BY <1>2, <1>3, <1>4
  <2>2. orders'[o] = [orders[o] EXCEPT !.status = "FULFILLED", !.sig = paid[o]]
      BY <1>1, <2>1
  <2>. QED
      BY <2>1, <2>2 DEF OrderRow
<1>6. \A o \in DOMAIN orders : o \notin DOMAIN paid => orders'[o] = orders[o]
    BY <1>1
<1>7. /\ DOMAIN orders' = DOMAIN orders
      /\ \A o \in DOMAIN orders : orders'[o] \in OrderRow /\ orders'[o].account = orders[o].account
                                  /\ orders'[o].amount = orders[o].amount
    BY <1>1, <1>2, <1>5, <1>6
<1>8. orders' \in Seq(OrderRow)
  <2>1. orders' \in [1..Len(orders) -> OrderRow]
    <3>1. orders' = [o \in 1..Len(orders) |-> orders'[o]]
        BY <1>1, <1>2
    <3>. QED
        BY <1>2, <1>7, <3>1
  <2>. QED
      BY <1>2, <2>1
<1>9. /\ DOMAIN deposits' = DOMAIN deposits \cup DOMAIN rows
      /\ \A s \in DOMAIN rows : deposits'[s] = rows[s]
      /\ \A s \in DOMAIN deposits : deposits'[s] = deposits[s]
    BY <1>1, <1>3
<1>10. /\ grants' \in [DOMAIN orders -> Nat]
       /\ \A o \in DOMAIN orders : grants'[o] = IF o \in DOMAIN paid THEN grants[o] + 1 ELSE grants[o]
  <2>1. grants \in [DOMAIN orders -> Nat] /\ DOMAIN grants = DOMAIN orders
      BY DEF TypeOK
  <2>2. grants' = [o \in DOMAIN orders |-> IF o \in DOMAIN paid THEN grants[o] + 1 ELSE grants[o]]
      BY <1>1, <2>1
  <2>. QED
      BY <2>1, <2>2
<1>11. /\ scan'.pc = "idle" /\ scan'.head = 0 /\ scan'.todo = {} /\ DOMAIN scan'.rows = {}
       /\ DOMAIN scan'.paid = {} /\ scan'.locked = {}
  <2>1. scan' = IdleScan
      BY <1>1
  <2>. QED
      BY <2>1 DEF IdleScan
<1>12. TypeOK'
  <2>1. cursor' \in 0..Len(receipts')
    <3>1. scan.head \in Nat /\ scan.head <= Len(receipts)
        BY DEF ShapeInv
    <3>2. cursor' = scan.head /\ receipts' = receipts
        BY <1>1
    <3>. QED
        BY <1>2, <3>1, <3>2
  <2>2. \A s \in DOMAIN deposits' : deposits'[s] \in DepositStatus
      BY <1>3, <1>9 DEF TypeOK, DepositStatus
  <2>3. client' \in [Clients -> [pc : {"idle", "locked", "inserted"},
                                 order : DOMAIN orders' \cup {NoOrder}, sig : 0..Len(receipts')]]
      BY <1>1, <1>7 DEF TypeOK
  <2>. QED
      BY <1>1, <1>3, <1>7, <1>8, <1>9, <1>10, <1>11, <2>1, <2>2, <2>3 DEF TypeOK, OrderRow, DepositStatus
<1>13. ShapeInv'
  <2>1. scan' \in [pc : {"idle", "scanning"}, head : Nat, todo : SUBSET Nat, rows : {scan'.rows},
                   paid : {scan'.paid}, locked : SUBSET Nat]
    <3>1. scan' = IdleScan
        BY <1>1
    <3>. QED
        BY <3>1 DEF IdleScan
  <2>2. UNCHANGED <<rpcEnabled, now, errors, receipts>>
      BY <1>1
  <2>3. 0 <= Len(receipts)
      BY <1>2
  <2>. QED
      BY <1>11, <2>1, <2>2, <2>3 DEF ShapeInv
<1>14. IdleInv' /\ CoverInv'
    BY <1>1, <1>7, <1>11 DEF IdleInv, CoverInv
<1>15. \A c \in Clients : client[c].pc # "idle" => client[c].order \in DOMAIN orders \ DOMAIN paid
    BY <1>3 DEF LockInv, IdleInv
<1>16. LockInv'
    BY <1>1, <1>6, <1>11, <1>15 DEF LockInv
<1>17. \A o \in DOMAIN orders : \A s : Verified(o, s)' <=> Verified(o, s)
    BY <1>1, <1>7 DEF Verified
<1>18. InsertInv'
  <2>1. \A c \in Clients : client[c].pc = "inserted" => client[c].sig \notin DOMAIN rows
      BY DEF InsertInv, rows
  <2>. QED
      BY <1>1, <1>9, <1>11, <1>15, <1>17, <2>1 DEF InsertInv
<1>19. RowsInv'
    BY <1>11 DEF RowsInv
<1>20. SigInv'
  <2>. SUFFICES ASSUME NEW o \in DOMAIN orders, NEW p \in DOMAIN orders, orders'[o].sig = orders'[p].sig
                PROVE  o = p \/ orders'[o].sig = NoSig
      BY <1>7 DEF SigInv
  <2>1. CASE o \in DOMAIN paid \/ p \in DOMAIN paid
      BY <1>4, <1>5, <1>6, <2>1
  <2>2. CASE o \notin DOMAIN paid /\ p \notin DOMAIN paid
      BY <1>6, <2>2 DEF SigInv
  <2>. QED
      BY <2>1, <2>2
<1>21. Fulfilled' = Fulfilled \cup DOMAIN paid /\ Fulfilled \cap DOMAIN paid = {}
  <2>1. ASSUME NEW o \in DOMAIN orders PROVE o \in Fulfilled' <=> o \in Fulfilled \cup DOMAIN paid
      BY <1>5, <1>6, <1>7 DEF Fulfilled
  <2>2. Fulfilled' \subseteq DOMAIN orders /\ Fulfilled \subseteq DOMAIN orders
      BY <1>7 DEF Fulfilled
  <2>3. Fulfilled \cap DOMAIN paid = {}
      BY <1>3 DEF Fulfilled, Open
  <2>. QED
      BY <1>3, <2>1, <2>2, <2>3
<1>22. FulfilledIsPaid'
  <2>. SUFFICES ASSUME NEW o \in Fulfilled' \ byHand
                PROVE  /\ orders'[o].sig \in DOMAIN deposits'
                       /\ deposits'[orders'[o].sig] = "PAYMENT_MATCHED"
                       /\ receipts[orders'[o].sig].from = orders'[o].account
                       /\ receipts[orders'[o].sig].amount >= orders'[o].amount
      BY <1>1 DEF FulfilledIsPaid
  <2>1. CASE o \in DOMAIN paid
      BY <1>4, <1>5, <1>9, <2>1 DEF Verified
  <2>2. CASE o \notin DOMAIN paid
    <3>1. o \in Fulfilled \ byHand /\ o \in DOMAIN orders
        BY <1>21, <2>2 DEF Fulfilled
    <3>. QED
        BY <1>6, <1>9, <2>2, <3>1 DEF FulfilledIsPaid
  <2>. QED
      BY <2>1, <2>2
<1>23. DeliveredOnce'
    BY <1>3, <1>7, <1>10, <1>21 DEF DeliveredOnce
<1>24. CursorSkipsNothing'
  <2>1. \A sig \in 1..scan.head : sig \in DOMAIN rows \/ sig \in DOMAIN deposits
      BY <1>1 DEF CoverInv, rows
  <2>. QED
      BY <1>1, <1>9, <2>1 DEF CursorSkipsNothing
<1>. QED
    BY <1>12, <1>13, <1>14, <1>16, <1>18, <1>19, <1>20, <1>22, <1>23, <1>24

-----------------------------------------------------------------------------
LEMMA NextIInv == IInv /\ [Next]_vars => IInv'
<1>. SUFFICES ASSUME IInv, [Next]_vars PROVE IInv'
    OBVIOUS
<1>1. CASE \E a \in Accounts, purpose \in Purposes : CreateOrder(a, purpose)
    BY <1>1, CreateStep
<1>2. CASE \E payer \in Accounts \cup {Stranger}, amount \in PayAmounts : Pay(payer, amount)
    BY <1>2, PayStep
<1>3. CASE \E o \in DOMAIN orders : ConfirmPaymentOrder(o)
    BY <1>3, ConfirmStep
<1>4. CASE \E o \in DOMAIN orders, sig \in DOMAIN receipts : SubmitUnverified(o, sig)
    BY <1>4, SubmitUnverifiedStep
<1>5. CASE \E o \in DOMAIN orders, sig \in DOMAIN receipts, c \in Clients : SubmitLock(c, o, sig)
    BY <1>5, SubmitLockStep
<1>6. CASE \E c \in Clients : SubmitInsert(c) \/ SubmitCommit(c) \/ SubmitRollback(c)
    BY <1>6, SubmitInsertStep, SubmitCommitStep, SubmitRollbackStep
<1>7. CASE ScanBegin
    BY <1>7, ScanBeginStep
<1>8. CASE ScanReceipt
    BY <1>8, ScanReceiptStep
<1>9. CASE ScanFulfilFails \/ ScanAbort
  <2>1. errors \in Nat
      BY DEF IInv, ShapeInv
  <2>. QED
      BY <1>9, <2>1, ScanRollbackStep DEF ScanFulfilFails, ScanAbort, ghosts
<1>10. CASE ScanCommit
    BY <1>10, ScanCommitStep
<1>11. CASE (\E o \in DOMAIN orders : Break(o)) \/ EnableRpc \/ Tick \/ ScanEmpty
    BY <1>11, QuietSteps
<1>12. CASE UNCHANGED vars
  <2>1. /\ UNCHANGED <<orders, deposits, receipts, client, scan, grants, byHand>> /\ cursor' = cursor
        /\ rpcEnabled' = rpcEnabled /\ now' = now /\ errors' = errors /\ broken' = broken
      BY <1>12 DEF vars, ghosts
  <2>2. rpcEnabled \in BOOLEAN /\ now \in Nat /\ errors \in Nat /\ broken \subseteq DOMAIN orders
      BY DEF IInv, ShapeInv, TypeOK
  <2>. QED
      BY <2>1, <2>2, QuietStep
<1>. QED
    BY <1>1, <1>2, <1>3, <1>4, <1>5, <1>6, <1>7, <1>8, <1>9, <1>10, <1>11, <1>12 DEF Next, ScanSteps

LEMMA SpecIInv == Spec => []IInv
<1>. QED
    BY InitIInv, NextIInv, PTL DEF Spec

(* Signatures are unique among orders, so at most one order is paid by a   *)
(* receipt, and then its row says PAYMENT_MATCHED and not CREDITED.        *)
LEMMA UsedOnce == IInv => VerifiedUsedOnce
<1>. SUFFICES ASSUME IInv, NEW sig \in DOMAIN receipts
              PROVE  Cardinality({o \in Fulfilled \ byHand : orders[o].sig = sig})
                        + (IF sig \in DOMAIN deposits /\ deposits[sig] = "CREDITED" THEN 1 ELSE 0) <= 1
    BY DEF VerifiedUsedOnce
<1>. DEFINE S == {o \in Fulfilled \ byHand : orders[o].sig = sig}
<1>1. sig # NoSig
    BY TableFacts DEF IInv, NoSig
<1>2. \A o, p \in S : o = p
  <2>1. S \subseteq DOMAIN orders
      BY DEF Fulfilled
  <2>. QED
      BY <1>1, <2>1 DEF IInv, SigInv
<1>3. CASE S = {}
  <2>1. Cardinality(S) = 0
      BY <1>3, FS_EmptySet
  <2>. HIDE DEF S
  <2>2. Cardinality(S) + (IF sig \in DOMAIN deposits /\ deposits[sig] = "CREDITED" THEN 1 ELSE 0) <= 1
      BY <2>1
  <2>. QED
      BY <2>2 DEF S
<1>4. CASE S # {}
  <2>1. PICK o \in S : TRUE
      BY <1>4
  <2>2. deposits[sig] = "PAYMENT_MATCHED"
      BY <2>1 DEF IInv, FulfilledIsPaid
  <2>3. S = {o}
      BY <1>2, <2>1
  <2>4. Cardinality(S) = 1
      BY <2>3, FS_Singleton
  <2>. HIDE DEF S
  <2>5. Cardinality(S) + (IF sig \in DOMAIN deposits /\ deposits[sig] = "CREDITED" THEN 1 ELSE 0) <= 1
      BY <2>2, <2>4
  <2>. QED
      BY <2>5 DEF S
<1>. QED
    BY <1>3, <1>4

(* ScanAndCreditDeposits and SubmitPaymentOrderVerified, however they      *)
(* interleave, abort and restart: a receipt becomes value at most once,    *)
(* and an order not confirmed by hand was paid by a recorded receipt of    *)
(* its own account that covers its price.                                  *)
THEOREM ReceiptsAlwaysPayOnce == Spec => []ReceiptsPayOnce
<1>1. IInv => ReceiptsPayOnce
    BY UsedOnce DEF IInv, ReceiptsPayOnce
<1>. QED
    BY <1>1, SpecIInv, PTL

(* fulfillPaymentOrderTx runs once for an order that ends FULFILLED, and   *)
(* never for another.                                                      *)
THEOREM AlwaysDeliveredOnce == Spec => []DeliveredOnce
<1>1. IInv => DeliveredOnce
    BY DEF IInv
<1>. QED
    BY <1>1, SpecIInv, PTL

(* chain_cursors never passes a receipt without a row in solana_deposits.  *)
THEOREM CursorNeverSkips == Spec => []CursorSkipsNothing
<1>1. IInv => CursorSkipsNothing
    BY DEF IInv
<1>. QED
    BY <1>1, SpecIInv, PTL
=============================================================================
