--------------------------- MODULE PaymentOrders ----------------------------
(***************************************************************************)
(* On-chain payments into the game: payment orders, the receipts an        *)
(* account leaves on Solana, and the three ways a receipt becomes value.   *)
(* The deposit scan matches it with an open order or credits it to the     *)
(* account; a verified submit names it for an order; without an RPC client *)
(* a submit only records it and an internal call confirms the order.       *)
(*                                                                         *)
(* Scan and verified submit run concurrently as transactions of several    *)
(* statements: the row of an order is locked, the unique signature of      *)
(* solana_deposits makes the later of two inserts wait for the earlier.    *)
(* A receipt's signature is its position in the wallet's history.          *)
(***************************************************************************)
EXTENDS Integers, Sequences, FiniteSets, FiniteSetsExt

CONSTANTS
    Accounts,      \* account ids; an account has one bound wallet
    Stranger,      \* a wallet of no ACTIVE account
    Purposes,      \* what an order may be for
    Exclusive,     \* purposes with at most one open order per account
    Price,         \* purpose -> AEB
    PayAmounts,    \* AEB amounts a wallet may transfer
    Timeout,       \* how long an order stays open
    RpcAtStart,    \* what SOLANA_RPC_ENABLED may be when the service first runs
    Clients,       \* verified submits in flight
    MaxOrders,     \* bound: orders
    MaxReceipts,   \* bound: receipts
    MaxNow,        \* bound: the clock
    MaxErrors,     \* bound: scans cut off by an RPC error, a crash or an empty answer
    NoOrder

ASSUME OrdersAssumption ==
    /\ Exclusive \subseteq Purposes
    /\ Price \in [Purposes -> Nat \ {0}]
    /\ PayAmounts \subseteq Nat \ {0}
    /\ {Timeout, MaxOrders, MaxReceipts, MaxNow, MaxErrors} \subseteq Nat
    /\ RpcAtStart \subseteq BOOLEAN
    /\ Stranger \notin Accounts
    /\ NoOrder \notin Nat

VARIABLES
    orders,      \* economy_payment_orders
    deposits,    \* solana_deposits: signature -> status of its row
    cursor,      \* chain_cursors.cursor_signature (0: none)
    receipts,    \* external: transfers to the deposit wallet
    rpcEnabled,  \* SOLANA_RPC_ENABLED
    client,      \* verified submits: [pc, order, sig]
    scan,        \* the deposit scan that holds the cursor's row
    broken,      \* orders whose purchase cannot be delivered
    now,
    errors,
    grants,      \* history: order -> how often its purchase was delivered
    byHand       \* history: orders that an internal call confirmed

ghosts == <<grants, byHand>>
vars == <<orders, deposits, cursor, receipts, rpcEnabled, client, scan, broken, now, errors, ghosts>>

NoSig == 0
Open == {"PENDING_PAYMENT", "SUBMITTED"}

IdleClient == [pc |-> "idle", order |-> NoOrder, sig |-> NoSig]
IdleScan == [pc |-> "idle", head |-> 0, todo |-> {}, rows |-> << >>, paid |-> << >>, locked |-> {}]

Init ==
    /\ orders = << >>
    /\ deposits = << >>
    /\ cursor = NoSig
    /\ receipts = << >>
    /\ rpcEnabled \in RpcAtStart
    /\ client = [c \in Clients |-> IdleClient]
    /\ scan = IdleScan
    /\ broken = {}
    /\ now = 0
    /\ errors = 0
    /\ grants = << >>
    /\ byHand = {}

Expired(o) == orders[o].expiresAt < now

(* Orders locked by, and signatures inserted by, transactions in flight. *)
LockedByClients == {client[c].order : c \in {d \in Clients : client[d].pc # "idle"}}
InsertedByClients == {client[c].sig : c \in {d \in Clients : client[d].pc = "inserted"}}

-----------------------------------------------------------------------------
(* CreateBagExpandPayment, CreateTradingLicensePayment and                 *)
(* MarketplaceExpandWalletSlots count the open orders of their purpose;    *)
(* lottery, shop and bounty orders do not.  An order whose time has passed *)
(* is still open.                                                          *)
CreateOrder(a, purpose) ==
    /\ Len(orders) < MaxOrders
    /\ now + Timeout < MaxNow
    /\ purpose \in Exclusive =>
          ~\E o \in DOMAIN orders : /\ orders[o].account = a
                                    /\ orders[o].purpose = purpose
                                    /\ orders[o].status \in Open
    /\ orders' = Append(orders,
            [account |-> a, purpose |-> purpose, amount |-> Price[purpose],
             status |-> "PENDING_PAYMENT", sig |-> NoSig, expiresAt |-> now + Timeout])
    /\ grants' = Append(grants, 0)
    /\ UNCHANGED <<byHand, deposits, cursor, receipts, rpcEnabled, client, scan, broken, now, errors>>

(* External: a wallet transfers AEB to the deposit wallet. *)
Pay(payer, amount) ==
    /\ Len(receipts) < MaxReceipts
    /\ receipts' = Append(receipts, [from |-> payer, amount |-> amount])
    /\ UNCHANGED <<orders, deposits, cursor, rpcEnabled, client, scan, broken, now, errors, ghosts>>

(* The character is deleted, the daily limit of the shop is used up, ...:  *)
(* fulfillPaymentOrderTx returns an error for the order from now on.       *)
Break(o) ==
    /\ orders[o].status \in Open
    /\ broken' = broken \cup {o}
    /\ UNCHANGED <<orders, deposits, cursor, receipts, rpcEnabled, client, scan, now, errors, ghosts>>

(* The service is restarted with SOLANA_RPC_ENABLED=true. *)
EnableRpc ==
    /\ ~rpcEnabled
    /\ rpcEnabled' = TRUE
    /\ UNCHANGED <<orders, deposits, cursor, receipts, client, scan, broken, now, errors, ghosts>>

-----------------------------------------------------------------------------
(* Without RPC: MarketplaceSubmitWalletExpandPayment records a signature.  *)
(* tx_signature is unique among orders.  (An order whose time has passed   *)
(* is refused, and the update to EXPIRED is rolled back with the refusal.) *)
SubmitUnverified(o, sig) ==
    /\ ~rpcEnabled
    /\ orders[o].status \in Open
    /\ ~Expired(o)
    /\ \A p \in DOMAIN orders \ {o} : orders[p].sig # sig
    /\ orders' = [orders EXCEPT ![o].status = "SUBMITTED", ![o].sig = sig]
    /\ UNCHANGED <<deposits, cursor, receipts, rpcEnabled, client, scan, broken, now, errors, ghosts>>

(* ConfirmPaymentOrder with fulfillPaymentOrderTx. *)
ConfirmPaymentOrder(o) ==
    /\ o \notin LockedByClients \cup scan.locked
    /\ orders[o].status = "SUBMITTED"
    /\ orders[o].sig # NoSig
    /\ o \notin broken
    /\ orders' = [orders EXCEPT ![o].status = "FULFILLED"]
    /\ grants' = [grants EXCEPT ![o] = @ + 1]
    /\ byHand' = byHand \cup {o}
    /\ UNCHANGED <<deposits, cursor, receipts, rpcEnabled, client, scan, broken, now, errors>>

-----------------------------------------------------------------------------
(* Fault: the order is read without FOR UPDATE. *)
SubmitReadOnly(c, o, sig) ==
    /\ rpcEnabled
    /\ client[c].pc = "idle"
    /\ orders[o].status \in Open
    /\ ~Expired(o)
    /\ client' = [client EXCEPT ![c] = [pc |-> "locked", order |-> o, sig |-> sig]]
    /\ UNCHANGED <<orders, deposits, cursor, receipts, rpcEnabled, scan, broken, now, errors, ghosts>>

(* SubmitPaymentOrderVerified: lockPaymentOrder and the checks on the order. *)
SubmitLock(c, o, sig) ==
    /\ rpcEnabled
    /\ client[c].pc = "idle"
    /\ o \notin LockedByClients \cup scan.locked
    /\ orders[o].status \in Open
    /\ ~Expired(o)
    /\ client' = [client EXCEPT ![c] = [pc |-> "locked", order |-> o, sig |-> sig]]
    /\ UNCHANGED <<orders, deposits, cursor, receipts, rpcEnabled, scan, broken, now, errors, ghosts>>

(* Fault: whoever paid, the receipt counts. *)
AnyPayer(o, sig) == receipts[sig].amount >= orders[o].amount

(* VerifyInboundPayment: the account's own wallet paid at least the price. *)
Verified(o, sig) ==
    /\ receipts[sig].from = orders[o].account
    /\ receipts[sig].amount >= orders[o].amount

(* INSERT INTO solana_deposits ... ON CONFLICT (signature) DO NOTHING      *)
(* waits for an insert in flight and gives up on a committed row.          *)
SubmitInsert(c) ==
    LET sig == client[c].sig
    IN  /\ client[c].pc = "locked"
        /\ Verified(client[c].order, sig)
        /\ sig \notin InsertedByClients \cup DOMAIN scan.rows
        /\ sig \notin DOMAIN deposits
        /\ client' = [client EXCEPT ![c].pc = "inserted"]
        /\ UNCHANGED <<orders, deposits, cursor, receipts, rpcEnabled, scan, broken, now, errors, ghosts>>

SubmitCommit(c) ==
    LET o == client[c].order
        sig == client[c].sig
    IN  /\ client[c].pc = "inserted"
        /\ o \notin broken
        /\ \A p \in DOMAIN orders \ {o} : orders[p].sig # sig
        /\ orders' = [orders EXCEPT ![o].status = "FULFILLED", ![o].sig = sig]
        /\ deposits' = [s \in DOMAIN deposits \cup {sig} |->
                            IF s \in DOMAIN deposits THEN deposits[s] ELSE "PAYMENT_MATCHED"]
        /\ grants' = [grants EXCEPT ![o] = @ + 1]
        /\ client' = [client EXCEPT ![c] = IdleClient]
        /\ UNCHANGED <<byHand, cursor, receipts, rpcEnabled, scan, broken, now, errors>>

(* A check fails, the receipt was already consumed, the delivery fails,    *)
(* the RPC call fails or the process dies.                                 *)
SubmitRollback(c) ==
    /\ client[c].pc # "idle"
    /\ client' = [client EXCEPT ![c] = IdleClient]
    /\ UNCHANGED <<orders, deposits, cursor, receipts, rpcEnabled, scan, broken, now, errors, ghosts>>

-----------------------------------------------------------------------------
(* ScanAndCreditDeposits.  ensureChainCursor locks the cursor's row; pages *)
(* of signatures are read backwards from the newest to the cursor.         *)
ScanBegin ==
    /\ rpcEnabled
    /\ scan.pc = "idle"
    /\ cursor < Len(receipts)
    /\ scan' = [IdleScan EXCEPT !.pc = "scanning", !.head = Len(receipts),
                                !.todo = (cursor + 1)..Len(receipts)]
    /\ UNCHANGED <<orders, deposits, cursor, receipts, rpcEnabled, client, broken, now, errors, ghosts>>

(* A node that answers with no signatures: the cursor is set to NULL. *)
ScanEmpty ==
    /\ rpcEnabled
    /\ scan.pc = "idle"
    /\ errors < MaxErrors
    /\ errors' = errors + 1
    /\ cursor' = NoSig
    /\ UNCHANGED <<orders, deposits, receipts, rpcEnabled, client, scan, broken, now, ghosts>>

(* Fault: orders whose time has passed are still matched. *)
MatchingForEver(sig) ==
    {o \in DOMAIN orders \ LockedByClients :
        /\ orders[o].account = receipts[sig].from
        /\ orders[o].status \in Open
        /\ o \notin DOMAIN scan.paid
        /\ orders[o].amount = receipts[sig].amount}

(* matchPaymentOrderFromDeposit: the order selected FOR UPDATE SKIP LOCKED *)
(* for a receipt, one that names its signature before the oldest.          *)
Matching(sig) ==
    {o \in DOMAIN orders \ LockedByClients :
        /\ orders[o].account = receipts[sig].from
        /\ orders[o].status \in Open
        /\ o \notin DOMAIN scan.paid
        /\ orders[o].amount = receipts[sig].amount
        /\ orders[o].sig \in {NoSig, sig}
        /\ orders[o].expiresAt > now}

Match(sig) ==
    LET named == {o \in Matching(sig) : orders[o].sig = sig}
    IN  IF Matching(sig) = {} THEN NoOrder
        ELSE IF named # {} THEN Min(named) ELSE Min(Matching(sig))

Record(sig, status) ==
    [s \in DOMAIN scan.rows \cup {sig} |-> IF s = sig THEN status ELSE scan.rows[s]]

(* processDepositSignature, newest receipt first.  A receipt already in    *)
(* solana_deposits is passed over; an order matched to it stays locked.    *)
ScanReceipt ==
    LET sig == Max(scan.todo)
        o == Match(sig)
        recorded == sig \in DOMAIN deposits
    IN  /\ scan.pc = "scanning"
        /\ scan.todo # {}
        /\ sig \notin InsertedByClients
        /\ \/ /\ o = NoOrder /\ ~recorded
              /\ scan' = [scan EXCEPT !.todo = @ \ {sig}, !.rows =
                    Record(sig, IF receipts[sig].from = Stranger THEN "IGNORED" ELSE "CREDITED")]
           \/ /\ o # NoOrder /\ ~recorded
              /\ o \notin broken
              /\ \A p \in DOMAIN orders \ {o} : orders[p].sig # sig
              /\ scan' = [scan EXCEPT !.todo = @ \ {sig}, !.locked = @ \cup {o},
                            !.rows = Record(sig, "PAYMENT_MATCHED"),
                            !.paid = [p \in DOMAIN @ \cup {o} |-> IF p = o THEN sig ELSE @[p]]]
           \/ /\ recorded
              /\ scan' = [scan EXCEPT !.todo = @ \ {sig}, !.locked = @ \cup ({o} \ {NoOrder})]
        /\ UNCHANGED <<orders, deposits, cursor, receipts, rpcEnabled, client, broken, now, errors, ghosts>>

(* A matched order cannot be delivered, or another order already names the *)
(* signature: the whole scan is rolled back.                               *)
ScanFulfilFails ==
    LET sig == Max(scan.todo)
        o == Match(sig)
    IN  /\ scan.pc = "scanning"
        /\ scan.todo # {}
        /\ sig \notin InsertedByClients \cup DOMAIN deposits
        /\ o # NoOrder
        /\ o \in broken \/ \E p \in DOMAIN orders \ {o} : orders[p].sig = sig
        /\ scan' = IdleScan
        /\ UNCHANGED <<orders, deposits, cursor, receipts, rpcEnabled, client, broken, now, errors, ghosts>>

(* Fault: the cursor is moved although the scan is rolled back. *)
AbortAdvances ==
    /\ scan.pc = "scanning"
    /\ errors < MaxErrors
    /\ errors' = errors + 1
    /\ cursor' = scan.head
    /\ scan' = IdleScan
    /\ UNCHANGED <<orders, deposits, receipts, rpcEnabled, client, broken, now, ghosts>>

(* An RPC call or a statement fails, or the process dies. *)
ScanAbort ==
    /\ scan.pc = "scanning"
    /\ errors < MaxErrors
    /\ errors' = errors + 1
    /\ scan' = IdleScan
    /\ UNCHANGED <<orders, deposits, cursor, receipts, rpcEnabled, client, broken, now, ghosts>>

ScanCommit ==
    /\ scan.pc = "scanning"
    /\ scan.todo = {}
    /\ deposits' = [s \in DOMAIN deposits \cup DOMAIN scan.rows |->
                        IF s \in DOMAIN scan.rows THEN scan.rows[s] ELSE deposits[s]]
    /\ orders' = [o \in DOMAIN orders |->
                    IF o \in DOMAIN scan.paid
                    THEN [orders[o] EXCEPT !.status = "FULFILLED", !.sig = scan.paid[o]]
                    ELSE orders[o]]
    /\ grants' = [o \in DOMAIN grants |->
                    IF o \in DOMAIN scan.paid THEN grants[o] + 1 ELSE grants[o]]
    /\ cursor' = scan.head
    /\ scan' = IdleScan
    /\ UNCHANGED <<byHand, receipts, rpcEnabled, client, broken, now, errors>>

Tick ==
    /\ now < MaxNow
    /\ now' = now + 1
    /\ UNCHANGED <<orders, deposits, cursor, receipts, rpcEnabled, client, scan, broken, errors, ghosts>>

ScanSteps == ScanBegin \/ ScanReceipt \/ ScanFulfilFails \/ ScanCommit

Next ==
    \/ \E a \in Accounts, purpose \in Purposes : CreateOrder(a, purpose)
    \/ \E payer \in Accounts \cup {Stranger}, amount \in PayAmounts : Pay(payer, amount)
    \/ \E o \in DOMAIN orders :
          \/ Break(o)
          \/ ConfirmPaymentOrder(o)
          \/ \E sig \in DOMAIN receipts :
                SubmitUnverified(o, sig) \/ \E c \in Clients : SubmitLock(c, o, sig)
    \/ \E c \in Clients : SubmitInsert(c) \/ SubmitCommit(c) \/ SubmitRollback(c)
    \/ ScanSteps
    \/ ScanEmpty
    \/ ScanAbort
    \/ EnableRpc
    \/ Tick

(* The worker asks for a scan on every tick, a submit ends one way or the  *)
(* other, and time passes.                                                 *)
Fairness ==
    /\ WF_vars(ScanSteps)
    /\ \A c \in Clients : WF_vars(SubmitCommit(c) \/ SubmitRollback(c))
    /\ WF_vars(Tick)

Spec == Init /\ [][Next]_vars /\ Fairness

-----------------------------------------------------------------------------
(* The type of the tables and of the transactions in flight. *)
TypeOK ==
    /\ orders \in Seq([account : Accounts, purpose : Purposes, amount : Nat, sig : Nat,
                       status : Open \cup {"FULFILLED"}, expiresAt : Nat])
    /\ DOMAIN deposits \subseteq DOMAIN receipts
    /\ \A sig \in DOMAIN deposits : deposits[sig] \in {"CREDITED", "IGNORED", "PAYMENT_MATCHED"}
    /\ cursor \in 0..Len(receipts)
    /\ receipts \in Seq([from : Accounts \cup {Stranger}, amount : PayAmounts])
    /\ client \in [Clients -> [pc : {"idle", "locked", "inserted"},
                               order : DOMAIN orders \cup {NoOrder}, sig : 0..Len(receipts)]]
    /\ scan.todo \cup DOMAIN scan.rows \subseteq DOMAIN receipts
    /\ DOMAIN scan.paid \cup scan.locked \cup broken \cup byHand \subseteq DOMAIN orders
    /\ grants \in [DOMAIN orders -> Nat]

Fulfilled == {o \in DOMAIN orders : orders[o].status = "FULFILLED"}

(* A verified receipt becomes value at most once: it pays for one order or *)
(* it is credited to the balance of the account, never both and never      *)
(* twice, also while and after the service goes over from confirmations by *)
(* hand (which record no deposit row) to verification.                     *)
VerifiedUsedOnce ==
    \A sig \in DOMAIN receipts :
        Cardinality({o \in Fulfilled \ byHand : orders[o].sig = sig})
            + (IF sig \in DOMAIN deposits /\ deposits[sig] = "CREDITED" THEN 1 ELSE 0) <= 1

(* But for a confirmation by hand, an order is only ever fulfilled by a    *)
(* recorded receipt of its own account that covers its price.              *)
FulfilledIsPaid ==
    \A o \in Fulfilled \ byHand :
        /\ orders[o].sig \in DOMAIN deposits
        /\ deposits[orders[o].sig] = "PAYMENT_MATCHED"
        /\ receipts[orders[o].sig].from = orders[o].account
        /\ receipts[orders[o].sig].amount >= orders[o].amount

(* A purchase is delivered once, and exactly when its order is fulfilled. *)
DeliveredOnce ==
    \A o \in DOMAIN orders : grants[o] = IF o \in Fulfilled THEN 1 ELSE 0

(* The cursor never passes a receipt that was not recorded: no page, abort *)
(* or concurrent submit makes the scan lose a deposit.                     *)
CursorSkipsNothing ==
    \A sig \in 1..cursor : sig \in DOMAIN deposits

(* Every receipt is eventually recorded, although an order that cannot be  *)
(* delivered makes every scan fail while it is open.                       *)
EveryReceiptRecorded ==
    \A sig \in 1..MaxReceipts :
        (rpcEnabled /\ sig \in DOMAIN receipts) ~> sig \in DOMAIN deposits

(* What the scan and a verified submit make of receipts: each pays once,   *)
(* and an order only ever by a receipt of its own.                         *)
ReceiptsPayOnce == TypeOK /\ VerifiedUsedOnce /\ FulfilledIsPaid
=============================================================================
