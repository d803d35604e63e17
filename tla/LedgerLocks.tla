---------------------------- MODULE LedgerLocks ----------------------------
(***************************************************************************)
(* The statements and row locks behind two transactions of AebLedger:      *)
(* spendTokenInTx (account row first, then the cooldown rows) and          *)
(* SettleUnlocks (a batch of cooldown rows with SKIP LOCKED, then one      *)
(* account row after the other).  They take their locks in opposite        *)
(* orders, so they can wait for each other; PostgreSQL then aborts one.    *)
(*                                                                         *)
(* What a transaction writes is computed from what it read when it took    *)
(* its locks (plan, image) and becomes visible when it commits.  The       *)
(* other transactions touch one account row only and stay atomic.          *)
(***************************************************************************)
EXTENDS AebLedger

CONSTANTS
    Spenders,    \* requests that spend AEB
    Settlers,    \* runs of the settle job: worker replicas, overlapping ticks
    MaxSpends,   \* bound: spends attempted
    MaxCrashes   \* bound: settle runs that die before they commit

ASSUME ProcsAssumption == Spenders \cap Settlers = {} /\ {MaxSpends, MaxCrashes} \subseteq Nat

VARIABLES
    pc,            \* where each transaction stands
    request,       \* a spender's account and amount
    plan,          \* a spender's breakdown, from the balances it read
    image,         \* row id -> the row this transaction will write
    accountLocks,  \* account_tokens rows held
    rowLocks,      \* locked_token_records rows held
    settled,       \* rows a settle run has already moved
    attempts,      \* spends started so far
    crashes        \* settle runs that died so far

lockVars == <<pc, request, plan, image, accountLocks, rowLocks, settled, attempts, crashes>>
allVars == <<vars, lockVars>>

Procs == Spenders \cup Settlers

AccountFree(p, a) == \A q \in Procs \ {p} : a \notin accountLocks[q]
RowFree(p, i) == \A q \in Procs \ {p} : i \notin rowLocks[q]

LInit ==
    /\ Init
    /\ pc = [p \in Procs |-> "idle"]
    /\ request = [p \in Spenders |-> [account |-> CHOOSE a \in Accounts : TRUE, amount |-> 0]]
    /\ plan = [p \in Spenders |-> [locked |-> 0, withdrawable |-> 0, external |-> 0]]
    /\ image = [p \in Procs |-> << >>]
    /\ accountLocks = [p \in Procs |-> {}]
    /\ rowLocks = [p \in Procs |-> {}]
    /\ settled = [p \in Procs |-> {}]
    /\ attempts = 0
    /\ crashes = 0

(* Fault: the rows stay locked when the transaction ends. *)
ReleaseKeepsRows(p) ==
    /\ pc' = [pc EXCEPT ![p] = "idle"]
    /\ image' = [image EXCEPT ![p] = << >>]
    /\ accountLocks' = [accountLocks EXCEPT ![p] = {}]
    /\ settled' = [settled EXCEPT ![p] = {}]
    /\ UNCHANGED <<request, plan, rowLocks>>

(* The end of a transaction: every lock is released. *)
Release(p) ==
    /\ pc' = [pc EXCEPT ![p] = "idle"]
    /\ image' = [image EXCEPT ![p] = << >>]
    /\ accountLocks' = [accountLocks EXCEPT ![p] = {}]
    /\ rowLocks' = [rowLocks EXCEPT ![p] = {}]
    /\ settled' = [settled EXCEPT ![p] = {}]
    /\ UNCHANGED <<request, plan>>

-----------------------------------------------------------------------------
(* SELECT ... FROM account_tokens ... FOR UPDATE, and the check of the sum. *)
SpendLockAccount(p, a, amount) ==
    /\ pc[p] = "idle"
    /\ AccountFree(p, a)
    /\ Covers(a, amount)
    /\ attempts < MaxSpends
    /\ attempts' = attempts + 1
    /\ pc' = [pc EXCEPT ![p] = "account"]
    /\ request' = [request EXCEPT ![p] = [account |-> a, amount |-> amount]]
    /\ plan' = [plan EXCEPT ![p] = SpendOf(a, amount)]
    /\ accountLocks' = [accountLocks EXCEPT ![p] = {a}]
    /\ UNCHANGED <<vars, image, rowLocks, settled, crashes>>

(* The rows consumeLockedTokenFIFO selects FOR UPDATE; it is not called    *)
(* when nothing is drawn from the locked column.                           *)
WantedRows(p) ==
    IF plan[p].locked > 0 THEN SpendableRows(request[p].account) ELSE {}

First(rows) == CHOOSE i \in rows : \A j \in rows : j = i \/ Before(i, j)

(* FOR UPDATE locks the rows one by one in the order of the query, waiting *)
(* for each; a row that its last holder unlocked drops out of the result.  *)
SpendLockRow(p) ==
    LET missing == WantedRows(p) \ rowLocks[p]
    IN  /\ pc[p] = "account"
        /\ missing # {}
        /\ RowFree(p, First(missing))
        /\ rowLocks' = [rowLocks EXCEPT ![p] = @ \cup {First(missing)}]
        /\ UNCHANGED <<vars, pc, request, plan, image, accountLocks, settled, attempts, crashes>>

SpendConsume(p) ==
    LET a == request[p].account
        draw == plan[p].locked
    IN  /\ pc[p] = "account"
        /\ WantedRows(p) \subseteq rowLocks[p]
        /\ Remaining(WantedRows(p)) >= draw
        /\ pc' = [pc EXCEPT ![p] = "rows"]
        /\ image' = [image EXCEPT ![p] = [i \in TouchedRows(a, draw) |->
                LET left == records[i].remaining - Taken(a, draw, i)
                IN  [records[i] EXCEPT !.remaining = left,
                                       !.status = IF left = 0 THEN "CONSUMED" ELSE @]]]
        /\ UNCHANGED <<vars, request, plan, accountLocks, rowLocks, settled, attempts, crashes>>

SpendCommit(p) ==
    LET a == request[p].account
        s == plan[p]
    IN  /\ pc[p] = "rows"
        /\ records' = [i \in DOMAIN records |->
                IF i \in DOMAIN image[p]
                THEN [records[i] EXCEPT !.remaining = image[p][i].remaining,
                                        !.status = image[p][i].status]
                ELSE records[i]]
        /\ Adjust(a, 0 - request[p].amount, 0 - s.withdrawable, 0 - s.locked, 0 - s.external)
        /\ spent' = [spent EXCEPT ![a] = @ + request[p].amount]
        /\ UNCHANGED <<withdrawals, mints, now, issued, requested, attempts, crashes>>
        /\ Release(p)

-----------------------------------------------------------------------------
(* Fault: the batch is selected without locking its rows. *)
SettleUnlockedBatch(p) ==
    /\ pc[p] = "idle"
    /\ MatureRows # {}
    /\ rowLocks' = [rowLocks EXCEPT ![p] = MatureRows]
    /\ image' = [image EXCEPT ![p] =
            [i \in MatureRows |-> [records[i] EXCEPT !.status = "UNLOCKED"]]]
    /\ pc' = [pc EXCEPT ![p] = "batch"]
    /\ UNCHANGED <<vars, request, plan, accountLocks, settled, attempts, crashes>>

(* SELECT ... ORDER BY unlock_at LIMIT n FOR UPDATE SKIP LOCKED. *)
SettleLockBatch(p) ==
    LET free == {i \in MatureRows : RowFree(p, i)}
    IN  /\ pc[p] = "idle"
        /\ free # {}
        /\ \E batch \in SUBSET free :
              /\ Cardinality(batch) = Lesser(SettleLimit, Cardinality(free))
              /\ \A i \in batch, j \in free \ batch : records[i].unlockAt <= records[j].unlockAt
              /\ rowLocks' = [rowLocks EXCEPT ![p] = batch]
              /\ image' = [image EXCEPT ![p] =
                      [i \in batch |-> [records[i] EXCEPT !.status = "UNLOCKED"]]]
        /\ pc' = [pc EXCEPT ![p] = "batch"]
        /\ UNCHANGED <<vars, request, plan, accountLocks, settled, attempts, crashes>>

(* The UPDATE account_tokens of one row waits for the account's lock. *)
SettleRow(p) ==
    /\ pc[p] = "batch"
    /\ settled[p] # rowLocks[p]
    /\ LET i == First(rowLocks[p] \ settled[p])
       IN  /\ AccountFree(p, records[i].account)
           /\ accountLocks' = [accountLocks EXCEPT ![p] = @ \cup {records[i].account}]
           /\ settled' = [settled EXCEPT ![p] = @ \cup {i}]
    /\ UNCHANGED <<vars, pc, request, plan, image, rowLocks, attempts, crashes>>

SettleCommit(p) ==
    LET batch == DOMAIN image[p]
        freed(a) == SumFunctionOnSet([i \in batch |-> image[p][i].remaining],
                                     {i \in batch : image[p][i].account = a})
    IN  /\ pc[p] = "batch"
        /\ settled[p] = rowLocks[p]
        /\ \A a \in Accounts : tokens[a].locked >= freed(a)
        /\ records' = [i \in DOMAIN records |->
                IF i \in batch THEN [records[i] EXCEPT !.status = "UNLOCKED"] ELSE records[i]]
        /\ tokens' = [a \in Accounts |->
                [tokens[a] EXCEPT !.locked = @ - freed(a), !.withdrawable = @ + freed(a)]]
        /\ UNCHANGED <<withdrawals, mints, now, history, attempts, crashes>>
        /\ Release(p)

-----------------------------------------------------------------------------
(* p waits for a lock that q holds. *)
WaitsFor(p, q) ==
    \/ /\ p \in Spenders /\ pc[p] = "account"
       /\ WantedRows(p) \ rowLocks[p] # {}
       /\ p # q /\ First(WantedRows(p) \ rowLocks[p]) \in rowLocks[q]
    \/ /\ p \in Settlers /\ pc[p] = "batch" /\ settled[p] # rowLocks[p]
       /\ p # q /\ records[First(rowLocks[p] \ settled[p])].account \in accountLocks[q]

Deadlocked(p) ==
    \E cycle \in SUBSET Procs :
        /\ p \in cycle
        /\ \A x \in cycle : \E y \in cycle : WaitsFor(x, y)
        /\ \A y \in cycle : \E x \in cycle : WaitsFor(x, y)

(* PostgreSQL's deadlock detector aborts one transaction of the cycle: the *)
(* spend returns an error, the settle run panics in must().                *)
DeadlockVictim(p) ==
    /\ Deadlocked(p)
    /\ Release(p)
    /\ UNCHANGED <<vars, attempts, crashes>>

(* A later statement of the caller fails, or a draw finds too few rows:    *)
(* the deferred rollback ends the spend.                                   *)
SpendRollback(p) ==
    /\ pc[p] \in {"account", "rows"}
    /\ Release(p)
    /\ UNCHANGED <<vars, attempts, crashes>>

SettleCrash(p) ==
    /\ pc[p] = "batch"
    /\ crashes < MaxCrashes
    /\ crashes' = crashes + 1
    /\ Release(p)
    /\ UNCHANGED <<vars, attempts>>

(* Transactions that lock one account row and nothing else. *)
SingleRow(a, amount) ==
    /\ \A p \in Procs : a \notin accountLocks[p]
    /\ \/ \E hours \in Cooldowns : GrantLocked(a, amount, hours)
       \/ CreditDeposit(a, amount)
       \/ CreateWithdrawal(a, amount)
    /\ UNCHANGED lockVars

LTick == Tick /\ UNCHANGED lockVars

SpendSteps(p) ==
    \/ \E a \in Accounts, amount \in Amounts : SpendLockAccount(p, a, amount)
    \/ SpendLockRow(p)
    \/ SpendConsume(p)
    \/ SpendCommit(p)
    \/ SpendRollback(p)

SettleSteps(p) ==
    \/ SettleLockBatch(p)
    \/ SettleRow(p)
    \/ SettleCommit(p)
    \/ SettleCrash(p)

LNext ==
    \/ \E p \in Spenders : SpendSteps(p)
    \/ \E p \in Settlers : SettleSteps(p)
    \/ \E p \in Procs : DeadlockVictim(p)
    \/ \E a \in Accounts, amount \in Amounts : SingleRow(a, amount)
    \/ LTick

(* The worker calls the job on every tick; PostgreSQL serves row locks in  *)
(* arrival order and runs its deadlock detector, and a transaction that    *)
(* has its locks ends; only MaxCrashes settle runs die.                    *)
Fairness ==
    /\ \A p \in Spenders :
          /\ SF_allVars(SpendLockRow(p))
          /\ WF_allVars(SpendConsume(p) \/ SpendCommit(p) \/ SpendRollback(p))
    /\ \A p \in Settlers :
          /\ WF_allVars(SettleLockBatch(p))
          /\ \A i \in 1..MaxRecords :
                SF_allVars(SettleRow(p) /\ i = First(rowLocks[p] \ settled[p]))
          /\ WF_allVars(SettleCommit(p))
    /\ \A p \in Procs : WF_allVars(DeadlockVictim(p))

LSpec == LInit /\ [][LNext]_allVars /\ Fairness

-----------------------------------------------------------------------------
(* The interleaved statements implement the atomic transactions of         *)
(* AebLedger: spends and settle runs are serializable.                     *)
ImplementsLedger == Spec

(* A mature row is eventually unlocked or spent, whatever the spends and   *)
(* the other settle runs do and whoever loses the deadlocks.               *)
MatureRowsSettle ==
    \A i \in 1..MaxRecords :
        i \in MatureRows ~> (i \in DOMAIN records /\ records[i].status # "LOCKED")
=============================================================================
