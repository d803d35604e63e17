----------------------------- MODULE AebLedger -----------------------------
(***************************************************************************)
(* The AEB books of an account: the four balance columns of                *)
(* account_tokens, the cooldown rows of locked_token_records, the          *)
(* withdrawal requests and the NFT mint fees that can be refunded.         *)
(*                                                                         *)
(* Every action is one committed PostgreSQL transaction.  Why the          *)
(* transactions may be treated as atomic is the subject of LedgerLocks,    *)
(* which models their row locks and implements this specification.         *)
(*                                                                         *)
(* Row ids are positions in the sequences: rows are only ever appended.    *)
(* issued, spent and requested are history variables: what has entered an  *)
(* account, what it has paid, and what it has asked to withdraw.           *)
(***************************************************************************)
EXTENDS Integers, Sequences, FiniteSets, Functions

CONSTANTS
    Accounts,        \* account ids
    Amounts,         \* AEB amounts a request may name
    AdminLocked,     \* lockedAeb amounts an administrator may grant (0 = none)
    Cooldowns,       \* hours until a granted row unlocks
    SettleLimit,     \* batch size of SettleUnlocks
    SingleMax,       \* AutoWithdrawSingleMax
    MaxRecords,      \* bound: rows of locked_token_records
    MaxWithdrawals,  \* bound: rows of withdrawals
    MaxMints,        \* bound: rows of nft_mint_requests
    MaxIssued,       \* bound: AEB issued to one account
    MaxNow           \* bound: the clock

ASSUME LedgerAssumption ==
    /\ Amounts \subseteq Nat \ {0}
    /\ AdminLocked \subseteq Nat
    /\ Cooldowns \subseteq Nat
    /\ {SettleLimit, SingleMax, MaxRecords, MaxWithdrawals,
        MaxMints, MaxIssued, MaxNow} \subseteq Nat

VARIABLES
    tokens,       \* account_tokens
    records,      \* locked_token_records
    withdrawals,  \* withdrawals
    mints,        \* nft_mint_requests, with the fee snapshot of their metadata
    now,          \* wall clock, in hours
    issued, spent, requested

vars == <<tokens, records, withdrawals, mints, now, issued, spent, requested>>
history == <<issued, spent, requested>>

Balances == [token : Nat, withdrawable : Nat, locked : Nat, external : Nat]

LockedRow == [account : Accounts, remaining : Nat, unlockAt : Nat,
              status : {"LOCKED", "UNLOCKED", "CONSUMED"}]

WithdrawalStatus == {"QUEUED", "MANUAL_REVIEW", "REJECTED", "PAYOUT_CREATED",
                     "SUBMITTED", "CONFIRMED", "FAILED"}

Withdrawal == [account : Accounts, amount : Nat \ {0}, status : WithdrawalStatus]

Breakdown == [locked : Nat, withdrawable : Nat, external : Nat]

Segment == [amount : Nat \ {0}, unlockAt : Nat]

MintRequest == [account : Accounts, fee : Nat \ {0}, spend : Breakdown,
                segments : Seq(Segment), status : {"PAID", "CONFIRMED", "CANCELLED"}]

-----------------------------------------------------------------------------
Lesser(x, y) == IF x < y THEN x ELSE y

Init ==
    /\ tokens = [a \in Accounts |->
                    [token |-> 0, withdrawable |-> 0, locked |-> 0, external |-> 0]]
    /\ records = << >>
    /\ withdrawals = << >>
    /\ mints = << >>
    /\ now = 0
    /\ issued = [a \in Accounts |-> 0]
    /\ spent = [a \in Accounts |-> 0]
    /\ requested = [a \in Accounts |-> 0]

(* One UPDATE account_tokens statement: signed changes of the four columns. *)
(* chk_account_tokens_nonnegative aborts the transaction that would leave   *)
(* a column below zero.                                                     *)
Adjust(a, token, withdrawable, locked, external) ==
    /\ tokens[a].token + token >= 0
    /\ tokens[a].withdrawable + withdrawable >= 0
    /\ tokens[a].locked + locked >= 0
    /\ tokens[a].external + external >= 0
    /\ tokens' = [tokens EXCEPT ![a] =
            [token |-> @.token + token,
             withdrawable |-> @.withdrawable + withdrawable,
             locked |-> @.locked + locked,
             external |-> @.external + external]]

LockedRecord(a, amount, unlockAt) ==
    [account |-> a, remaining |-> amount, unlockAt |-> unlockAt, status |-> "LOCKED"]

(* GrantLocked and grantLockedTokenInTxAt: a cooldown row and the balance. *)
GrantLocked(a, amount, hours) ==
    /\ Len(records) < MaxRecords
    /\ issued[a] + amount <= MaxIssued
    /\ records' = Append(records, LockedRecord(a, amount, now + hours))
    /\ Adjust(a, amount, 0, amount, 0)
    /\ issued' = [issued EXCEPT ![a] = @ + amount]
    /\ UNCHANGED <<withdrawals, mints, now, spent, requested>>

(* The AEB part of AdminGrantRewards and applyAdminRewardsTx.  No cooldown *)
(* row is written for the locked part.                                     *)
AdminGrant(a, withdrawable, locked) ==
    /\ withdrawable + locked > 0
    /\ issued[a] + withdrawable + locked <= MaxIssued
    /\ Adjust(a, withdrawable + locked, withdrawable, locked, 0)
    /\ issued' = [issued EXCEPT ![a] = @ + withdrawable + locked]
    /\ UNCHANGED <<records, withdrawals, mints, now, spent, requested>>

(* creditSolanaDeposit, for a receipt seen for the first time. *)
CreditDeposit(a, amount) ==
    /\ issued[a] + amount <= MaxIssued
    /\ Adjust(a, amount, 0, 0, amount)
    /\ issued' = [issued EXCEPT ![a] = @ + amount]
    /\ UNCHANGED <<records, withdrawals, mints, now, spent, requested>>

-----------------------------------------------------------------------------
(* The rows a spend may draw on, in the order ORDER BY unlock_at, id. *)
SpendableRows(a) ==
    {i \in DOMAIN records : /\ records[i].account = a
                            /\ records[i].status = "LOCKED"
                            /\ records[i].remaining > 0}

Before(i, j) ==
    \/ records[i].unlockAt < records[j].unlockAt
    \/ records[i].unlockAt = records[j].unlockAt /\ i < j

Remaining(rows) == SumFunctionOnSet([i \in DOMAIN records |-> records[i].remaining], rows)

(* Fault: the last row is not capped at what it holds. *)
TakenUncapped(a, amount, i) ==
    LET ahead == Remaining({j \in SpendableRows(a) : Before(j, i)})
    IN  IF ahead >= amount THEN 0 ELSE amount - ahead

(* Fault: rows are drawn in the order they were granted. *)
TakenByGrant(a, amount, i) ==
    LET ahead == Remaining({j \in SpendableRows(a) : j < i})
    IN  IF ahead >= amount THEN 0 ELSE Lesser(records[i].remaining, amount - ahead)

(* consumeLockedTokenFIFO: what a draw of amount takes from row i. *)
Taken(a, amount, i) ==
    LET ahead == Remaining({j \in SpendableRows(a) : Before(j, i)})
    IN  IF ahead >= amount THEN 0 ELSE Lesser(records[i].remaining, amount - ahead)

TouchedRows(a, amount) == {i \in SpendableRows(a) : Taken(a, amount, i) > 0}

ConsumeLockedFIFO(a, amount) ==
    /\ Remaining(SpendableRows(a)) >= amount
    /\ records' = [i \in DOMAIN records |->
            IF i \in TouchedRows(a, amount)
            THEN LET left == records[i].remaining - Taken(a, amount, i)
                 IN  [records[i] EXCEPT !.remaining = left,
                                        !.status = IF left = 0 THEN "CONSUMED" ELSE @]
            ELSE records[i]]

(* The touched rows in the order they are drawn. *)
DrawOrders(rows) ==
    {order \in [1..Cardinality(rows) -> rows] :
        \A k, l \in 1..Cardinality(rows) : k < l => Before(order[k], order[l])}

(* Fault: a segment names all that its row held. *)
SegmentsWholeRows(a, amount, order) ==
    [k \in DOMAIN order |->
        [amount |-> records[order[k]].remaining, unlockAt |-> records[order[k]].unlockAt]]

(* The LockedSegments of the breakdown: what was taken, and when it would *)
(* have unlocked.                                                         *)
SegmentsOf(a, amount, order) ==
    [k \in DOMAIN order |->
        [amount |-> Taken(a, amount, order[k]), unlockAt |-> records[order[k]].unlockAt]]

(* spendTokenInTx: locked first, then withdrawable, then external. *)
SpendOf(a, amount) ==
    LET locked == Lesser(amount, tokens[a].locked)
        withdrawable == Lesser(amount - locked, tokens[a].withdrawable)
    IN  [locked |-> locked, withdrawable |-> withdrawable,
         external |-> amount - locked - withdrawable]

Covers(a, amount) ==
    tokens[a].locked + tokens[a].withdrawable + tokens[a].external >= amount

SpendTokens(a, amount) ==
    LET s == SpendOf(a, amount)
    IN  /\ Covers(a, amount)
        /\ ConsumeLockedFIFO(a, s.locked)
        /\ Adjust(a, 0 - amount, 0 - s.withdrawable, 0 - s.locked, 0 - s.external)
        /\ spent' = [spent EXCEPT ![a] = @ + amount]

(* A repair, listing deposit, purchase or shop price: spent for good. *)
Spend(a, amount) ==
    /\ SpendTokens(a, amount)
    /\ UNCHANGED <<withdrawals, mints, now, issued, requested>>

(* RequestNFTMint: the fee with a snapshot of where it was taken from. *)
RequestNFTMint(a, fee) ==
    /\ Len(mints) < MaxMints
    /\ SpendTokens(a, fee)
    /\ LET s == SpendOf(a, fee)
       IN  \E order \in DrawOrders(TouchedRows(a, s.locked)) :
              mints' = Append(mints,
                    [account |-> a, fee |-> fee, spend |-> s,
                     segments |-> SegmentsOf(a, s.locked, order), status |-> "PAID"])
    /\ UNCHANGED <<withdrawals, now, issued, requested>>

ConfirmNFTMint(m) ==
    /\ mints[m].status = "PAID"
    /\ mints' = [mints EXCEPT ![m].status = "CONFIRMED"]
    /\ UNCHANGED <<tokens, records, withdrawals, now, history>>

(* The three consistency checks of refundNFTMintFee. *)
SnapshotConsistent(m) ==
    LET s == mints[m].spend
        segs == mints[m].segments
    IN  /\ s.locked + s.withdrawable + s.external = mints[m].fee
        /\ \A k \in DOMAIN segs : segs[k].amount > 0
        /\ SumFunction([k \in DOMAIN segs |-> segs[k].amount]) = s.locked

(* Fault: the refund restores the balances and writes no cooldown rows. *)
CancelWithoutRows(m) ==
    LET r == mints[m]
    IN  /\ r.status = "PAID"
        /\ SnapshotConsistent(m)
        /\ mints' = [mints EXCEPT ![m].status = "CANCELLED"]
        /\ Adjust(r.account, r.fee, r.spend.withdrawable, r.spend.locked, r.spend.external)
        /\ spent' = [spent EXCEPT ![r.account] = @ - r.fee]
        /\ UNCHANGED <<records, withdrawals, now, issued, requested>>

(* CancelNFTMint with refundNFTMintFee: each part returns to its category, *)
(* the locked part as new rows that keep their unlock times.               *)
CancelNFTMint(m) ==
    LET r == mints[m]
    IN  /\ r.status = "PAID"
        /\ SnapshotConsistent(m)
        /\ Len(records) + Len(r.segments) <= MaxRecords
        /\ mints' = [mints EXCEPT ![m].status = "CANCELLED"]
        /\ records' = records \o [k \in DOMAIN r.segments |->
                LockedRecord(r.account, r.segments[k].amount, r.segments[k].unlockAt)]
        /\ Adjust(r.account, r.fee, r.spend.withdrawable, r.spend.locked, r.spend.external)
        /\ spent' = [spent EXCEPT ![r.account] = @ - r.fee]
        /\ UNCHANGED <<withdrawals, now, issued, requested>>

-----------------------------------------------------------------------------
MatureRows == {i \in DOMAIN records : records[i].status = "LOCKED" /\ records[i].unlockAt <= now}

(* SettleUnlocks: a batch of mature rows (rows held by other transactions  *)
(* are skipped) moves from locked to withdrawable.                         *)
SettleUnlocks(batch) ==
    LET freed(a) == Remaining({i \in batch : records[i].account = a})
    IN  /\ batch # {}
        /\ Cardinality(batch) <= SettleLimit
        /\ \A a \in Accounts : tokens[a].locked >= freed(a)
        /\ records' = [i \in DOMAIN records |->
                IF i \in batch THEN [records[i] EXCEPT !.status = "UNLOCKED"] ELSE records[i]]
        /\ tokens' = [a \in Accounts |->
                [tokens[a] EXCEPT !.locked = @ - freed(a), !.withdrawable = @ + freed(a)]]
        /\ UNCHANGED <<withdrawals, mints, now, history>>

-----------------------------------------------------------------------------
(* RequestWithdrawal and CreateWithdrawal: only the withdrawable column is *)
(* debited; token_balance keeps counting the amount.                       *)
CreateWithdrawal(a, amount) ==
    /\ Len(withdrawals) < MaxWithdrawals
    /\ Adjust(a, 0, 0 - amount, 0, 0)
    /\ withdrawals' = Append(withdrawals,
            [account |-> a, amount |-> amount,
             status |-> IF amount > SingleMax THEN "MANUAL_REVIEW" ELSE "QUEUED"])
    /\ requested' = [requested EXCEPT ![a] = @ + amount]
    /\ UNCHANGED <<records, mints, now, issued, spent>>

ApproveWithdrawal(w) ==
    /\ withdrawals[w].status = "MANUAL_REVIEW"
    /\ withdrawals' = [withdrawals EXCEPT ![w].status = "QUEUED"]
    /\ UNCHANGED <<tokens, records, mints, now, history>>

(* Fault: the rejection refunds token_balance, which was never debited. *)
RejectRefundsTotal(w) ==
    LET r == withdrawals[w]
    IN  /\ r.status = "MANUAL_REVIEW"
        /\ withdrawals' = [withdrawals EXCEPT ![w].status = "REJECTED"]
        /\ Adjust(r.account, r.amount, r.amount, 0, 0)
        /\ requested' = [requested EXCEPT ![r.account] = @ - r.amount]
        /\ UNCHANGED <<records, mints, now, issued, spent>>

RejectWithdrawal(w) ==
    LET r == withdrawals[w]
    IN  /\ r.status = "MANUAL_REVIEW"
        /\ withdrawals' = [withdrawals EXCEPT ![w].status = "REJECTED"]
        /\ Adjust(r.account, 0, r.amount, 0, 0)
        /\ requested' = [requested EXCEPT ![r.account] = @ - r.amount]
        /\ UNCHANGED <<records, mints, now, issued, spent>>

(* What the payout jobs (module Payouts) do to a withdrawal row.  No job   *)
(* writes account_tokens, whatever the outcome.                            *)
PayoutJobMoves ==
    {<<"QUEUED", "MANUAL_REVIEW">>, <<"QUEUED", "PAYOUT_CREATED">>, <<"QUEUED", "CONFIRMED">>,
     <<"PAYOUT_CREATED", "SUBMITTED">>, <<"PAYOUT_CREATED", "FAILED">>,
     <<"SUBMITTED", "CONFIRMED">>, <<"SUBMITTED", "FAILED">>}

AdvanceWithdrawal(w, status) ==
    /\ <<withdrawals[w].status, status>> \in PayoutJobMoves
    /\ withdrawals' = [withdrawals EXCEPT ![w].status = status]
    /\ UNCHANGED <<tokens, records, mints, now, history>>

Tick ==
    /\ now < MaxNow
    /\ now' = now + 1
    /\ UNCHANGED <<tokens, records, withdrawals, mints, history>>

Next ==
    \/ \E a \in Accounts, amount \in Amounts :
          \/ \E hours \in Cooldowns : GrantLocked(a, amount, hours)
          \/ CreditDeposit(a, amount)
          \/ Spend(a, amount)
          \/ RequestNFTMint(a, amount)
          \/ CreateWithdrawal(a, amount)
    \/ \E a \in Accounts, wd \in Amounts \cup {0}, lk \in AdminLocked : AdminGrant(a, wd, lk)
    \/ \E m \in DOMAIN mints : ConfirmNFTMint(m) \/ CancelNFTMint(m)
    \/ \E batch \in SUBSET MatureRows : SettleUnlocks(batch)
    \/ \E w \in DOMAIN withdrawals :
          \/ ApproveWithdrawal(w)
          \/ RejectWithdrawal(w)
          \/ \E status \in WithdrawalStatus : AdvanceWithdrawal(w, status)
    \/ Tick

Spec == Init /\ [][Next]_vars
-----------------------------------------------------------------------------
(* The type of every table and of the clock. *)
TypeOK ==
    /\ tokens \in [Accounts -> Balances]
    /\ records \in Seq(LockedRow)
    /\ withdrawals \in Seq(Withdrawal)
    /\ mints \in Seq(MintRequest)
    /\ now \in Nat
    /\ issued \in [Accounts -> Int]
    /\ spent \in [Accounts -> Int]
    /\ requested \in [Accounts -> Int]

(* token_balance is what was issued less what was spent, and it is always  *)
(* the three spendable categories plus what withdrawals have taken out:    *)
(* grants, unlocks, spends, refunds and reviews never create or lose AEB.  *)
BooksBalance ==
    \A a \in Accounts :
        /\ tokens[a].token = issued[a] - spent[a]
        /\ tokens[a].token = tokens[a].locked + tokens[a].withdrawable
                                 + tokens[a].external + requested[a]

(* locked_token_records is the source of truth for cooldown AEB: the       *)
(* locked column is the sum of what the account's LOCKED rows still hold.  *)
LockedBacked ==
    \A a \in Accounts : tokens[a].locked = Remaining(SpendableRows(a))

(* What left the withdrawable column is exactly the withdrawals that were  *)
(* not rejected: no request is debited twice, no rejection refunds twice,  *)
(* and an approved, paid or failed withdrawal is never refunded.           *)
RequestedIsInFlight ==
    \A a \in Accounts :
        requested[a] = SumFunctionOnSet(
            [w \in DOMAIN withdrawals |-> withdrawals[w].amount],
            {w \in DOMAIN withdrawals : /\ withdrawals[w].account = a
                                        /\ withdrawals[w].status # "REJECTED"})

(* A mint request that may be cancelled always can be: refundNFTMintFee    *)
(* never finds its snapshot of the fee's sources inconsistent.             *)
PaidMintRefundable ==
    \A m \in DOMAIN mints : mints[m].status = "PAID" => SnapshotConsistent(m)

(* consumeLockedTokenFIFO never draws on a row while an earlier-unlocking  *)
(* row of the same account keeps any of its AEB.                           *)
FifoConsumption ==
    [][\A i \in DOMAIN records :
         records'[i].remaining < records[i].remaining =>
            \A j \in SpendableRows(records[i].account) :
                Before(j, i) => records'[j].remaining = 0]_vars

(* AEB cools down: a step that turns a LOCKED row into withdrawable AEB    *)
(* finds its unlock time reached, and a row that is settled or consumed    *)
(* stays so with its remainder untouched.                                  *)
CooldownRespected ==
    [][\A i \in DOMAIN records :
         /\ records[i].status = "LOCKED" /\ records'[i].status = "UNLOCKED"
                => records[i].unlockAt <= now
         /\ records[i].status # "LOCKED" => records'[i] = records[i]]_vars

(* No refund goes wrong: neither a rejected withdrawal nor a cancelled     *)
(* mint gives back more or less than it took.                              *)
RefundsCovered == RequestedIsInFlight /\ PaidMintRefundable

(* Cooldown rows are consumed earliest first and settle when due. *)
CooldownOrder == FifoConsumption /\ CooldownRespected
=============================================================================
