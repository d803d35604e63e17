-------------------------- MODULE AebLedgerProofs ---------------------------
(***************************************************************************)
(* Proofs about the AEB books, for every set of accounts and every amount, *)
(* batch size, cooldown and bound; and that the statements and row locks   *)
(* of LedgerLocks implement them, for every set of spenders and settlers.  *)
(***************************************************************************)
EXTENDS LedgerLocks, Sums, SequenceTheorems

(* What the type of locked_token_records says of a row. *)
LEMMA RowFacts ==
    ASSUME TypeOK
    PROVE  /\ DOMAIN records = 1..Len(records)
           /\ Len(records) \in Nat
           /\ IsFiniteSet(DOMAIN records)
           /\ \A i \in DOMAIN records : /\ records[i] \in LockedRow
                                        /\ records[i].account \in Accounts
                                        /\ records[i].remaining \in Nat
                                        /\ records[i].unlockAt \in Nat
<1>1. records \in Seq(LockedRow)
    BY DEF TypeOK
<1>2. DOMAIN records = 1..Len(records) /\ Len(records) \in Nat
    BY <1>1
<1>3. IsFiniteSet(1..Len(records))
    BY <1>2, FS_Interval
<1>4. \A i \in DOMAIN records : records[i] \in LockedRow
    BY <1>1
<1>. QED
    BY <1>2, <1>3, <1>4 DEF LockedRow

(* Rows hold natural amounts, so any set of them does. *)
LEMMA RemainingNat ==
    ASSUME TypeOK, NEW rows \in SUBSET DOMAIN records
    PROVE  Remaining(rows) \in Nat
<1>. DEFINE f == [i \in DOMAIN records |-> records[i].remaining]
<1>1. IsFiniteSet(rows)
    BY RowFacts, FS_Subset
<1>2. \A i \in rows : f[i] \in Nat
    BY RowFacts
<1>. HIDE DEF f
<1>3. SumFunctionOnSet(f, rows) \in Nat
    BY <1>1, <1>2, SumNat
<1>. QED
    BY <1>3 DEF Remaining, f

(* consumeLockedTokenFIFO never takes more from a row than it holds. *)
LEMMA TakenBounds ==
    ASSUME TypeOK, NEW a \in Accounts, NEW amount \in Nat, NEW i \in DOMAIN records
    PROVE  Taken(a, amount, i) \in Nat /\ Taken(a, amount, i) <= records[i].remaining
<1>. DEFINE rows == {j \in SpendableRows(a) : Before(j, i)}
<1>1. Remaining(rows) \in Nat
  <2>1. rows \in SUBSET DOMAIN records
      BY DEF SpendableRows
  <2>. QED
      BY <2>1, RemainingNat
<1>2. records[i].remaining \in Nat
    BY RowFacts
<1>. HIDE DEF rows
<1>3. Taken(a, amount, i) = IF Remaining(rows) >= amount THEN 0
                            ELSE Lesser(records[i].remaining, amount - Remaining(rows))
    BY DEF Taken, rows
<1>. QED
    BY <1>1, <1>2, <1>3 DEF Lesser

(* A draw keeps the rows rows. *)
LEMMA ConsumeKeepsRows ==
    ASSUME TypeOK, NEW a \in Accounts, NEW amount \in Nat, ConsumeLockedFIFO(a, amount)
    PROVE  /\ records' \in Seq(LockedRow)
           /\ Len(records') = Len(records)
           /\ DOMAIN records' = DOMAIN records
<1>. DEFINE row(i) ==
        IF i \in TouchedRows(a, amount)
        THEN LET left == records[i].remaining - Taken(a, amount, i)
             IN  [records[i] EXCEPT !.remaining = left,
                                    !.status = IF left = 0 THEN "CONSUMED" ELSE @]
        ELSE records[i]
<1>1. ASSUME NEW i \in DOMAIN records PROVE row(i) \in LockedRow
  <2>1. records[i] \in LockedRow
      BY DEF TypeOK
  <2>2. records[i].remaining - Taken(a, amount, i) \in Nat
      BY <2>1, TakenBounds DEF LockedRow
  <2>. QED
      BY <2>1, <2>2 DEF LockedRow
<1>. HIDE DEF row
<1>2. records' = [i \in DOMAIN records |-> row(i)]
    BY DEF ConsumeLockedFIFO, row
<1>3. DOMAIN records = 1..Len(records) /\ Len(records) \in Nat
    BY DEF TypeOK
<1>. QED
    BY <1>1, <1>2, <1>3

(* spendTokenInTx splits a covered amount among the three categories. *)
LEMMA SpendSplits ==
    ASSUME TypeOK, NEW a \in Accounts, NEW amount \in Nat, Covers(a, amount)
    PROVE  LET s == SpendOf(a, amount)
           IN  /\ s \in Breakdown
               /\ s.locked + s.withdrawable + s.external = amount
               /\ s.locked <= tokens[a].locked
               /\ s.withdrawable <= tokens[a].withdrawable
               /\ s.external <= tokens[a].external
<1>1. /\ tokens[a].locked \in Nat
      /\ tokens[a].withdrawable \in Nat
      /\ tokens[a].external \in Nat
    BY DEF TypeOK, Balances
<1>. QED
    BY <1>1 DEF SpendOf, Covers, Lesser, Breakdown

(* An UPDATE account_tokens changes one row, by the amounts it names. *)
LEMMA AdjustEffect ==
    ASSUME TypeOK, NEW a \in Accounts, NEW t \in Int, NEW w \in Int, NEW l \in Int, NEW e \in Int,
           Adjust(a, t, w, l, e)
    PROVE  /\ tokens' \in [Accounts -> Balances]
           /\ tokens'[a].token = tokens[a].token + t
           /\ tokens'[a].withdrawable = tokens[a].withdrawable + w
           /\ tokens'[a].locked = tokens[a].locked + l
           /\ tokens'[a].external = tokens[a].external + e
           /\ \A b \in Accounts \ {a} : tokens'[b] = tokens[b]
<1>. DEFINE row == [token |-> tokens[a].token + t, withdrawable |-> tokens[a].withdrawable + w,
                    locked |-> tokens[a].locked + l, external |-> tokens[a].external + e]
<1>1. tokens \in [Accounts -> Balances]
    BY DEF TypeOK
<1>2. tokens' = [tokens EXCEPT ![a] = row]
    BY DEF Adjust
<1>3. row \in Balances
    BY <1>1 DEF Adjust, Balances
<1>4. tokens'[a] = row
    BY <1>1, <1>2
<1>5. \A b \in Accounts \ {a} : tokens'[b] = tokens[b]
    BY <1>1, <1>2
<1>6. tokens' \in [Accounts -> Balances]
    BY <1>1, <1>2, <1>3
<1>. QED
    BY <1>4, <1>5, <1>6

-----------------------------------------------------------------------------
(* x, a column of the history, changes by d for account a and for no other. *)
Moves(x, y, a, d) == y \in [Accounts -> Int] /\ \A b \in Accounts : y[b] = x[b] + (IF b = a THEN d ELSE 0)

(* A transaction balances the books when what it adds to token_balance is  *)
(* what it issues less what it spends, and what it adds to the categories  *)
(* plus what it requests.                                                  *)
LEMMA BooksStep ==
    ASSUME TypeOK, BooksBalance, NEW a \in Accounts,
           NEW t \in Int, NEW w \in Int, NEW l \in Int, NEW e \in Int, Adjust(a, t, w, l, e),
           NEW di \in Int, NEW ds \in Int, NEW dr \in Int,
           Moves(issued, issued', a, di), Moves(spent, spent', a, ds),
           Moves(requested, requested', a, dr),
           t = di - ds, t = w + l + e + dr
    PROVE  BooksBalance'
<1>. SUFFICES ASSUME NEW b \in Accounts
              PROVE  /\ tokens'[b].token = issued'[b] - spent'[b]
                     /\ tokens'[b].token = tokens'[b].locked + tokens'[b].withdrawable
                                               + tokens'[b].external + requested'[b]
    BY DEF BooksBalance
<1>0. tokens[b] \in Balances
    BY DEF TypeOK
<1>1. /\ tokens[b].token \in Int
      /\ tokens[b].locked \in Int
      /\ tokens[b].withdrawable \in Int
      /\ tokens[b].external \in Int
    BY <1>0 DEF Balances
<1>2. issued[b] \in Int /\ spent[b] \in Int /\ requested[b] \in Int
    BY DEF TypeOK
<1>3. /\ tokens[b].token = issued[b] - spent[b]
      /\ tokens[b].token = tokens[b].locked + tokens[b].withdrawable
                               + tokens[b].external + requested[b]
    BY DEF BooksBalance
<1>4. /\ issued'[b] = issued[b] + (IF b = a THEN di ELSE 0)
      /\ spent'[b] = spent[b] + (IF b = a THEN ds ELSE 0)
      /\ requested'[b] = requested[b] + (IF b = a THEN dr ELSE 0)
    BY DEF Moves
<1>5. CASE b = a
  <2>1. /\ tokens'[b].token = tokens[b].token + t
        /\ tokens'[b].withdrawable = tokens[b].withdrawable + w
        /\ tokens'[b].locked = tokens[b].locked + l
        /\ tokens'[b].external = tokens[b].external + e
      BY <1>5, AdjustEffect
  <2>2. issued'[b] = issued[b] + di /\ spent'[b] = spent[b] + ds /\ requested'[b] = requested[b] + dr
      BY <1>4, <1>5
  <2>3. tokens[b].token + t = (issued[b] + di) - (spent[b] + ds)
      BY <1>1, <1>2, <1>3
  <2>4. tokens[b].token + t = (tokens[b].locked + l) + (tokens[b].withdrawable + w)
                                 + (tokens[b].external + e) + (requested[b] + dr)
    <3>. DEFINE T == tokens[b].token
                L == tokens[b].locked
                W == tokens[b].withdrawable
                E == tokens[b].external
                R == requested[b]
    <3>1. T \in Int /\ L \in Int /\ W \in Int /\ E \in Int /\ R \in Int /\ T = L + W + E + R
        BY <1>1, <1>2, <1>3
    <3>. HIDE DEF T, L, W, E, R
    <3>2. T + t = (L + l) + (W + w) + (E + e) + (R + dr)
        BY <3>1
    <3>. QED
        BY <3>2 DEF T, L, W, E, R
  <2>. QED
      BY <2>1, <2>2, <2>3, <2>4
<1>6. CASE b # a
  <2>1. tokens'[b] = tokens[b]
      BY <1>6, AdjustEffect
  <2>2. issued'[b] = issued[b] /\ spent'[b] = spent[b] /\ requested'[b] = requested[b]
      BY <1>2, <1>4, <1>6
  <2>. QED
      BY <1>3, <2>1, <2>2
<1>. QED
    BY <1>5, <1>6

(* The types and the books together are inductive. *)
IInv == TypeOK /\ BooksBalance

LEMMA InitIInv == Init => IInv
<1>. SUFFICES ASSUME Init PROVE IInv
    OBVIOUS
<1>1. tokens \in [Accounts -> Balances]
    BY DEF Init, Balances
<1>2. TypeOK
    BY <1>1 DEF Init, TypeOK
<1>. QED
    BY <1>2 DEF Init, IInv, BooksBalance

(* The tables other than account_tokens have their types. *)
TablesTyped ==
    /\ records \in Seq(LockedRow)
    /\ withdrawals \in Seq(Withdrawal)
    /\ mints \in Seq(MintRequest)
    /\ now \in Nat

(* A transaction that updates the balances of one account. *)
LEMMA MoneyStep ==
    ASSUME IInv, NEW a \in Accounts,
           NEW t \in Int, NEW w \in Int, NEW l \in Int, NEW e \in Int, Adjust(a, t, w, l, e),
           NEW di \in Int, NEW ds \in Int, NEW dr \in Int,
           Moves(issued, issued', a, di), Moves(spent, spent', a, ds),
           Moves(requested, requested', a, dr),
           t = di - ds, t = w + l + e + dr, TablesTyped'
    PROVE  IInv'
<1>1. TypeOK /\ BooksBalance
    BY DEF IInv
<1>2. BooksBalance'
    BY <1>1, BooksStep, Zenon
<1>3. tokens' \in [Accounts -> Balances]
    BY <1>1, AdjustEffect, Zenon
<1>4. TypeOK'
    BY <1>3 DEF TypeOK, TablesTyped, Moves
<1>. QED
    BY <1>2, <1>4 DEF IInv

(* A transaction that leaves the balances alone. *)
LEMMA QuietStep ==
    ASSUME IInv, UNCHANGED <<tokens, history>>, TablesTyped'
    PROVE  IInv'
BY DEF IInv, TypeOK, BooksBalance, TablesTyped, history

LEMMA GrantStep ==
    ASSUME IInv, NEW a \in Accounts, NEW amount \in Nat, NEW hours \in Nat,
           GrantLocked(a, amount, hours)
    PROVE  IInv'
<1>1. /\ Adjust(a, amount, 0, amount, 0)
      /\ issued' = [issued EXCEPT ![a] = @ + amount]
      /\ UNCHANGED <<withdrawals, mints, now, spent, requested>>
      /\ records' = Append(records, LockedRecord(a, amount, now + hours))
    BY DEF GrantLocked
<1>2. /\ Moves(issued, issued', a, amount)
      /\ Moves(spent, spent', a, 0)
      /\ Moves(requested, requested', a, 0)
    BY <1>1 DEF IInv, TypeOK, Moves
<1>3. LockedRecord(a, amount, now + hours) \in LockedRow
    BY DEF LockedRecord, LockedRow, IInv, TypeOK
<1>4. TablesTyped'
    BY <1>1, <1>3 DEF IInv, TypeOK, TablesTyped
<1>5. /\ amount \in Int /\ 0 \in Int
      /\ amount = amount - 0
      /\ amount = 0 + amount + 0 + 0
    OBVIOUS
<1>. QED
    BY <1>1, <1>2, <1>4, <1>5, MoneyStep, Zenon

LEMMA AdminGrantStep ==
    ASSUME IInv, NEW a \in Accounts, NEW wd \in Nat, NEW lk \in Nat, AdminGrant(a, wd, lk)
    PROVE  IInv'
<1>1. /\ Adjust(a, wd + lk, wd, lk, 0)
      /\ issued' = [issued EXCEPT ![a] = @ + wd + lk]
      /\ UNCHANGED <<records, withdrawals, mints, now, spent, requested>>
    BY DEF AdminGrant
<1>2. /\ Moves(issued, issued', a, wd + lk)
      /\ Moves(spent, spent', a, 0)
      /\ Moves(requested, requested', a, 0)
    BY <1>1 DEF IInv, TypeOK, Moves
<1>3. TablesTyped'
    BY <1>1 DEF IInv, TypeOK, TablesTyped
<1>4. /\ wd + lk \in Int /\ wd \in Int /\ lk \in Int /\ 0 \in Int
      /\ wd + lk = (wd + lk) - 0
      /\ wd + lk = wd + lk + 0 + 0
    OBVIOUS
<1>. QED
    BY <1>1, <1>2, <1>3, <1>4, MoneyStep, Zenon

LEMMA DepositStep ==
    ASSUME IInv, NEW a \in Accounts, NEW amount \in Nat, CreditDeposit(a, amount)
    PROVE  IInv'
<1>1. /\ Adjust(a, amount, 0, 0, amount)
      /\ issued' = [issued EXCEPT ![a] = @ + amount]
      /\ UNCHANGED <<records, withdrawals, mints, now, spent, requested>>
    BY DEF CreditDeposit
<1>2. /\ Moves(issued, issued', a, amount)
      /\ Moves(spent, spent', a, 0)
      /\ Moves(requested, requested', a, 0)
    BY <1>1 DEF IInv, TypeOK, Moves
<1>3. TablesTyped'
    BY <1>1 DEF IInv, TypeOK, TablesTyped
<1>4. /\ amount \in Int /\ 0 \in Int
      /\ amount = amount - 0
      /\ amount = 0 + 0 + amount + 0
    OBVIOUS
<1>. QED
    BY <1>1, <1>2, <1>3, <1>4, MoneyStep, Zenon

(* A spend keeps the books, whatever its caller does to the other tables. *)
LEMMA SpendStep ==
    ASSUME IInv, NEW a \in Accounts, NEW amount \in Nat, SpendTokens(a, amount),
           UNCHANGED <<withdrawals, now, issued, requested>>, mints' \in Seq(MintRequest)
    PROVE  IInv'
<1>. DEFINE s == SpendOf(a, amount)
<1>1. /\ Covers(a, amount)
      /\ ConsumeLockedFIFO(a, s.locked)
      /\ Adjust(a, 0 - amount, 0 - s.withdrawable, 0 - s.locked, 0 - s.external)
      /\ spent' = [spent EXCEPT ![a] = @ + amount]
    BY DEF SpendTokens
<1>2. TypeOK
    BY DEF IInv
<1>3. s \in Breakdown /\ s.locked + s.withdrawable + s.external = amount
    BY <1>1, <1>2, SpendSplits
<1>. HIDE DEF s
<1>4. s.locked \in Nat /\ s.withdrawable \in Nat /\ s.external \in Nat
    BY <1>3 DEF Breakdown
<1>5. /\ Moves(issued, issued', a, 0)
      /\ Moves(spent, spent', a, amount)
      /\ Moves(requested, requested', a, 0)
    BY <1>1, <1>2 DEF TypeOK, Moves
<1>6. records' \in Seq(LockedRow)
    BY <1>1, <1>2, <1>4, ConsumeKeepsRows, Zenon
<1>7. TablesTyped'
    BY <1>2, <1>6 DEF TypeOK, TablesTyped
<1>8. /\ 0 - amount \in Int /\ 0 - s.withdrawable \in Int /\ 0 - s.locked \in Int
      /\ 0 - s.external \in Int /\ 0 \in Int /\ amount \in Int
      /\ 0 - amount = 0 - amount
      /\ 0 - amount = (0 - s.withdrawable) + (0 - s.locked) + (0 - s.external) + 0
  <2>. DEFINE L == s.locked
              W == s.withdrawable
              E == s.external
  <2>1. L \in Nat /\ W \in Nat /\ E \in Nat /\ L + W + E = amount
      BY <1>3, <1>4
  <2>. HIDE DEF L, W, E
  <2>2. /\ 0 - amount \in Int /\ 0 - W \in Int /\ 0 - L \in Int
        /\ 0 - E \in Int /\ 0 \in Int /\ amount \in Int
        /\ 0 - amount = 0 - amount
        /\ 0 - amount = (0 - W) + (0 - L) + (0 - E) + 0
      BY <2>1
  <2>. QED
      BY <2>2 DEF L, W, E
<1>. QED
    BY <1>1, <1>5, <1>7, <1>8, MoneyStep, Zenon

(* The snapshot a mint request keeps has its type. *)
LEMMA MintStep ==
    ASSUME IInv, NEW a \in Accounts, NEW fee \in Nat \ {0}, RequestNFTMint(a, fee)
    PROVE  IInv'
<1>. DEFINE s == SpendOf(a, fee)
            rows == TouchedRows(a, s.locked)
<1>1. /\ SpendTokens(a, fee)
      /\ UNCHANGED <<withdrawals, now, issued, requested>>
    BY DEF RequestNFTMint
<1>2. PICK order \in DrawOrders(rows) :
          mints' = Append(mints, [account |-> a, fee |-> fee, spend |-> s,
                                  segments |-> SegmentsOf(a, s.locked, order), status |-> "PAID"])
    BY DEF RequestNFTMint
<1>3. TypeOK
    BY DEF IInv
<1>4. s \in Breakdown
    BY <1>1, <1>3, SpendSplits DEF SpendTokens
<1>. HIDE DEF s
<1>5. s.locked \in Nat
    BY <1>4 DEF Breakdown
<1>6. rows \in SUBSET DOMAIN records /\ \A i \in rows : Taken(a, s.locked, i) > 0
    BY DEF TouchedRows, SpendableRows
<1>7. Cardinality(rows) \in Nat
    BY <1>3, <1>6, RowFacts, FS_Subset, FS_CardinalityType
<1>. HIDE DEF rows
<1>8. order \in [1..Cardinality(rows) -> rows]
    BY <1>2 DEF DrawOrders
<1>9. ASSUME NEW i \in rows
      PROVE  [amount |-> Taken(a, s.locked, i), unlockAt |-> records[i].unlockAt] \in Segment
  <2>1. records[i].unlockAt \in Nat
      BY <1>3, <1>6, RowFacts
  <2>2. Taken(a, s.locked, i) \in Nat \ {0}
      BY <1>3, <1>5, <1>6, TakenBounds
  <2>. QED
      BY <2>1, <2>2 DEF Segment
<1>10. SegmentsOf(a, s.locked, order) \in Seq(Segment)
    BY <1>7, <1>8, <1>9 DEF SegmentsOf
<1>11. mints' \in Seq(MintRequest)
    BY <1>2, <1>3, <1>4, <1>10 DEF TypeOK, MintRequest
<1>. QED
    BY <1>1, <1>11, SpendStep, Zenon

(* A refund gives back each part of the fee, and no more than the fee. *)
LEMMA CancelStep ==
    ASSUME IInv, NEW m \in DOMAIN mints, CancelNFTMint(m)
    PROVE  IInv'
<1>. DEFINE r == mints[m]
            new == [k \in DOMAIN r.segments |->
                        LockedRecord(r.account, r.segments[k].amount, r.segments[k].unlockAt)]
<1>1. /\ SnapshotConsistent(m)
      /\ mints' = [mints EXCEPT ![m].status = "CANCELLED"]
      /\ records' = records \o new
      /\ Adjust(r.account, r.fee, r.spend.withdrawable, r.spend.locked, r.spend.external)
      /\ spent' = [spent EXCEPT ![r.account] = @ - r.fee]
      /\ UNCHANGED <<withdrawals, now, issued, requested>>
    BY DEF CancelNFTMint
<1>2. TypeOK
    BY DEF IInv
<1>3. r \in MintRequest
    BY <1>2 DEF TypeOK
<1>4. /\ r.account \in Accounts
      /\ r.fee \in Nat
      /\ r.spend \in Breakdown
      /\ r.segments \in Seq(Segment)
    BY <1>3 DEF MintRequest
<1>5. new \in Seq(LockedRow)
  <2>1. DOMAIN r.segments = 1..Len(r.segments) /\ Len(r.segments) \in Nat
      BY <1>4
  <2>2. \A k \in DOMAIN r.segments : r.segments[k] \in Segment
      BY <1>4
  <2>3. \A k \in DOMAIN r.segments :
            LockedRecord(r.account, r.segments[k].amount, r.segments[k].unlockAt) \in LockedRow
      BY <1>4, <2>2 DEF LockedRecord, LockedRow, Segment
  <2>. QED
      BY <2>1, <2>3
<1>6. mints' \in Seq(MintRequest)
  <2>1. [r EXCEPT !.status = "CANCELLED"] \in MintRequest
      BY <1>3 DEF MintRequest
  <2>. QED
      BY <1>1, <1>2, <2>1 DEF TypeOK
<1>7. TablesTyped'
    BY <1>1, <1>2, <1>5, <1>6 DEF TypeOK, TablesTyped
<1>8. /\ r.spend.locked \in Nat
      /\ r.spend.withdrawable \in Nat
      /\ r.spend.external \in Nat
      /\ r.spend.locked + r.spend.withdrawable + r.spend.external = r.fee
    BY <1>1, <1>4 DEF SnapshotConsistent, Breakdown
<1>. HIDE DEF r, new
<1>. DEFINE A == r.account
            F == r.fee
            L == r.spend.locked
            W == r.spend.withdrawable
            E == r.spend.external
<1>9. /\ A \in Accounts /\ F \in Nat /\ L \in Nat /\ W \in Nat /\ E \in Nat
      /\ L + W + E = F
      /\ Adjust(A, F, W, L, E)
      /\ spent' = [spent EXCEPT ![A] = @ - F]
    BY <1>1, <1>4, <1>8
<1>. HIDE DEF A, F, L, W, E
<1>10. /\ Moves(issued, issued', A, 0)
       /\ Moves(spent, spent', A, 0 - F)
       /\ Moves(requested, requested', A, 0)
  <2>1. /\ issued \in [Accounts -> Int] /\ issued' = issued
        /\ requested \in [Accounts -> Int] /\ requested' = requested
        /\ spent \in [Accounts -> Int]
      BY <1>1, <1>2 DEF TypeOK
  <2>2. Moves(issued, issued', A, 0) /\ Moves(requested, requested', A, 0)
      BY <2>1 DEF Moves
  <2>3. spent' \in [Accounts -> Int]
      BY <1>9, <2>1
  <2>4. \A b \in Accounts : spent'[b] = spent[b] + (IF b = A THEN 0 - F ELSE 0)
      BY <1>9, <2>1
  <2>. QED
      BY <2>2, <2>3, <2>4 DEF Moves
<1>11. /\ F \in Int /\ W \in Int /\ L \in Int /\ E \in Int /\ 0 \in Int /\ 0 - F \in Int
       /\ F = 0 - (0 - F)
       /\ F = W + L + E + 0
    BY <1>9
<1>. QED
    BY <1>7, <1>9, <1>10, <1>11, MoneyStep, Zenon

(* Unlocking moves AEB from one category to another. *)
LEMMA SettleStep ==
    ASSUME IInv, NEW batch \in SUBSET MatureRows, SettleUnlocks(batch)
    PROVE  IInv'
<1>. DEFINE freed(a) == Remaining({i \in batch : records[i].account = a})
<1>1. TypeOK /\ BooksBalance
    BY DEF IInv
<1>2. /\ \A a \in Accounts : tokens[a].locked >= freed(a)
      /\ records' = [i \in DOMAIN records |->
            IF i \in batch THEN [records[i] EXCEPT !.status = "UNLOCKED"] ELSE records[i]]
      /\ tokens' = [a \in Accounts |->
            [tokens[a] EXCEPT !.locked = @ - freed(a), !.withdrawable = @ + freed(a)]]
      /\ UNCHANGED <<withdrawals, mints, now, history>>
    BY DEF SettleUnlocks
<1>3. ASSUME NEW a \in Accounts PROVE freed(a) \in Nat
  <2>1. {i \in batch : records[i].account = a} \in SUBSET DOMAIN records
      BY DEF MatureRows
  <2>. QED
      BY <1>1, <2>1, RemainingNat
<1>. HIDE DEF freed
<1>4. ASSUME NEW a \in Accounts
      PROVE  /\ tokens'[a] \in Balances
             /\ tokens'[a].token = tokens[a].token
             /\ tokens'[a].locked = tokens[a].locked - freed(a)
             /\ tokens'[a].withdrawable = tokens[a].withdrawable + freed(a)
             /\ tokens'[a].external = tokens[a].external
  <2>1. tokens[a] \in Balances
      BY <1>1 DEF TypeOK
  <2>2. tokens'[a] = [tokens[a] EXCEPT !.locked = @ - freed(a), !.withdrawable = @ + freed(a)]
      BY <1>2
  <2>3. tokens[a].locked - freed(a) \in Nat /\ tokens[a].withdrawable + freed(a) \in Nat
    <3>1. tokens[a].locked \in Nat /\ tokens[a].withdrawable \in Nat
        BY <2>1 DEF Balances
    <3>2. freed(a) \in Nat /\ tokens[a].locked >= freed(a)
        BY <1>2, <1>3
    <3>. QED
        BY <3>1, <3>2
  <2>. QED
      BY <2>1, <2>2, <2>3 DEF Balances
<1>5. tokens' \in [Accounts -> Balances]
    BY <1>2, <1>4
<1>6. records' \in Seq(LockedRow)
  <2>1. ASSUME NEW i \in DOMAIN records
        PROVE  [records[i] EXCEPT !.status = "UNLOCKED"] \in LockedRow
      BY <1>1, RowFacts DEF LockedRow
  <2>2. DOMAIN records = 1..Len(records) /\ Len(records) \in Nat
        /\ \A i \in DOMAIN records : records[i] \in LockedRow
      BY <1>1, RowFacts
  <2>3. \A i \in DOMAIN records : records'[i] \in LockedRow
      BY <1>2, <2>1, <2>2
  <2>4. records' = [i \in 1..Len(records) |-> records'[i]]
      BY <1>2, <2>2
  <2>. QED
      BY <2>2, <2>3, <2>4
<1>7. TypeOK'
    BY <1>1, <1>2, <1>5, <1>6 DEF TypeOK, history
<1>8. BooksBalance'
  <2>. SUFFICES ASSUME NEW a \in Accounts
                PROVE  /\ tokens'[a].token = issued'[a] - spent'[a]
                       /\ tokens'[a].token = tokens'[a].locked + tokens'[a].withdrawable
                                                 + tokens'[a].external + requested'[a]
      BY DEF BooksBalance
  <2>. DEFINE T == tokens[a].token
              L == tokens[a].locked
              W == tokens[a].withdrawable
              E == tokens[a].external
              F == freed(a)
              R == requested[a]
  <2>1. tokens[a] \in Balances /\ R \in Int
      BY <1>1 DEF TypeOK
  <2>2. T \in Int /\ L \in Int /\ W \in Int /\ E \in Int /\ R \in Int /\ F \in Int
      BY <1>3, <2>1 DEF Balances
  <2>3. T = L + W + E + R
      BY <1>1 DEF BooksBalance
  <2>. HIDE DEF T, L, W, E, F, R
  <2>4. T = (L - F) + (W + F) + E + R
      BY <2>2, <2>3
  <2>5. tokens'[a].token = tokens'[a].locked + tokens'[a].withdrawable
                              + tokens'[a].external + requested'[a]
      BY <1>2, <1>4, <2>4 DEF T, L, W, E, F, R, history
  <2>6. tokens'[a].token = issued'[a] - spent'[a]
      BY <1>1, <1>2, <1>4 DEF BooksBalance, history
  <2>. QED
      BY <2>5, <2>6
<1>. QED
    BY <1>7, <1>8 DEF IInv

(* What a withdrawal takes from withdrawable is what it requests. *)
LEMMA WithdrawStep ==
    ASSUME IInv, NEW a \in Accounts, NEW amount \in Nat \ {0}, CreateWithdrawal(a, amount)
    PROVE  IInv'
<1>. DEFINE row == [account |-> a, amount |-> amount,
                    status |-> IF amount > SingleMax THEN "MANUAL_REVIEW" ELSE "QUEUED"]
<1>1. /\ Adjust(a, 0, 0 - amount, 0, 0)
      /\ withdrawals' = Append(withdrawals, row)
      /\ requested' = [requested EXCEPT ![a] = @ + amount]
      /\ UNCHANGED <<records, mints, now, issued, spent>>
    BY DEF CreateWithdrawal
<1>2. /\ Moves(issued, issued', a, 0)
      /\ Moves(spent, spent', a, 0)
      /\ Moves(requested, requested', a, amount)
    BY <1>1 DEF IInv, TypeOK, Moves
<1>3. row \in Withdrawal
    BY DEF Withdrawal, WithdrawalStatus
<1>4. TablesTyped'
    BY <1>1, <1>3 DEF IInv, TypeOK, TablesTyped
<1>5. /\ amount \in Int /\ 0 \in Int /\ 0 - amount \in Int
      /\ 0 = 0 - 0
      /\ 0 = (0 - amount) + 0 + 0 + amount
    OBVIOUS
<1>. QED
    BY <1>1, <1>2, <1>4, <1>5, MoneyStep, Zenon

(* A rejection gives back exactly what the request took. *)
LEMMA RejectStep ==
    ASSUME IInv, NEW w \in DOMAIN withdrawals, RejectWithdrawal(w)
    PROVE  IInv'
<1>. DEFINE A == withdrawals[w].account
            N == withdrawals[w].amount
<1>1. /\ withdrawals' = [withdrawals EXCEPT ![w].status = "REJECTED"]
      /\ Adjust(A, 0, N, 0, 0)
      /\ requested' = [requested EXCEPT ![A] = @ - N]
      /\ UNCHANGED <<records, mints, now, issued, spent>>
    BY DEF RejectWithdrawal
<1>2. withdrawals[w] \in Withdrawal
    BY DEF IInv, TypeOK
<1>3. A \in Accounts /\ N \in Nat
    BY <1>2 DEF Withdrawal
<1>4. [withdrawals[w] EXCEPT !.status = "REJECTED"] \in Withdrawal
    BY <1>2 DEF Withdrawal, WithdrawalStatus
<1>5. TablesTyped'
    BY <1>1, <1>4 DEF IInv, TypeOK, TablesTyped
<1>. HIDE DEF A, N
<1>6. /\ Moves(issued, issued', A, 0)
      /\ Moves(spent, spent', A, 0)
      /\ Moves(requested, requested', A, 0 - N)
    BY <1>1, <1>3 DEF IInv, TypeOK, Moves
<1>7. /\ N \in Int /\ 0 \in Int /\ 0 - N \in Int
      /\ 0 = 0 - 0
      /\ 0 = N + 0 + 0 + (0 - N)
    BY <1>3
<1>. QED
    BY <1>1, <1>3, <1>5, <1>6, <1>7, MoneyStep, Zenon

(* Steps that only move the status of a row, or the clock. *)
LEMMA StatusSteps ==
    ASSUME IInv,
           \/ \E m \in DOMAIN mints : ConfirmNFTMint(m)
           \/ \E w \in DOMAIN withdrawals : ApproveWithdrawal(w)
           \/ \E w \in DOMAIN withdrawals, status \in WithdrawalStatus : AdvanceWithdrawal(w, status)
           \/ Tick
    PROVE  IInv'
<1>1. ASSUME NEW m \in DOMAIN mints, ConfirmNFTMint(m) PROVE IInv'
  <2>0. mints[m] \in MintRequest
      BY DEF IInv, TypeOK
  <2>1. [mints[m] EXCEPT !.status = "CONFIRMED"] \in MintRequest
      BY <2>0 DEF MintRequest
  <2>2. TablesTyped'
      BY <1>1, <2>1 DEF ConfirmNFTMint, IInv, TypeOK, TablesTyped
  <2>. QED
      BY <1>1, <2>2, QuietStep DEF ConfirmNFTMint
<1>2. ASSUME NEW w \in DOMAIN withdrawals, NEW status \in WithdrawalStatus,
             withdrawals' = [withdrawals EXCEPT ![w].status = status],
             UNCHANGED <<tokens, records, mints, now, history>>
      PROVE  IInv'
  <2>0. withdrawals[w] \in Withdrawal
      BY DEF IInv, TypeOK
  <2>1. [withdrawals[w] EXCEPT !.status = status] \in Withdrawal
      BY <2>0 DEF Withdrawal
  <2>2. TablesTyped'
      BY <1>2, <2>1 DEF IInv, TypeOK, TablesTyped
  <2>. QED
      BY <1>2, <2>2, QuietStep
<1>3. ASSUME NEW w \in DOMAIN withdrawals, ApproveWithdrawal(w) PROVE IInv'
    BY <1>2, <1>3 DEF ApproveWithdrawal, WithdrawalStatus
<1>4. ASSUME NEW w \in DOMAIN withdrawals, NEW status \in WithdrawalStatus,
             AdvanceWithdrawal(w, status)
      PROVE  IInv'
    BY <1>2, <1>4 DEF AdvanceWithdrawal
<1>5. ASSUME Tick PROVE IInv'
  <2>1. TablesTyped'
      BY <1>5 DEF Tick, IInv, TypeOK, TablesTyped
  <2>. QED
      BY <1>5, <2>1, QuietStep DEF Tick
<1>. QED
    BY <1>1, <1>3, <1>4, <1>5

LEMMA NextIInv == IInv /\ [Next]_vars => IInv'
<1>. SUFFICES ASSUME IInv, [Next]_vars PROVE IInv'
    OBVIOUS
<1>0. Amounts \subseteq Nat \ {0} /\ AdminLocked \subseteq Nat /\ Cooldowns \subseteq Nat
    BY LedgerAssumption
<1>1. CASE UNCHANGED vars
    BY <1>1 DEF vars, IInv, TypeOK, BooksBalance
<1>2. ASSUME NEW a \in Accounts, NEW amount \in Amounts, NEW hours \in Cooldowns,
             GrantLocked(a, amount, hours)
      PROVE  IInv'
    BY <1>0, <1>2, GrantStep
<1>3. ASSUME NEW a \in Accounts, NEW amount \in Amounts, CreditDeposit(a, amount) PROVE IInv'
    BY <1>0, <1>3, DepositStep
<1>4. ASSUME NEW a \in Accounts, NEW amount \in Amounts, Spend(a, amount) PROVE IInv'
  <2>1. mints' \in Seq(MintRequest)
      BY <1>4 DEF Spend, IInv, TypeOK
  <2>. QED
      BY <1>0, <1>4, <2>1, SpendStep DEF Spend
<1>5. ASSUME NEW a \in Accounts, NEW amount \in Amounts, RequestNFTMint(a, amount) PROVE IInv'
    BY <1>0, <1>5, MintStep
<1>6. ASSUME NEW a \in Accounts, NEW amount \in Amounts, CreateWithdrawal(a, amount) PROVE IInv'
    BY <1>0, <1>6, WithdrawStep
<1>7. ASSUME NEW a \in Accounts, NEW wd \in Amounts \cup {0}, NEW lk \in AdminLocked,
             AdminGrant(a, wd, lk)
      PROVE  IInv'
    BY <1>0, <1>7, AdminGrantStep
<1>8. ASSUME NEW m \in DOMAIN mints, CancelNFTMint(m) PROVE IInv'
    BY <1>8, CancelStep
<1>9. ASSUME NEW batch \in SUBSET MatureRows, SettleUnlocks(batch) PROVE IInv'
    BY <1>9, SettleStep
<1>10. ASSUME NEW w \in DOMAIN withdrawals, RejectWithdrawal(w) PROVE IInv'
    BY <1>10, RejectStep
<1>. QED
    BY <1>1, <1>2, <1>3, <1>4, <1>5, <1>6, <1>7, <1>8, <1>9, <1>10, StatusSteps DEF Next

LEMMA SpecIInv == Spec => []IInv
BY InitIInv, NextIInv, PTL DEF Spec

(* Every table keeps its type; in particular no column of account_tokens   *)
(* and no cooldown row ever goes below zero.                               *)
THEOREM TypeCorrect == Spec => []TypeOK
<1>1. IInv => TypeOK
    BY DEF IInv
<1>. QED
    BY <1>1, SpecIInv, PTL

(* Grants, deposits, unlocks, spends, mint refunds, withdrawals and reviews *)
(* never create or lose AEB: token_balance is what was issued less what was *)
(* spent, and the categories and the requests add up to it.                 *)
THEOREM BooksAlwaysBalance == Spec => []BooksBalance
<1>1. IInv => BooksBalance
    BY DEF IInv
<1>. QED
    BY <1>1, SpecIInv, PTL

-----------------------------------------------------------------------------
(***************************************************************************)
(* locked_token_records backs locked_balance, as long as administrators    *)
(* grant no locked AEB: whatever is granted, unlocked, spent first-in      *)
(* first-out and refunded, the LOCKED rows of an account hold exactly its  *)
(* locked column.  The heart of it is that consumeLockedTokenFIFO takes    *)
(* from the rows, between them, exactly the amount it was asked for.       *)
(***************************************************************************)
(* What row i of the table rs adds to the locked AEB of account a. *)
Holds(rs, a) ==
    [i \in DOMAIN rs |-> IF rs[i].account = a /\ rs[i].status = "LOCKED" THEN rs[i].remaining ELSE 0]

Backing(rs, a) == SumFunctionOnSet(Holds(rs, a), DOMAIN rs)

(* The domain of a table is finite and its rows hold naturals. *)
LEMMA HoldsFacts ==
    ASSUME NEW rs \in Seq(LockedRow), NEW a
    PROVE  /\ DOMAIN rs = 1..Len(rs)
           /\ Len(rs) \in Nat
           /\ IsFiniteSet(DOMAIN rs)
           /\ \A i \in DOMAIN rs : rs[i].remaining \in Nat /\ Holds(rs, a)[i] \in Nat
           /\ IntOn(Holds(rs, a), DOMAIN rs)
           /\ Backing(rs, a) \in Nat
<1>1. DOMAIN rs = 1..Len(rs) /\ Len(rs) \in Nat
    OBVIOUS
<1>2. IsFiniteSet(DOMAIN rs)
    BY <1>1, FS_Interval
<1>3. \A i \in DOMAIN rs : rs[i] \in LockedRow
    OBVIOUS
<1>4. \A i \in DOMAIN rs : rs[i].remaining \in Nat
    BY <1>3 DEF LockedRow
<1>5. \A i \in DOMAIN rs : Holds(rs, a)[i] \in Nat
    BY <1>4 DEF Holds
<1>6. IntOn(Holds(rs, a), DOMAIN rs)
    BY <1>2, <1>5 DEF IntOn
<1>7. Backing(rs, a) \in Nat
    BY <1>2, <1>5, SumNat DEF Backing
<1>. QED
    BY <1>1, <1>2, <1>4, <1>5, <1>6, <1>7

(* Remaining(SpendableRows(a)) is the backing of a. *)
LEMMA BackingIsRemaining ==
    ASSUME NEW rs \in Seq(LockedRow), NEW a
    PROVE  SumFunctionOnSet([i \in DOMAIN rs |-> rs[i].remaining],
                {i \in DOMAIN rs : /\ rs[i].account = a
                                   /\ rs[i].status = "LOCKED"
                                   /\ rs[i].remaining > 0})
             = Backing(rs, a)
<1>. DEFINE f == [i \in DOMAIN rs |-> rs[i].remaining]
            T == {i \in DOMAIN rs : /\ rs[i].account = a
                                    /\ rs[i].status = "LOCKED"
                                    /\ rs[i].remaining > 0}
            g == Holds(rs, a)
<1>1. /\ IsFiniteSet(DOMAIN rs)
      /\ \A i \in DOMAIN rs : rs[i].remaining \in Nat
    BY HoldsFacts
<1>2. IntOn(f, DOMAIN rs)
    BY <1>1 DEF IntOn
<1>3. \A i \in DOMAIN rs : g[i] = IF i \in T THEN f[i] ELSE 0
    BY <1>1 DEF Holds
<1>4. T \in SUBSET DOMAIN rs
    OBVIOUS
<1>. HIDE DEF f, T, g
<1>5. SumFunctionOnSet(g, DOMAIN rs) = SumFunctionOnSet(f, T)
    BY <1>2, <1>3, <1>4, SumMask
<1>. QED
    BY <1>5 DEF f, T, g, Backing

(* The invariant, as a statement about the backing. *)
LEMMA BackedNow ==
    ASSUME records \in Seq(LockedRow)
    PROVE  LockedBacked <=> \A a \in Accounts : tokens[a].locked = Backing(records, a)
<1>1. \A a \in Accounts : Remaining(SpendableRows(a)) = Backing(records, a)
    BY BackingIsRemaining DEF Remaining, SpendableRows
<1>. QED
    BY <1>1 DEF LockedBacked

LEMMA BackedNext ==
    ASSUME records' \in Seq(LockedRow)
    PROVE  LockedBacked' <=> \A a \in Accounts : tokens'[a].locked = Backing(records', a)
<1>1. \A a \in Accounts : Remaining(SpendableRows(a))' = Backing(records', a)
    BY BackingIsRemaining DEF Remaining, SpendableRows
<1>. QED
    BY <1>1 DEF LockedBacked
-----------------------------------------------------------------------------
(* A row appended to the table adds what it holds. *)
LEMMA BackingAppend ==
    ASSUME NEW rs \in Seq(LockedRow), NEW row \in LockedRow, NEW b
    PROVE  Backing(Append(rs, row), b)
             = Backing(rs, b) + (IF row.account = b /\ row.status = "LOCKED" THEN row.remaining ELSE 0)
<1>. DEFINE ts == Append(rs, row)
            n == Len(rs) + 1
            f == Holds(rs, b)
            g == Holds(ts, b)
<1>1. ts \in Seq(LockedRow) /\ Len(rs) \in Nat
    OBVIOUS
<1>2. /\ DOMAIN rs = 1..Len(rs)
      /\ DOMAIN ts = 1..n
      /\ ts[n] = row
      /\ \A i \in DOMAIN rs : ts[i] = rs[i]
    OBVIOUS
<1>3. n \in DOMAIN ts /\ DOMAIN ts \ {n} = DOMAIN rs
    BY <1>1, <1>2
<1>4. IntOn(g, DOMAIN ts) /\ IntOn(f, DOMAIN rs) /\ Backing(rs, b) \in Nat
    BY <1>1, HoldsFacts
<1>5. /\ g[n] = IF row.account = b /\ row.status = "LOCKED" THEN row.remaining ELSE 0
      /\ \A i \in DOMAIN rs : f[i] = g[i]
    BY <1>2, <1>3 DEF Holds
<1>6. g[n] \in Int
    BY <1>3, <1>4 DEF IntOn
<1>. HIDE DEF ts, n, f, g
<1>7. SumFunctionOnSet(g, DOMAIN ts) = g[n] + SumFunctionOnSet(g, DOMAIN rs)
    BY <1>3, <1>4, SumRemove
<1>8. SumFunctionOnSet(f, DOMAIN rs) = SumFunctionOnSet(g, DOMAIN rs)
    BY <1>4, <1>5, SumSame, Zenon
<1>9. Backing(ts, b) = g[n] + Backing(rs, b)
    BY <1>7, <1>8 DEF Backing, f, g
<1>. QED
    BY <1>4, <1>5, <1>6, <1>9 DEF ts

(* Two tables one after the other hold what they hold between them. *)
LEMMA BackingConcat ==
    ASSUME NEW rs \in Seq(LockedRow), NEW ts \in Seq(LockedRow), NEW b
    PROVE  Backing(rs \o ts, b) = Backing(rs, b) + Backing(ts, b)
<1>. DEFINE us == rs \o ts
            f == Holds(rs, b)
            g == Holds(ts, b)
            h == Holds(us, b)
            shift == [k \in DOMAIN ts |-> Len(rs) + k]
<1>1. us \in Seq(LockedRow) /\ Len(rs) \in Nat /\ Len(ts) \in Nat
    OBVIOUS
<1>2. /\ DOMAIN rs = 1..Len(rs)
      /\ DOMAIN ts = 1..Len(ts)
      /\ DOMAIN us = 1..(Len(rs) + Len(ts))
      /\ \A i \in DOMAIN rs : us[i] = rs[i]
      /\ \A k \in DOMAIN ts : us[Len(rs) + k] = ts[k]
    OBVIOUS
<1>3. DOMAIN rs \in SUBSET DOMAIN us /\ \A k \in DOMAIN ts : shift[k] \in DOMAIN us
    BY <1>1, <1>2
<1>4. /\ \A k \in DOMAIN ts : shift[k] \in DOMAIN us \ DOMAIN rs
      /\ \A i \in DOMAIN us \ DOMAIN rs : \E k \in DOMAIN ts : i = shift[k]
  <2>1. \A k \in DOMAIN ts : shift[k] \in DOMAIN us \ DOMAIN rs
      BY <1>1, <1>2
  <2>2. ASSUME NEW i \in DOMAIN us \ DOMAIN rs PROVE \E k \in DOMAIN ts : i = shift[k]
    <3>1. i - Len(rs) \in DOMAIN ts /\ i = Len(rs) + (i - Len(rs))
        BY <1>1, <1>2
    <3>. QED
        BY <3>1
  <2>. QED
      BY <2>1, <2>2
<1>5. IntOn(f, DOMAIN rs) /\ IntOn(g, DOMAIN ts) /\ IntOn(h, DOMAIN us)
    BY <1>1, HoldsFacts
<1>6. \A i \in DOMAIN rs : f[i] = h[i]
    BY <1>2, <1>3 DEF Holds
<1>7. \A k \in DOMAIN ts : h[shift[k]] = g[k]
    BY <1>2, <1>3 DEF Holds
<1>8. \A k, l \in DOMAIN ts : shift[k] = shift[l] => k = l
    BY <1>1, <1>2
<1>. HIDE DEF us, f, g, h, shift
<1>9. SumFunctionOnSet(h, DOMAIN us)
        = SumFunctionOnSet(h, DOMAIN rs) + SumFunctionOnSet(h, DOMAIN us \ DOMAIN rs)
    BY <1>3, <1>5, SumSplit
<1>10. SumFunctionOnSet(f, DOMAIN rs) = SumFunctionOnSet(h, DOMAIN rs)
    BY <1>5, <1>6, SumSame, Zenon
<1>11. SumFunctionOnSet(h, DOMAIN us \ DOMAIN rs) = SumFunctionOnSet(g, DOMAIN ts)
  <2>. DEFINE S == DOMAIN ts
              T == DOMAIN us \ DOMAIN rs
  <2>1. /\ IntOn(g, S)
        /\ \A k, l \in S : shift[k] = shift[l] => k = l
        /\ \A k \in S : h[shift[k]] = g[k]
        /\ \A k \in S : shift[k] \in T
        /\ \A i \in T : \E k \in S : i = shift[k]
      BY <1>4, <1>5, <1>7, <1>8
  <2>. HIDE DEF S, T
  <2>2. SumFunctionOnSet(h, T) = SumFunctionOnSet(g, S)
      BY <2>1, SumRename
  <2>. QED
      BY <2>2 DEF S, T
<1>. QED
    BY <1>9, <1>10, <1>11 DEF Backing, us, f, g, h

(* Reading the rows one after the other, in the order a draw takes them.   *)
LEMMA LastRow ==
    ASSUME TypeOK, NEW s \in SUBSET DOMAIN records, s # {}
    PROVE  \E x \in s : \A y \in s \ {x} : Before(y, x)
<1>. DEFINE Last(r) == \E x \in r : \A y \in r \ {x} : Before(y, x)
            P == {r \in SUBSET DOMAIN records : r # {} => Last(r)}
<1>1. /\ IsFiniteSet(DOMAIN records)
      /\ \A i \in DOMAIN records : i \in Nat /\ records[i].unlockAt \in Nat
    BY RowFacts
<1>2. ASSUME NEW r \in SUBSET DOMAIN records, r # {}, \A z \in r : r \ {z} \in P
      PROVE  r \in P
  <2>1. PICK z \in r : TRUE
      BY <1>2
  <2>2. CASE r \ {z} = {}
      BY <2>2
  <2>3. CASE r \ {z} # {}
    <3>1. PICK x \in r \ {z} : \A y \in (r \ {z}) \ {x} : Before(y, x)
        BY <1>2, <2>3
    <3>2. Before(x, z) \/ Before(z, x)
        BY <1>1, <3>1 DEF Before
    <3>3. CASE Before(z, x)
        BY <3>1, <3>3
    <3>4. CASE Before(x, z)
      <4>1. \A y \in (r \ {z}) \ {x} : Before(y, z)
          BY <1>1, <3>1, <3>4 DEF Before
      <4>. QED
          BY <3>4, <4>1
    <3>. QED
        BY <3>2, <3>3, <3>4
  <2>. QED
      BY <2>2, <2>3
<1>3. {} \in P
    OBVIOUS
<1>. HIDE DEF P
<1>4. \A r \in SUBSET DOMAIN records : r \in P
    BY <1>1, <1>2, <1>3, SubsetInduction, Zenon
<1>. QED
    BY <1>4 DEF P

(* A draw that the rows cover takes, between them, exactly its amount.     *)
LEMMA DrawnInFull ==
    ASSUME TypeOK, NEW a \in Accounts, NEW amount \in Nat, Remaining(SpendableRows(a)) >= amount
    PROVE  SumFunctionOnSet([i \in DOMAIN records |-> Taken(a, amount, i)], SpendableRows(a)) = amount
<1>. DEFINE R == SpendableRows(a)
            rem == [i \in DOMAIN records |-> records[i].remaining]
            took == [i \in DOMAIN records |-> Taken(a, amount, i)]
            Closed(s) == \A i \in s, j \in R : Before(j, i) => j \in s
            F(s) == SumFunctionOnSet(rem, s)
            G(s) == SumFunctionOnSet(took, s)
            P == {s \in SUBSET R : Closed(s) => G(s) = Lesser(amount, F(s))}
<1>1. /\ R \in SUBSET DOMAIN records
      /\ IsFiniteSet(R)
      /\ \A i \in R : i \in Nat /\ records[i].unlockAt \in Nat
  <2>1. R \in SUBSET DOMAIN records
      BY DEF SpendableRows
  <2>. QED
      BY <2>1, RowFacts, FS_Subset
<1>2. /\ IntOn(rem, R) /\ IntOn(took, R)
      /\ \A i \in R : rem[i] \in Nat /\ took[i] \in Nat
  <2>1. ASSUME NEW i \in R PROVE rem[i] \in Nat /\ took[i] \in Nat
    <3>1. i \in DOMAIN records
        BY <1>1
    <3>2. records[i].remaining \in Nat /\ Taken(a, amount, i) \in Nat
        BY <3>1, RowFacts, TakenBounds
    <3>. QED
        BY <3>1, <3>2
  <2>. HIDE DEF R, rem, took
  <2>. QED
      BY <1>1, <2>1 DEF IntOn
<1>3. \A s \in SUBSET R : F(s) \in Nat
  <2>. SUFFICES ASSUME NEW s \in SUBSET R PROVE F(s) \in Nat
      OBVIOUS
  <2>1. IsFiniteSet(s) /\ \A i \in s : rem[i] \in Nat
      BY <1>1, <1>2, FS_Subset
  <2>. HIDE DEF rem
  <2>. QED
      BY <2>1, SumNat
<1>4. \A i \in R : took[i] = IF F({j \in R : Before(j, i)}) >= amount THEN 0
                             ELSE Lesser(rem[i], amount - F({j \in R : Before(j, i)}))
    BY <1>1 DEF Taken, Remaining
<1>5. \A i, j, k \in R : /\ ~Before(i, i)
                         /\ ~(Before(i, j) /\ Before(j, i))
    BY <1>1 DEF Before
<1>. HIDE DEF R, rem, took
<1>6. ASSUME NEW s \in SUBSET R, s # {}, \A z \in s : s \ {z} \in P, Closed(s)
      PROVE  G(s) = Lesser(amount, F(s))
  <2>1. PICK x \in s : \A y \in s \ {x} : Before(y, x)
      BY <1>1, <1>6, LastRow
  <2>. DEFINE r == s \ {x}
  <2>2. Closed(r)
      BY <1>5, <1>6, <2>1
  <2>3. {j \in R : Before(j, x)} = r
      BY <1>5, <1>6, <2>1
  <2>4. G(r) = Lesser(amount, F(r))
      BY <1>6, <2>2
  <2>5. G(s) = took[x] + G(r) /\ F(s) = rem[x] + F(r)
      BY <1>2, IntOnSubset, SumRemove
  <2>6. took[x] = IF F(r) >= amount THEN 0 ELSE Lesser(rem[x], amount - F(r))
      BY <1>4, <2>3
  <2>7. F(r) \in Nat /\ rem[x] \in Nat
      BY <1>2, <1>3
  <2>. HIDE DEF r, F, G
  <2>. QED
      BY <2>4, <2>5, <2>6, <2>7 DEF Lesser
<1>7. {} \in P
    BY SumEmpty DEF Lesser
<1>8. \A s \in SUBSET R : s # {} /\ (\A z \in s : s \ {z} \in P) => s \in P
    BY <1>6
<1>. HIDE DEF P
<1>9. R \in P
    BY <1>1, <1>7, <1>8, SubsetInduction
<1>10. G(R) = Lesser(amount, F(R))
    BY <1>9 DEF P
<1>11. F(R) >= amount /\ F(R) \in Nat
    BY <1>3 DEF Remaining, R, rem
<1>. HIDE DEF F, G
<1>12. G(R) = amount
    BY <1>10, <1>11 DEF Lesser
<1>. QED
    BY <1>12 DEF G, R, took

(* consumeLockedTokenFIFO lowers the backing of its account by the amount. *)
LEMMA ConsumeBacking ==
    ASSUME TypeOK, NEW a \in Accounts, NEW amount \in Nat, ConsumeLockedFIFO(a, amount),
           NEW b \in Accounts
    PROVE  Backing(records, b) = Backing(records', b) + (IF b = a THEN amount ELSE 0)
<1>. DEFINE D == DOMAIN records
            f == Holds(records, b)
            g == Holds(records', b)
            took == [i \in D |-> Taken(a, amount, i)]
            part == [i \in D |-> IF i \in SpendableRows(a) /\ b = a THEN took[i] ELSE 0]
<1>1. /\ records \in Seq(LockedRow)
      /\ records' \in Seq(LockedRow)
      /\ DOMAIN records' = D
    BY ConsumeKeepsRows DEF TypeOK
<1>2. /\ IntOn(f, D) /\ IntOn(g, D)
      /\ Backing(records, b) \in Nat /\ Backing(records', b) \in Nat
      /\ \A i \in D : records[i] \in LockedRow /\ records[i].remaining \in Nat
    BY <1>1, HoldsFacts
<1>3. \A i \in D : Taken(a, amount, i) \in Nat
    BY TakenBounds
<1>4. IntOn(took, D) /\ IntOn(part, D)
    BY <1>2, <1>3 DEF IntOn
<1>5. ASSUME NEW i \in D PROVE f[i] = g[i] + part[i]
  <2>. DEFINE left == records[i].remaining - Taken(a, amount, i)
  <2>1. /\ f[i] = IF records[i].account = b /\ records[i].status = "LOCKED"
                  THEN records[i].remaining ELSE 0
        /\ g[i] = IF records'[i].account = b /\ records'[i].status = "LOCKED"
                  THEN records'[i].remaining ELSE 0
        /\ part[i] = IF i \in SpendableRows(a) /\ b = a THEN Taken(a, amount, i) ELSE 0
      BY <1>1 DEF Holds
  <2>2. CASE i \in TouchedRows(a, amount)
    <3>1. records'[i] = [records[i] EXCEPT !.remaining = left,
                                           !.status = IF left = 0 THEN "CONSUMED" ELSE @]
        BY <2>2 DEF ConsumeLockedFIFO
    <3>2. /\ records'[i].account = records[i].account
          /\ records'[i].remaining = left
          /\ records'[i].status = IF left = 0 THEN "CONSUMED" ELSE records[i].status
        BY <1>2, <3>1 DEF LockedRow
    <3>3. i \in SpendableRows(a) /\ records[i].account = a /\ records[i].status = "LOCKED"
        BY <2>2 DEF TouchedRows, SpendableRows
    <3>. DEFINE T == Taken(a, amount, i)
                M == records[i].remaining
    <3>4. T \in Nat /\ M \in Nat /\ left = M - T
        BY <1>2, <1>3
    <3>5. CASE b = a
      <4>1. f[i] = M /\ part[i] = T
          BY <2>1, <3>3, <3>5
      <4>2. g[i] = left
          BY <2>1, <3>2, <3>3, <3>5
      <4>. HIDE DEF T, M, left, f, g, part
      <4>. QED
          BY <3>4, <4>1, <4>2
    <3>6. CASE b # a
        BY <2>1, <3>2, <3>3, <3>6
    <3>. QED
        BY <3>5, <3>6
  <2>3. CASE i \notin TouchedRows(a, amount)
    <3>1. records'[i] = records[i]
        BY <2>3 DEF ConsumeLockedFIFO
    <3>2. f[i] = g[i] /\ f[i] \in Int
        BY <1>2, <2>1, <3>1 DEF IntOn
    <3>3. part[i] = 0
        BY <1>3, <2>1, <2>3 DEF TouchedRows
    <3>. HIDE DEF f, g, part
    <3>. QED
        BY <3>2, <3>3
  <2>. QED
      BY <2>2, <2>3
<1>6. \A i \in D : part[i] = IF i \in (IF b = a THEN SpendableRows(a) ELSE {}) THEN took[i] ELSE 0
    OBVIOUS
<1>7. (IF b = a THEN SpendableRows(a) ELSE {}) \in SUBSET D
    BY DEF SpendableRows
<1>. HIDE DEF f, g, part, took
<1>8. SumFunctionOnSet(f, D) = SumFunctionOnSet(g, D) + SumFunctionOnSet(part, D)
    BY <1>2, <1>4, <1>5, SumPlus
<1>9. SumFunctionOnSet(part, D) = SumFunctionOnSet(took, IF b = a THEN SpendableRows(a) ELSE {})
    BY <1>4, <1>6, <1>7, SumMask
<1>10. SumFunctionOnSet(took, SpendableRows(a)) = amount
    BY DrawnInFull DEF ConsumeLockedFIFO, took
<1>11. SumFunctionOnSet(part, D) = IF b = a THEN amount ELSE 0
    BY <1>9, <1>10, SumEmpty
<1>. QED
    BY <1>1, <1>8, <1>11 DEF Backing, f, g

-----------------------------------------------------------------------------
(* A transaction keeps the rows and the locked column together when it     *)
(* changes both by the same amount, for the same account.                  *)
LEMMA BackedStep ==
    ASSUME TypeOK, LockedBacked, records' \in Seq(LockedRow), NEW a \in Accounts,
           NEW t \in Int, NEW w \in Int, NEW l \in Int, NEW e \in Int, Adjust(a, t, w, l, e),
           \A b \in Accounts : Backing(records', b) = Backing(records, b) + (IF b = a THEN l ELSE 0)
    PROVE  LockedBacked'
<1>. SUFFICES ASSUME NEW b \in Accounts
              PROVE  tokens'[b].locked = Backing(records', b)
    BY BackedNext
<1>1. records \in Seq(LockedRow)
    BY DEF TypeOK
<1>2. tokens[b].locked = Backing(records, b) /\ Backing(records, b) \in Nat
    BY <1>1, BackedNow, HoldsFacts
<1>3. Backing(records', b) = Backing(records, b) + (IF b = a THEN l ELSE 0)
    OBVIOUS
<1>4. CASE b = a
  <2>1. tokens'[b].locked = tokens[b].locked + l
      BY <1>4, AdjustEffect
  <2>. QED
      BY <1>2, <1>3, <1>4, <2>1
<1>5. CASE b # a
  <2>1. tokens'[b] = tokens[b]
      BY <1>5, AdjustEffect
  <2>. QED
      BY <1>2, <1>3, <1>5, <2>1
<1>. QED
    BY <1>4, <1>5

(* A transaction that touches neither the rows nor the locked column. *)
LEMMA BackedQuiet ==
    ASSUME TypeOK, LockedBacked, NEW a \in Accounts,
           NEW t \in Int, NEW w \in Int, NEW e \in Int, Adjust(a, t, w, 0, e), records' = records
    PROVE  LockedBacked'
<1>1. records' \in Seq(LockedRow) /\ 0 \in Int
    BY DEF TypeOK
<1>2. \A b \in Accounts : Backing(records, b) \in Nat
    BY HoldsFacts DEF TypeOK
<1>3. \A b \in Accounts : Backing(records', b) = Backing(records, b)
    OBVIOUS
<1>4. \A b \in Accounts : Backing(records', b) = Backing(records, b) + (IF b = a THEN 0 ELSE 0)
    BY <1>2, <1>3
<1>. QED
    BY <1>1, <1>4, BackedStep, Zenon

LEMMA GrantBacked ==
    ASSUME TypeOK, LockedBacked, NEW a \in Accounts, NEW amount \in Nat, NEW hours \in Nat,
           GrantLocked(a, amount, hours)
    PROVE  LockedBacked'
<1>. DEFINE row == LockedRecord(a, amount, now + hours)
<1>1. records' = Append(records, row) /\ Adjust(a, amount, 0, amount, 0)
    BY DEF GrantLocked
<1>2. /\ row \in LockedRow
      /\ row.account = a /\ row.status = "LOCKED" /\ row.remaining = amount
    BY DEF LockedRecord, LockedRow, TypeOK
<1>3. records \in Seq(LockedRow)
    BY DEF TypeOK
<1>. HIDE DEF row
<1>4. records' \in Seq(LockedRow) /\ amount \in Int /\ 0 \in Int
    BY <1>1, <1>2, <1>3
<1>5. \A b \in Accounts : Backing(records', b) = Backing(records, b) + (IF b = a THEN amount ELSE 0)
    BY <1>1, <1>2, <1>3, BackingAppend
<1>. QED
    BY <1>1, <1>4, <1>5, BackedStep, Zenon

LEMMA SpendBacked ==
    ASSUME TypeOK, LockedBacked, NEW a \in Accounts, NEW amount \in Nat, SpendTokens(a, amount)
    PROVE  LockedBacked'
<1>. DEFINE s == SpendOf(a, amount)
<1>1. /\ Covers(a, amount)
      /\ ConsumeLockedFIFO(a, s.locked)
      /\ Adjust(a, 0 - amount, 0 - s.withdrawable, 0 - s.locked, 0 - s.external)
    BY DEF SpendTokens
<1>2. s \in Breakdown
    BY <1>1, SpendSplits
<1>. HIDE DEF s
<1>3. s.locked \in Nat /\ s.withdrawable \in Nat /\ s.external \in Nat
    BY <1>2 DEF Breakdown
<1>4. records' \in Seq(LockedRow)
    BY <1>1, <1>3, ConsumeKeepsRows, Zenon
<1>5. ASSUME NEW b \in Accounts
      PROVE  Backing(records', b) = Backing(records, b) + (IF b = a THEN 0 - s.locked ELSE 0)
  <2>. DEFINE X == Backing(records, b)
              Y == Backing(records', b)
              L == s.locked
  <2>1. X \in Nat /\ Y \in Nat /\ L \in Nat
      BY <1>3, <1>4, HoldsFacts DEF TypeOK
  <2>2. X = Y + (IF b = a THEN L ELSE 0)
      BY <1>1, <1>3, ConsumeBacking, Zenon
  <2>. HIDE DEF X, Y, L
  <2>3. Y = X + (IF b = a THEN 0 - L ELSE 0)
      BY <2>1, <2>2
  <2>. QED
      BY <2>3 DEF X, Y, L
<1>6. /\ 0 - amount \in Int /\ 0 - s.withdrawable \in Int
      /\ 0 - s.locked \in Int /\ 0 - s.external \in Int
    BY <1>3
<1>. QED
    BY <1>1, <1>4, <1>5, <1>6, BackedStep, Zenon

(* The rows a refund appends hold what its segments name. *)
LEMMA CancelBacked ==
    ASSUME TypeOK, LockedBacked, NEW m \in DOMAIN mints, CancelNFTMint(m),
           records' \in Seq(LockedRow)
    PROVE  LockedBacked'
<1>. DEFINE r == mints[m]
            segs == r.segments
            A == r.account
            L == r.spend.locked
            amounts == [k \in DOMAIN segs |-> segs[k].amount]
            new == [k \in DOMAIN segs |-> LockedRecord(A, segs[k].amount, segs[k].unlockAt)]
<1>1. /\ SumFunction(amounts) = L
      /\ records' = records \o new
      /\ Adjust(A, r.fee, r.spend.withdrawable, L, r.spend.external)
    BY DEF CancelNFTMint, SnapshotConsistent
<1>2. r \in MintRequest /\ records \in Seq(LockedRow)
    BY DEF TypeOK
<1>3. A \in Accounts /\ r.fee \in Nat /\ r.spend \in Breakdown /\ segs \in Seq(Segment)
    BY <1>2 DEF MintRequest
<1>4. r.spend.withdrawable \in Nat /\ L \in Nat /\ r.spend.external \in Nat
    BY <1>3 DEF Breakdown
<1>. HIDE DEF r, segs, A
<1>5. /\ DOMAIN segs = 1..Len(segs) /\ Len(segs) \in Nat
      /\ \A k \in DOMAIN segs : segs[k] \in Segment
    BY <1>3
<1>6. \A k \in DOMAIN segs : segs[k].amount \in Nat /\ segs[k].unlockAt \in Nat
    BY <1>5 DEF Segment
<1>7. new \in Seq(LockedRow)
  <2>1. \A k \in DOMAIN segs : LockedRecord(A, segs[k].amount, segs[k].unlockAt) \in LockedRow
      BY <1>3, <1>6 DEF LockedRecord, LockedRow
  <2>. QED
      BY <1>5, <2>1
<1>8. ASSUME NEW b \in Accounts PROVE Backing(new, b) = IF b = A THEN L ELSE 0
  <2>. DEFINE g == Holds(new, b)
  <2>0. IsFiniteSet(DOMAIN segs)
      BY <1>5, FS_Interval
  <2>1. DOMAIN new = DOMAIN segs /\ IsFiniteSet(DOMAIN segs) /\ IntOn(amounts, DOMAIN segs)
      BY <1>6, <2>0 DEF IntOn
  <2>2. \A k \in DOMAIN segs : g[k] = IF A = b THEN amounts[k] ELSE 0
      BY DEF Holds, LockedRecord
  <2>3. SumFunctionOnSet(amounts, DOMAIN segs) = L
      BY <1>1 DEF SumFunction
  <2>4. Backing(new, b) = SumFunctionOnSet(g, DOMAIN segs)
      BY <2>1 DEF Backing
  <2>. HIDE DEF g, amounts, L, new
  <2>5. CASE A = b
    <3>1. SumFunctionOnSet(amounts, DOMAIN segs) = SumFunctionOnSet(g, DOMAIN segs)
      <4>1. \A k \in DOMAIN segs : amounts[k] = g[k]
          BY <2>2, <2>5
      <4>. QED
          BY <2>1, <4>1, SumSame, Zenon
    <3>. QED
        BY <2>3, <2>4, <2>5, <3>1
  <2>6. CASE A # b
    <3>1. SumFunctionOnSet(g, DOMAIN segs) = 0
        BY <2>1, <2>2, <2>6, SumZero
    <3>. QED
        BY <2>4, <2>6, <3>1
  <2>. QED
      BY <2>5, <2>6
<1>9. \A b \in Accounts : Backing(records', b) = Backing(records, b) + (IF b = A THEN L ELSE 0)
  <2>. HIDE DEF new, L
  <2>. QED
      BY <1>1, <1>2, <1>7, <1>8, BackingConcat
<1>. HIDE DEF L
<1>10. r.fee \in Int /\ r.spend.withdrawable \in Int /\ L \in Int /\ r.spend.external \in Int
    BY <1>3, <1>4
<1>. QED
    BY <1>1, <1>3, <1>9, <1>10, BackedStep, Zenon

(* SettleUnlocks takes the same rows out of both sides. *)
LEMMA SettleBacked ==
    ASSUME TypeOK, LockedBacked, NEW batch \in SUBSET MatureRows, SettleUnlocks(batch),
           records' \in Seq(LockedRow)
    PROVE  LockedBacked'
<1>. SUFFICES ASSUME NEW b \in Accounts
              PROVE  tokens'[b].locked = Backing(records', b)
    BY BackedNext
<1>. DEFINE D == DOMAIN records
            mine == {i \in batch : records[i].account = b}
            rem == [i \in D |-> records[i].remaining]
            f == Holds(records, b)
            g == Holds(records', b)
            part == [i \in D |-> IF i \in mine THEN rem[i] ELSE 0]
<1>1. /\ records' = [i \in D |->
            IF i \in batch THEN [records[i] EXCEPT !.status = "UNLOCKED"] ELSE records[i]]
      /\ tokens' = [a \in Accounts |->
            LET freed == Remaining({i \in batch : records[i].account = a})
            IN  [tokens[a] EXCEPT !.locked = @ - freed, !.withdrawable = @ + freed]]
    BY DEF SettleUnlocks
<1>2. tokens'[b].locked = tokens[b].locked - Remaining(mine)
  <2>1. tokens[b] \in Balances
      BY DEF TypeOK
  <2>2. tokens'[b] = [tokens[b] EXCEPT !.locked = @ - Remaining(mine),
                                       !.withdrawable = @ + Remaining(mine)]
      BY <1>1
  <2>. QED
      BY <2>1, <2>2 DEF Balances
<1>3. /\ records \in Seq(LockedRow) /\ DOMAIN records' = D
      /\ \A i \in batch : i \in D /\ records[i].status = "LOCKED"
    BY <1>1 DEF TypeOK, MatureRows
<1>4. /\ IsFiniteSet(D) /\ IntOn(f, D) /\ IntOn(g, D)
      /\ Backing(records, b) \in Nat /\ Backing(records', b) \in Nat
      /\ \A i \in D : records[i] \in LockedRow /\ records[i].remaining \in Nat
    BY <1>3, HoldsFacts
<1>5. IntOn(rem, D) /\ IntOn(part, D)
    BY <1>4 DEF IntOn
<1>6. ASSUME NEW i \in D PROVE f[i] = g[i] + part[i]
  <2>1. /\ f[i] = IF records[i].account = b /\ records[i].status = "LOCKED"
                  THEN records[i].remaining ELSE 0
        /\ g[i] = IF records'[i].account = b /\ records'[i].status = "LOCKED"
                  THEN records'[i].remaining ELSE 0
        /\ part[i] = IF i \in mine THEN records[i].remaining ELSE 0
      BY <1>3 DEF Holds
  <2>2. CASE i \in batch
    <3>1. records'[i].account = records[i].account /\ records'[i].status = "UNLOCKED"
        BY <1>1, <1>4, <2>2 DEF LockedRow
    <3>. QED
        BY <1>3, <1>4, <2>1, <2>2, <3>1
  <2>3. CASE i \notin batch
    <3>1. records'[i] = records[i]
        BY <1>1, <2>3
    <3>2. g[i] = f[i] /\ part[i] = 0 /\ f[i] \in Int
        BY <1>4, <2>1, <2>3, <3>1 DEF IntOn
    <3>. HIDE DEF f, g, part
    <3>. QED
        BY <3>2
  <2>. QED
      BY <2>2, <2>3
<1>7. mine \in SUBSET D /\ \A i \in D : part[i] = IF i \in mine THEN rem[i] ELSE 0
    BY <1>3
<1>8. Remaining(mine) = SumFunctionOnSet(rem, mine)
    BY DEF Remaining
<1>. HIDE DEF f, g, part, rem, mine
<1>9. SumFunctionOnSet(f, D) = SumFunctionOnSet(g, D) + SumFunctionOnSet(part, D)
    BY <1>4, <1>5, <1>6, SumPlus
<1>10. SumFunctionOnSet(part, D) = SumFunctionOnSet(rem, mine)
    BY <1>5, <1>7, SumMask
<1>11. Backing(records, b) = Backing(records', b) + Remaining(mine)
    BY <1>3, <1>8, <1>9, <1>10 DEF Backing, f, g
<1>12. tokens[b].locked = Backing(records, b)
    BY <1>3, BackedNow
<1>13. Remaining(mine) \in Nat
    BY <1>7, RemainingNat
<1>. QED
    BY <1>2, <1>4, <1>11, <1>12, <1>13

(* What the theorem is by induction about. *)
BackedInv == IInv /\ LockedBacked

LEMMA InitBacked == Init => BackedInv
<1>. SUFFICES ASSUME Init PROVE BackedInv
    OBVIOUS
<1>1. IInv
    BY InitIInv
<1>2. records = << >> /\ \A a \in Accounts : tokens[a].locked = 0
    BY DEF Init
<1>3. \A a \in Accounts : SpendableRows(a) = {}
    BY <1>2 DEF SpendableRows
<1>4. \A a \in Accounts : Remaining(SpendableRows(a)) = 0
    BY <1>3, SumEmpty DEF Remaining
<1>. QED
    BY <1>1, <1>2, <1>4 DEF BackedInv, LockedBacked

(* The rows of a table that is left alone still back the locked column. *)
LEMMA SameBacked ==
    ASSUME LockedBacked, UNCHANGED <<tokens, records>>
    PROVE  LockedBacked'
BY DEF LockedBacked, Remaining, SpendableRows

LEMMA NextBacked ==
    ASSUME AdminLocked \subseteq {0}, BackedInv, [Next]_vars
    PROVE  BackedInv'
<1>1. IInv'
    BY NextIInv DEF BackedInv
<1>2. TypeOK /\ LockedBacked /\ records' \in Seq(LockedRow)
    BY <1>1 DEF BackedInv, IInv, TypeOK
<1>3. Amounts \subseteq Nat \ {0} /\ Cooldowns \subseteq Nat
    BY LedgerAssumption
<1>. SUFFICES LockedBacked'
    BY <1>1 DEF BackedInv
<1>4. CASE UNCHANGED vars
    BY <1>2, <1>4, SameBacked DEF vars
<1>5. ASSUME NEW a \in Accounts, NEW amount \in Amounts, NEW hours \in Cooldowns,
             GrantLocked(a, amount, hours)
      PROVE  LockedBacked'
    BY <1>2, <1>3, <1>5, GrantBacked
<1>6. ASSUME NEW a \in Accounts, NEW amount \in Amounts, CreditDeposit(a, amount)
      PROVE  LockedBacked'
  <2>1. /\ Adjust(a, amount, 0, 0, amount) /\ records' = records
        /\ amount \in Int /\ 0 \in Int
      BY <1>3, <1>6 DEF CreditDeposit
  <2>. QED
      BY <1>2, <2>1, BackedQuiet, Zenon
<1>7. ASSUME NEW a \in Accounts, NEW amount \in Amounts,
             Spend(a, amount) \/ RequestNFTMint(a, amount)
      PROVE  LockedBacked'
  <2>1. SpendTokens(a, amount) /\ amount \in Nat
      BY <1>3, <1>7 DEF Spend, RequestNFTMint
  <2>. QED
      BY <1>2, <2>1, SpendBacked
<1>8. ASSUME NEW a \in Accounts, NEW amount \in Amounts, CreateWithdrawal(a, amount)
      PROVE  LockedBacked'
  <2>1. /\ Adjust(a, 0, 0 - amount, 0, 0) /\ records' = records
        /\ 0 - amount \in Int /\ 0 \in Int
      BY <1>3, <1>8 DEF CreateWithdrawal
  <2>. QED
      BY <1>2, <2>1, BackedQuiet, Zenon
<1>9. ASSUME NEW a \in Accounts, NEW wd \in Amounts \cup {0}, NEW lk \in AdminLocked,
             AdminGrant(a, wd, lk)
      PROVE  LockedBacked'
  <2>1. lk = 0 /\ wd \in Nat
      BY <1>3
  <2>2. /\ Adjust(a, wd + lk, wd, 0, 0) /\ records' = records
        /\ wd + lk \in Int /\ wd \in Int /\ 0 \in Int
      BY <1>9, <2>1 DEF AdminGrant
  <2>. QED
      BY <1>2, <2>2, BackedQuiet, Zenon
<1>10. ASSUME NEW m \in DOMAIN mints, CancelNFTMint(m) PROVE LockedBacked'
    BY <1>2, <1>10, CancelBacked
<1>11. ASSUME NEW batch \in SUBSET MatureRows, SettleUnlocks(batch) PROVE LockedBacked'
    BY <1>2, <1>11, SettleBacked
<1>12. ASSUME NEW w \in DOMAIN withdrawals, RejectWithdrawal(w) PROVE LockedBacked'
  <2>. DEFINE A == withdrawals[w].account
              N == withdrawals[w].amount
  <2>1. Adjust(A, 0, N, 0, 0) /\ records' = records
      BY <1>12 DEF RejectWithdrawal
  <2>2. withdrawals[w] \in Withdrawal
      BY <1>2 DEF TypeOK
  <2>3. A \in Accounts /\ N \in Int /\ 0 \in Int
      BY <2>2 DEF Withdrawal
  <2>. QED
      BY <1>2, <2>1, <2>3, BackedQuiet, Zenon
<1>13. ASSUME \/ \E m \in DOMAIN mints : ConfirmNFTMint(m)
              \/ \E w \in DOMAIN withdrawals : ApproveWithdrawal(w)
              \/ \E w \in DOMAIN withdrawals, status \in WithdrawalStatus : AdvanceWithdrawal(w, status)
              \/ Tick
       PROVE  LockedBacked'
  <2>1. UNCHANGED <<tokens, records>>
      BY <1>13 DEF ConfirmNFTMint, ApproveWithdrawal, AdvanceWithdrawal, Tick
  <2>. QED
      BY <1>2, <2>1, SameBacked
<1>. QED
    BY <1>4, <1>5, <1>6, <1>7, <1>8, <1>9, <1>10, <1>11, <1>12, <1>13 DEF Next

(* Unless an administrator grants locked AEB, locked_token_records is the  *)
(* source of truth for it at every moment: the LOCKED rows of an account   *)
(* hold exactly its locked_balance, whatever was granted, settled, drawn   *)
(* first-in first-out, minted with and refunded.                           *)
THEOREM LockedAlwaysBacked ==
    ASSUME AdminLocked \subseteq {0}
    PROVE  Spec => []LockedBacked
<1>1. BackedInv /\ [Next]_vars => BackedInv'
    BY NextBacked
<1>2. BackedInv => LockedBacked
    BY DEF BackedInv
<1>. QED
    BY <1>1, <1>2, InitBacked, PTL DEF Spec

-----------------------------------------------------------------------------
(* What withdrawal w of the table ws keeps out of the withdrawable column  *)
(* of account a, and all of them together.                                 *)
Owes(ws, a) ==
    [w \in DOMAIN ws |-> IF ws[w].account = a /\ ws[w].status # "REJECTED" THEN ws[w].amount ELSE 0]

Outstanding(ws, a) == SumFunctionOnSet(Owes(ws, a), DOMAIN ws)

LEMMA OwesFacts ==
    ASSUME NEW ws \in Seq(Withdrawal), NEW a
    PROVE  /\ \A w \in DOMAIN ws : ws[w].amount \in Nat /\ Owes(ws, a)[w] \in Nat
           /\ IntOn(Owes(ws, a), DOMAIN ws)
           /\ IntOn([w \in DOMAIN ws |-> ws[w].amount], DOMAIN ws)
           /\ Outstanding(ws, a) \in Nat
<1>1. DOMAIN ws = 1..Len(ws) /\ Len(ws) \in Nat
    OBVIOUS
<1>2. IsFiniteSet(DOMAIN ws)
    BY <1>1, FS_Interval
<1>3. \A w \in DOMAIN ws : ws[w] \in Withdrawal
    OBVIOUS
<1>4. \A w \in DOMAIN ws : ws[w].amount \in Nat
    BY <1>3 DEF Withdrawal
<1>5. \A w \in DOMAIN ws : Owes(ws, a)[w] \in Nat
    BY <1>4 DEF Owes
<1>6. IntOn(Owes(ws, a), DOMAIN ws) /\ IntOn([w \in DOMAIN ws |-> ws[w].amount], DOMAIN ws)
    BY <1>2, <1>4, <1>5 DEF IntOn
<1>7. Outstanding(ws, a) \in Nat
    BY <1>2, <1>5, SumNat DEF Outstanding
<1>. QED
    BY <1>4, <1>5, <1>6, <1>7

(* The withdrawals that were not rejected, as RequestedIsInFlight sums them. *)
LEMMA OutstandingIsInFlight ==
    ASSUME NEW ws \in Seq(Withdrawal), NEW a
    PROVE  SumFunctionOnSet([w \in DOMAIN ws |-> ws[w].amount],
                {w \in DOMAIN ws : ws[w].account = a /\ ws[w].status # "REJECTED"})
             = Outstanding(ws, a)
<1>. DEFINE f == [w \in DOMAIN ws |-> ws[w].amount]
            T == {w \in DOMAIN ws : ws[w].account = a /\ ws[w].status # "REJECTED"}
            g == Owes(ws, a)
<1>1. IntOn(f, DOMAIN ws)
    BY OwesFacts
<1>2. \A w \in DOMAIN ws : g[w] = IF w \in T THEN f[w] ELSE 0
    BY DEF Owes
<1>3. T \in SUBSET DOMAIN ws
    OBVIOUS
<1>. HIDE DEF f, T, g
<1>4. SumFunctionOnSet(g, DOMAIN ws) = SumFunctionOnSet(f, T)
    BY <1>1, <1>2, <1>3, SumMask
<1>. QED
    BY <1>4 DEF f, T, g, Outstanding

LEMMA InFlightNow ==
    ASSUME withdrawals \in Seq(Withdrawal)
    PROVE  RequestedIsInFlight <=> \A a \in Accounts : requested[a] = Outstanding(withdrawals, a)
BY OutstandingIsInFlight DEF RequestedIsInFlight

LEMMA InFlightNext ==
    ASSUME withdrawals' \in Seq(Withdrawal)
    PROVE  RequestedIsInFlight' <=> \A a \in Accounts : requested'[a] = Outstanding(withdrawals', a)
BY OutstandingIsInFlight DEF RequestedIsInFlight

(* A new request adds its amount. *)
LEMMA OutstandingAppend ==
    ASSUME NEW ws \in Seq(Withdrawal), NEW row \in Withdrawal, NEW b
    PROVE  Outstanding(Append(ws, row), b)
             = Outstanding(ws, b) + (IF row.account = b /\ row.status # "REJECTED" THEN row.amount ELSE 0)
<1>. DEFINE ts == Append(ws, row)
            n == Len(ws) + 1
            f == Owes(ws, b)
            g == Owes(ts, b)
<1>1. ts \in Seq(Withdrawal) /\ Len(ws) \in Nat
    OBVIOUS
<1>2. /\ DOMAIN ws = 1..Len(ws)
      /\ DOMAIN ts = 1..n
      /\ ts[n] = row
      /\ \A i \in DOMAIN ws : ts[i] = ws[i]
    OBVIOUS
<1>3. n \in DOMAIN ts /\ DOMAIN ts \ {n} = DOMAIN ws
    BY <1>1, <1>2
<1>4. IntOn(g, DOMAIN ts) /\ IntOn(f, DOMAIN ws) /\ Outstanding(ws, b) \in Nat
    BY <1>1, OwesFacts
<1>5. /\ g[n] = IF row.account = b /\ row.status # "REJECTED" THEN row.amount ELSE 0
      /\ \A i \in DOMAIN ws : f[i] = g[i]
    BY <1>2, <1>3 DEF Owes
<1>6. g[n] \in Int
    BY <1>3, <1>4 DEF IntOn
<1>. HIDE DEF ts, n, f, g
<1>7. SumFunctionOnSet(g, DOMAIN ts) = g[n] + SumFunctionOnSet(g, DOMAIN ws)
    BY <1>3, <1>4, SumRemove
<1>8. SumFunctionOnSet(f, DOMAIN ws) = SumFunctionOnSet(g, DOMAIN ws)
    BY <1>4, <1>5, SumSame, Zenon
<1>9. Outstanding(ts, b) = g[n] + Outstanding(ws, b)
    BY <1>7, <1>8 DEF Outstanding, f, g
<1>. QED
    BY <1>4, <1>5, <1>6, <1>9 DEF ts

(* A status that changes moves what the row keeps out, and nothing else.   *)
WithStatus(ws, w, status) == [ws EXCEPT ![w].status = status]

LEMMA OutstandingStatus ==
    ASSUME NEW ws \in Seq(Withdrawal), NEW w \in DOMAIN ws, NEW status \in WithdrawalStatus, NEW b
    PROVE  LET ts == WithStatus(ws, w, status)
           IN  /\ ts \in Seq(Withdrawal)
               /\ Outstanding(ts, b) - Owes(ts, b)[w] = Outstanding(ws, b) - Owes(ws, b)[w]
               /\ Owes(ts, b)[w] = IF ws[w].account = b /\ status # "REJECTED" THEN ws[w].amount ELSE 0
<1>. DEFINE row == [ws[w] EXCEPT !.status = status]
            ts == WithStatus(ws, w, status)
            f == Owes(ws, b)
            g == Owes(ts, b)
<1>1. row \in Withdrawal /\ row.account = ws[w].account /\ row.amount = ws[w].amount /\ row.status = status
  <2>1. ws[w] \in Withdrawal
      OBVIOUS
  <2>. QED
      BY <2>1 DEF Withdrawal
<1>2. ts = [ws EXCEPT ![w] = row]
    BY DEF WithStatus
<1>. HIDE DEF row, ts
<1>3. /\ ts \in Seq(Withdrawal) /\ DOMAIN ts = DOMAIN ws /\ ts[w] = row
      /\ \A i \in DOMAIN ws \ {w} : ts[i] = ws[i]
    BY <1>1, <1>2
<1>4. /\ g[w] = IF ws[w].account = b /\ status # "REJECTED" THEN ws[w].amount ELSE 0
      /\ \A i \in DOMAIN ws \ {w} : f[i] = g[i]
    BY <1>1, <1>3 DEF Owes
<1>5. IntOn(g, DOMAIN ws) /\ IntOn(f, DOMAIN ws)
    BY <1>3, OwesFacts
<1>6. IntOn(g, DOMAIN ws \ {w}) /\ IntOn(f, DOMAIN ws \ {w})
    BY <1>5, IntOnSubset
<1>. HIDE DEF f, g
<1>7. SumFunctionOnSet(f, DOMAIN ws) = f[w] + SumFunctionOnSet(f, DOMAIN ws \ {w})
    BY <1>5, SumRemove
<1>8. SumFunctionOnSet(g, DOMAIN ws) = g[w] + SumFunctionOnSet(g, DOMAIN ws \ {w})
    BY <1>5, SumRemove
<1>9. SumFunctionOnSet(f, DOMAIN ws \ {w}) = SumFunctionOnSet(g, DOMAIN ws \ {w})
    BY <1>4, <1>6, SumSame, Zenon
<1>10. f[w] \in Int /\ g[w] \in Int /\ SumFunctionOnSet(f, DOMAIN ws \ {w}) \in Int
    BY <1>5, <1>6, SumInt DEF IntOn
<1>11. SumFunctionOnSet(g, DOMAIN ws) - g[w] = SumFunctionOnSet(f, DOMAIN ws) - f[w]
    BY <1>7, <1>8, <1>9, <1>10
<1>12. Outstanding(ts, b) - g[w] = Outstanding(ws, b) - f[w]
    BY <1>3, <1>11 DEF Outstanding, f, g
<1>. QED
    BY <1>3, <1>4, <1>12 DEF f, g, ts

(* RequestedIsInFlight across the steps that write a withdrawal. *)
LEMMA CreateInFlight ==
    ASSUME IInv, RequestedIsInFlight, NEW a \in Accounts, NEW amount \in Nat \ {0},
           CreateWithdrawal(a, amount), withdrawals' \in Seq(Withdrawal)
    PROVE  RequestedIsInFlight'
<1>. DEFINE row == [account |-> a, amount |-> amount,
                    status |-> IF amount > SingleMax THEN "MANUAL_REVIEW" ELSE "QUEUED"]
<1>1. withdrawals' = Append(withdrawals, row) /\ requested' = [requested EXCEPT ![a] = @ + amount]
    BY DEF CreateWithdrawal
<1>2. row \in Withdrawal /\ row.account = a /\ row.amount = amount /\ row.status # "REJECTED"
    BY DEF Withdrawal, WithdrawalStatus
<1>. HIDE DEF row
<1>3. withdrawals \in Seq(Withdrawal) /\ requested \in [Accounts -> Int]
    BY DEF IInv, TypeOK
<1>4. ASSUME NEW b \in Accounts PROVE requested'[b] = Outstanding(withdrawals', b)
  <2>1. Outstanding(withdrawals', b) = Outstanding(withdrawals, b) + (IF a = b THEN amount ELSE 0)
      BY <1>1, <1>2, <1>3, OutstandingAppend
  <2>2. requested[b] = Outstanding(withdrawals, b)
      BY <1>3, InFlightNow
  <2>3. requested'[b] = IF a = b THEN requested[b] + amount ELSE requested[b]
      BY <1>1, <1>3
  <2>. QED
      BY <1>3, <2>1, <2>2, <2>3
<1>. QED
    BY <1>4, InFlightNext

LEMMA RejectInFlight ==
    ASSUME IInv, RequestedIsInFlight, NEW w \in DOMAIN withdrawals,
           RejectWithdrawal(w), withdrawals' \in Seq(Withdrawal)
    PROVE  RequestedIsInFlight'
<1>. DEFINE A == withdrawals[w].account
            N == withdrawals[w].amount
            ts == WithStatus(withdrawals, w, "REJECTED")
<1>1. /\ withdrawals' = ts /\ withdrawals[w].status = "MANUAL_REVIEW"
      /\ requested' = [requested EXCEPT ![A] = @ - N]
    BY DEF RejectWithdrawal, WithStatus
<1>2. withdrawals \in Seq(Withdrawal) /\ requested \in [Accounts -> Int]
    BY DEF IInv, TypeOK
<1>3. withdrawals[w] \in Withdrawal
    BY <1>2
<1>4. A \in Accounts /\ N \in Nat /\ "REJECTED" \in WithdrawalStatus
    BY <1>3 DEF Withdrawal, WithdrawalStatus
<1>5. ASSUME NEW b \in Accounts PROVE requested'[b] = Outstanding(withdrawals', b)
  <2>1. /\ Outstanding(ts, b) - Owes(ts, b)[w] = Outstanding(withdrawals, b) - Owes(withdrawals, b)[w]
        /\ Owes(ts, b)[w] = IF A = b /\ "REJECTED" # "REJECTED" THEN N ELSE 0
        /\ ts \in Seq(Withdrawal)
      BY <1>2, <1>4, OutstandingStatus
  <2>2. Owes(withdrawals, b)[w] = IF A = b THEN N ELSE 0
      BY <1>1 DEF Owes
  <2>. HIDE DEF ts
  <2>3. Outstanding(ts, b) \in Nat /\ Outstanding(withdrawals, b) \in Nat
      BY <1>2, <2>1, OwesFacts
  <2>4. Outstanding(ts, b) = Outstanding(withdrawals, b) - (IF A = b THEN N ELSE 0)
      BY <1>4, <2>1, <2>2, <2>3
  <2>5. requested[b] = Outstanding(withdrawals, b)
      BY <1>2, InFlightNow
  <2>6. requested'[b] = IF A = b THEN requested[b] - N ELSE requested[b]
      BY <1>1, <1>2
  <2>. QED
      BY <1>1, <1>2, <1>4, <2>4, <2>5, <2>6
<1>. QED
    BY <1>5, InFlightNext

LEMMA StatusInFlight ==
    ASSUME IInv, RequestedIsInFlight, NEW w \in DOMAIN withdrawals, NEW status \in WithdrawalStatus,
           withdrawals[w].status # "REJECTED", status # "REJECTED",
           withdrawals' = WithStatus(withdrawals, w, status), requested' = requested
    PROVE  RequestedIsInFlight'
<1>1. withdrawals \in Seq(Withdrawal)
    BY DEF IInv, TypeOK
<1>2. withdrawals' \in Seq(Withdrawal)
    BY <1>1, OutstandingStatus
<1>3. ASSUME NEW b \in Accounts PROVE requested'[b] = Outstanding(withdrawals', b)
  <2>1. /\ Outstanding(withdrawals', b) - Owes(withdrawals', b)[w]
            = Outstanding(withdrawals, b) - Owes(withdrawals, b)[w]
        /\ Owes(withdrawals', b)[w] = IF withdrawals[w].account = b THEN withdrawals[w].amount ELSE 0
      BY <1>1, OutstandingStatus
  <2>2. Owes(withdrawals, b)[w] = IF withdrawals[w].account = b THEN withdrawals[w].amount ELSE 0
      BY DEF Owes
  <2>3. /\ Outstanding(withdrawals', b) \in Nat /\ Outstanding(withdrawals, b) \in Nat
        /\ Owes(withdrawals, b)[w] \in Nat
      BY <1>1, <1>2, OwesFacts
  <2>4. Outstanding(withdrawals', b) = Outstanding(withdrawals, b)
      BY <2>1, <2>2, <2>3
  <2>. QED
      BY <1>1, <2>4, InFlightNow
<1>. QED
    BY <1>2, <1>3, InFlightNext

-----------------------------------------------------------------------------
(* SnapshotConsistent, of a row of nft_mint_requests. *)
Consistent(row) ==
    /\ row.spend.locked + row.spend.withdrawable + row.spend.external = row.fee
    /\ \A k \in DOMAIN row.segments : row.segments[k].amount > 0
    /\ SumFunction([k \in DOMAIN row.segments |-> row.segments[k].amount]) = row.spend.locked

LEMMA RefundableNow ==
    /\ PaidMintRefundable <=> \A m \in DOMAIN mints : mints[m].status = "PAID" => Consistent(mints[m])
    /\ PaidMintRefundable' <=> \A m \in DOMAIN mints' : mints'[m].status = "PAID" => Consistent(mints'[m])
BY DEF PaidMintRefundable, SnapshotConsistent, Consistent

(* The draw order lists every touched row once. *)
LEMMA DrawOrderLists ==
    ASSUME TypeOK, NEW rows \in SUBSET DOMAIN records, NEW order \in DrawOrders(rows)
    PROVE  /\ DOMAIN order = 1 .. Cardinality(rows) /\ Cardinality(rows) \in Nat /\ IsFiniteSet(rows)
           /\ \A k \in DOMAIN order : order[k] \in rows
           /\ \A k, l \in DOMAIN order : order[k] = order[l] => k = l
           /\ \A i \in rows : \E k \in DOMAIN order : i = order[k]
<1>1. IsFiniteSet(rows)
    BY RowFacts, FS_Subset
<1>2. Cardinality(rows) \in Nat
    BY <1>1, FS_CardinalityType
<1>. DEFINE n == Cardinality(rows)
            K == 1 .. n
<1>3. order \in [K -> rows] /\ \A k, l \in K : k < l => Before(order[k], order[l])
    BY DEF DrawOrders
<1>4. \A i \in rows : ~Before(i, i)
  <2>1. \A i \in rows : i \in Nat /\ records[i].unlockAt \in Nat
      BY RowFacts
  <2>. QED
      BY <2>1 DEF Before
<1>5. \A k, l \in K : order[k] = order[l] => k = l
  <2>. SUFFICES ASSUME NEW k \in K, NEW l \in K, order[k] = order[l], k # l PROVE FALSE
      OBVIOUS
  <2>1. k < l \/ l < k
      BY <1>2
  <2>. QED
      BY <1>3, <1>4, <2>1
<1>6. order \in Injection(K, rows)
    BY <1>3, <1>5 DEF Injection, IsInjective
<1>7. IsFiniteSet(K) /\ Cardinality(K) = n
    BY <1>2, FS_Interval
<1>. HIDE DEF K, n
<1>8. order \in Surjection(K, rows)
    BY <1>1, <1>6, <1>7, FS_Injection DEF n
<1>. QED
    BY <1>1, <1>2, <1>3, <1>5, <1>8 DEF Surjection, K, n

(* The snapshot a request takes of its fee adds up. *)
LEMMA MintRefundable ==
    ASSUME IInv, PaidMintRefundable, NEW a \in Accounts, NEW fee \in Nat \ {0}, RequestNFTMint(a, fee)
    PROVE  PaidMintRefundable'
<1>. DEFINE s == SpendOf(a, fee)
            amount == s.locked
            R == SpendableRows(a)
            rows == TouchedRows(a, amount)
            took == [i \in DOMAIN records |-> Taken(a, amount, i)]
<1>1. TypeOK /\ SpendTokens(a, fee) /\ Covers(a, fee) /\ fee \in Nat
    BY DEF RequestNFTMint, SpendTokens, IInv
<1>2. PICK order \in DrawOrders(rows) :
          mints' = Append(mints, [account |-> a, fee |-> fee, spend |-> s,
                                  segments |-> SegmentsOf(a, amount, order), status |-> "PAID"])
    BY DEF RequestNFTMint
<1>. DEFINE segs == SegmentsOf(a, amount, order)
            paid == [k \in DOMAIN segs |-> segs[k].amount]
<1>3. s \in Breakdown /\ s.locked + s.withdrawable + s.external = fee
    BY <1>1, SpendSplits
<1>4. amount \in Nat
    BY <1>3 DEF Breakdown
<1>5. Remaining(R) >= amount
    BY <1>1 DEF SpendTokens, ConsumeLockedFIFO
<1>. HIDE DEF s
<1>. HIDE DEF amount
<1>6. SumFunctionOnSet(took, R) = amount
    BY <1>1, <1>4, <1>5, DrawnInFull
<1>7. R \in SUBSET DOMAIN records /\ rows \in SUBSET R /\ rows \in SUBSET DOMAIN records
    BY DEF TouchedRows, SpendableRows
<1>8. /\ \A i \in rows : Taken(a, amount, i) > 0
      /\ \A i \in R \ rows : ~(Taken(a, amount, i) > 0)
    BY DEF TouchedRows
<1>9. \A i \in DOMAIN records : Taken(a, amount, i) \in Nat
    BY <1>1, <1>4, TakenBounds
<1>10. IsFiniteSet(R)
    BY <1>1, <1>7, RowFacts, FS_Subset
<1>11. /\ DOMAIN order = 1 .. Cardinality(rows) /\ Cardinality(rows) \in Nat /\ IsFiniteSet(rows)
       /\ \A k \in DOMAIN order : order[k] \in rows
       /\ \A k, l \in DOMAIN order : order[k] = order[l] => k = l
       /\ \A i \in rows : \E k \in DOMAIN order : i = order[k]
    BY <1>1, <1>2, <1>7, DrawOrderLists
<1>. HIDE DEF R, rows
<1>12. SumFunctionOnSet(took, rows) = amount
  <2>1. IntOn(took, R)
      BY <1>7, <1>9, <1>10 DEF IntOn
  <2>2. SumFunctionOnSet(took, R) = SumFunctionOnSet(took, rows) + SumFunctionOnSet(took, R \ rows)
      BY <1>7, <2>1, SumSplit
  <2>3. IsFiniteSet(R \ rows)
      BY <1>10, FS_Difference
  <2>4. \A i \in R \ rows : took[i] = 0
      BY <1>7, <1>8, <1>9
  <2>5. SumFunctionOnSet(took, R \ rows) = 0
      BY <2>3, <2>4, SumZero
  <2>6. IntOn(took, rows)
      BY <1>7, <2>1, IntOnSubset
  <2>7. SumFunctionOnSet(took, rows) \in Int
      BY <2>6, SumInt
  <2>. QED
      BY <1>4, <1>6, <2>2, <2>5, <2>7
<1>13. DOMAIN segs = DOMAIN order /\ \A k \in DOMAIN order : segs[k].amount = Taken(a, amount, order[k])
    BY DEF SegmentsOf
<1>14. \A k \in DOMAIN segs : segs[k].amount > 0
    BY <1>8, <1>11, <1>13
<1>15. /\ DOMAIN paid = DOMAIN order
       /\ \A k \in DOMAIN order : paid[k] = Taken(a, amount, order[k]) /\ took[order[k]] = paid[k]
    BY <1>7, <1>11, <1>13
<1>16. IntOn(paid, DOMAIN order)
  <2>1. IsFiniteSet(DOMAIN order)
      BY <1>11, FS_Interval
  <2>. HIDE DEF paid
  <2>2. ASSUME NEW k \in DOMAIN order PROVE paid[k] \in Nat
    <3>1. order[k] \in DOMAIN records
        BY <1>7, <1>11
    <3>2. paid[k] = Taken(a, amount, order[k])
        BY <1>15
    <3>. QED
        BY <1>9, <3>1, <3>2
  <2>. QED
      BY <2>1, <2>2 DEF IntOn
<1>. HIDE DEF paid, took
<1>17. SumFunctionOnSet(took, rows) = SumFunctionOnSet(paid, DOMAIN order)
  <2>. DEFINE S == DOMAIN order
  <2>1. /\ IntOn(paid, S)
        /\ \A k, l \in S : order[k] = order[l] => k = l
        /\ \A k \in S : took[order[k]] = paid[k]
        /\ \A k \in S : order[k] \in rows
        /\ \A i \in rows : \E k \in S : i = order[k]
      BY <1>11, <1>15, <1>16
  <2>. HIDE DEF S
  <2>2. SumFunctionOnSet(took, rows) = SumFunctionOnSet(paid, S)
      BY <2>1, SumRename
  <2>. QED
      BY <2>2 DEF S
<1>18. SumFunction(paid) = amount
    BY <1>12, <1>15, <1>17 DEF SumFunction, SumFunctionOnSet, FoldFunction
<1>. DEFINE row == [account |-> a, fee |-> fee, spend |-> s, segments |-> segs, status |-> "PAID"]
<1>. HIDE DEF segs
<1>19. row.spend = s /\ row.fee = fee /\ row.segments = segs
    OBVIOUS
<1>20. mints' = Append(mints, row)
    BY <1>2 DEF segs
<1>. HIDE DEF row
<1>21. Consistent(row)
    BY <1>3, <1>14, <1>18, <1>19 DEF Consistent, paid, amount
<1>22. mints \in Seq(MintRequest)
    BY <1>1 DEF TypeOK
<1>. QED
    BY <1>20, <1>21, <1>22, RefundableNow

LEMMA SettledMintRefundable ==
    ASSUME IInv, PaidMintRefundable, NEW m \in DOMAIN mints, ConfirmNFTMint(m) \/ CancelNFTMint(m)
    PROVE  PaidMintRefundable'
<1>1. PICK status \in {"CONFIRMED", "CANCELLED"} : mints' = [mints EXCEPT ![m].status = status]
    BY DEF ConfirmNFTMint, CancelNFTMint
<1>2. mints \in Seq(MintRequest) /\ mints[m] \in MintRequest
    BY DEF IInv, TypeOK
<1>. DEFINE row == [mints[m] EXCEPT !.status = status]
<1>3. row.status # "PAID" /\ mints' = [mints EXCEPT ![m] = row]
    BY <1>1, <1>2 DEF MintRequest
<1>. HIDE DEF row
<1>4. DOMAIN mints' = DOMAIN mints /\ mints'[m] = row /\ \A k \in DOMAIN mints : k # m => mints'[k] = mints[k]
    BY <1>2, <1>3
<1>. QED
    BY <1>3, <1>4, RefundableNow

(* No refund goes wrong, with the books that carry it. *)
RefundInv == IInv /\ RefundsCovered

LEMMA InitRefund == Init => RefundInv
<1>. SUFFICES ASSUME Init PROVE RefundInv
    OBVIOUS
<1>1. withdrawals = << >> /\ mints = << >> /\ \A a \in Accounts : requested[a] = 0
    BY DEF Init
<1>2. PaidMintRefundable
    BY <1>1 DEF PaidMintRefundable
<1>3. \A a \in Accounts : Outstanding(withdrawals, a) = 0
  <2>1. DOMAIN withdrawals = {}
      BY <1>1
  <2>. QED
      BY <2>1, SumEmpty DEF Outstanding
<1>4. withdrawals \in Seq(Withdrawal)
    BY <1>1
<1>5. RequestedIsInFlight
    BY <1>1, <1>3, <1>4, InFlightNow
<1>. QED
    BY <1>2, <1>5, InitIInv DEF RefundInv, RefundsCovered

LEMMA NextRefund == RefundInv /\ [Next]_vars => RefundInv'
<1>. SUFFICES ASSUME RefundInv, [Next]_vars PROVE RefundsCovered'
    BY NextIInv DEF RefundInv
<1>1. IInv /\ RequestedIsInFlight /\ PaidMintRefundable /\ withdrawals' \in Seq(Withdrawal)
    BY NextIInv DEF RefundInv, RefundsCovered, IInv, TypeOK
<1>2. Amounts \subseteq Nat \ {0}
    BY LedgerAssumption
<1>3. UNCHANGED <<withdrawals, requested>> => RequestedIsInFlight'
    BY <1>1 DEF RequestedIsInFlight
<1>4. UNCHANGED mints => PaidMintRefundable'
    BY <1>1, RefundableNow
<1>5. ASSUME NEW a \in Accounts, NEW amount \in Amounts, Spend(a, amount) \/ CreditDeposit(a, amount)
             \/ \E hours \in Cooldowns : GrantLocked(a, amount, hours)
      PROVE  UNCHANGED <<withdrawals, requested, mints>>
    BY <1>5 DEF Spend, CreditDeposit, GrantLocked
<1>6. ASSUME NEW a \in Accounts, NEW amount \in Amounts, RequestNFTMint(a, amount)
      PROVE  RefundsCovered'
  <2>1. UNCHANGED <<withdrawals, requested>>
      BY <1>6 DEF RequestNFTMint
  <2>. QED
      BY <1>1, <1>2, <1>3, <1>6, <2>1, MintRefundable DEF RefundsCovered
<1>7. ASSUME NEW a \in Accounts, NEW amount \in Amounts, CreateWithdrawal(a, amount)
      PROVE  RefundsCovered'
  <2>1. UNCHANGED mints
      BY <1>7 DEF CreateWithdrawal
  <2>. QED
      BY <1>1, <1>2, <1>4, <1>7, <2>1, CreateInFlight DEF RefundsCovered
<1>8. ASSUME NEW m \in DOMAIN mints, ConfirmNFTMint(m) \/ CancelNFTMint(m) PROVE RefundsCovered'
  <2>1. UNCHANGED <<withdrawals, requested>>
      BY <1>8 DEF ConfirmNFTMint, CancelNFTMint, history
  <2>. QED
      BY <1>1, <1>3, <1>8, <2>1, SettledMintRefundable DEF RefundsCovered
<1>9. ASSUME NEW w \in DOMAIN withdrawals, RejectWithdrawal(w) PROVE RefundsCovered'
  <2>1. UNCHANGED mints
      BY <1>9 DEF RejectWithdrawal
  <2>. QED
      BY <1>1, <1>4, <1>9, <2>1, RejectInFlight DEF RefundsCovered
<1>10. ASSUME NEW w \in DOMAIN withdrawals,
              ApproveWithdrawal(w) \/ \E status \in WithdrawalStatus : AdvanceWithdrawal(w, status)
       PROVE  RefundsCovered'
  <2>1. PICK status \in WithdrawalStatus :
           /\ withdrawals' = WithStatus(withdrawals, w, status)
           /\ withdrawals[w].status # "REJECTED" /\ status # "REJECTED"
    <3>1. CASE ApproveWithdrawal(w)
        BY <3>1 DEF ApproveWithdrawal, WithdrawalStatus, WithStatus
    <3>2. ASSUME NEW status \in WithdrawalStatus, AdvanceWithdrawal(w, status)
          PROVE  /\ withdrawals' = WithStatus(withdrawals, w, status)
                 /\ withdrawals[w].status # "REJECTED" /\ status # "REJECTED"
        BY <3>2 DEF AdvanceWithdrawal, PayoutJobMoves, WithStatus
    <3>. QED
        BY <1>10, <3>1, <3>2
  <2>2. UNCHANGED <<mints, requested>>
      BY <1>10 DEF ApproveWithdrawal, AdvanceWithdrawal, history
  <2>. QED
      BY <1>1, <1>4, <2>1, <2>2, StatusInFlight DEF RefundsCovered
<1>11. ASSUME \/ \E a \in Accounts, wd \in Amounts \cup {0}, lk \in AdminLocked : AdminGrant(a, wd, lk)
              \/ \E batch \in SUBSET MatureRows : SettleUnlocks(batch)
              \/ Tick \/ UNCHANGED vars
       PROVE  UNCHANGED <<withdrawals, requested, mints>>
    BY <1>11 DEF AdminGrant, SettleUnlocks, Tick, vars, history
<1>12. UNCHANGED <<withdrawals, requested, mints>> => RefundsCovered'
    BY <1>3, <1>4 DEF RefundsCovered
<1>. QED
    BY <1>5, <1>6, <1>7, <1>8, <1>9, <1>10, <1>11, <1>12 DEF Next

(* No refund goes wrong: what left the withdrawable column is the requests *)
(* that were not rejected, each counted once, and a mint whose fee is paid *)
(* can be cancelled at any time, because the snapshot of where the fee was *)
(* taken from adds up to it (RejectWithdrawal, refundNFTMintFee).          *)
THEOREM RefundsAlwaysCovered == Spec => []RefundsCovered
<1>1. RefundInv => RefundsCovered
    BY DEF RefundInv
<1>. QED
    BY <1>1, InitRefund, NextRefund, PTL DEF Spec

-----------------------------------------------------------------------------
(* What a step may do to row i of locked_token_records. *)
DrawnInOrder(i) ==
    records'[i].remaining < records[i].remaining =>
        \A j \in SpendableRows(records[i].account) : Before(j, i) => records'[j].remaining = 0

CoolsDown(i) ==
    /\ records[i].status = "LOCKED" /\ records'[i].status = "UNLOCKED" => records[i].unlockAt <= now
    /\ records[i].status # "LOCKED" => records'[i] = records[i]

(* A draw that reaches a row has emptied every row before it: what is      *)
(* ahead of the earlier row, and the earlier row itself, is ahead of the   *)
(* later one.                                                              *)
LEMMA EarlierRowsEmptied ==
    ASSUME TypeOK, NEW a \in Accounts, NEW amount \in Nat,
           NEW i \in SpendableRows(a), Taken(a, amount, i) > 0,
           NEW j \in SpendableRows(a), Before(j, i)
    PROVE  Taken(a, amount, j) = records[j].remaining
<1>. DEFINE R == SpendableRows(a)
            ahead(k) == {l \in R : Before(l, k)}
            rem == [k \in DOMAIN records |-> records[k].remaining]
            F(s) == SumFunctionOnSet(rem, s)
<1>1. R \in SUBSET DOMAIN records
    BY DEF SpendableRows
<1>2. \A k \in R : k \in Nat /\ records[k].unlockAt \in Nat /\ records[k].remaining \in Nat
    BY <1>1, RowFacts
<1>3. ahead(j) \in SUBSET (ahead(i) \ {j}) /\ j \in ahead(i)
    BY <1>2 DEF Before
<1>4. /\ ahead(i) \in SUBSET DOMAIN records /\ ahead(j) \in SUBSET DOMAIN records
      /\ IsFiniteSet(DOMAIN records) /\ \A k \in DOMAIN records : rem[k] \in Nat
    BY <1>1, RowFacts
<1>. HIDE DEF R
<1>5. IntOn(rem, DOMAIN records)
    BY <1>4 DEF IntOn
<1>6. rem[j] = records[j].remaining
    BY <1>1 DEF R
<1>7. /\ Taken(a, amount, i) = IF F(ahead(i)) >= amount THEN 0 ELSE Lesser(records[i].remaining, amount - F(ahead(i)))
      /\ Taken(a, amount, j) = IF F(ahead(j)) >= amount THEN 0 ELSE Lesser(records[j].remaining, amount - F(ahead(j)))
    BY DEF Taken, Remaining, R
<1>. DEFINE A == ahead(i)
            B == ahead(j)
<1>8. A \in SUBSET DOMAIN records /\ B \in SUBSET (A \ {j}) /\ j \in A /\ B \in SUBSET DOMAIN records
    BY <1>3, <1>4
<1>9. Taken(a, amount, j) = IF F(B) >= amount THEN 0 ELSE Lesser(records[j].remaining, amount - F(B))
    BY <1>7
<1>10. ~(F(A) >= amount)
    BY <1>7
<1>. HIDE DEF A, B, ahead, rem
<1>11. IntOn(rem, A) /\ IntOn(rem, A \ {j}) /\ IntOn(rem, B) /\ IntOn(rem, (A \ {j}) \ B)
  <2>1. A \ {j} \in SUBSET DOMAIN records /\ (A \ {j}) \ B \in SUBSET DOMAIN records
      BY <1>8
  <2>. QED
      BY <1>5, <1>8, <2>1, IntOnSubset
<1>12. SumFunctionOnSet(rem, A) = rem[j] + SumFunctionOnSet(rem, A \ {j})
    BY <1>8, <1>11, SumRemove
<1>13. SumFunctionOnSet(rem, A \ {j}) = SumFunctionOnSet(rem, B) + SumFunctionOnSet(rem, (A \ {j}) \ B)
    BY <1>8, <1>11, SumSplit
<1>14. F(B) \in Nat /\ F((A \ {j}) \ B) \in Nat
    BY <1>4, <1>8, <1>11, SumNat DEF IntOn
<1>15. records[j].remaining \in Nat
    BY <1>2 DEF R
<1>. QED
    BY <1>6, <1>9, <1>10, <1>12, <1>13, <1>14, <1>15 DEF Lesser

LEMMA ConsumeInOrder ==
    ASSUME TypeOK, NEW a \in Accounts, NEW amount \in Nat, ConsumeLockedFIFO(a, amount),
           NEW i \in DOMAIN records
    PROVE  DrawnInOrder(i) /\ CoolsDown(i)
<1>. DEFINE left(k) == records[k].remaining - Taken(a, amount, k)
            new(k) == [records[k] EXCEPT !.remaining = left(k),
                                         !.status = IF left(k) = 0 THEN "CONSUMED" ELSE @]
<1>1. \A k \in DOMAIN records :
        records'[k] = IF k \in TouchedRows(a, amount) THEN new(k) ELSE records[k]
    BY DEF ConsumeLockedFIFO
<1>2. \A k \in DOMAIN records :
        /\ records[k] \in LockedRow /\ records[k].remaining \in Nat
        /\ Taken(a, amount, k) \in Nat
    BY RowFacts, TakenBounds
<1>3. ASSUME NEW k \in DOMAIN records
      PROVE  /\ new(k).remaining = left(k)
             /\ new(k).status \in {"CONSUMED", records[k].status}
  <2>1. records[k] \in LockedRow
      BY <1>2
  <2>. QED
      BY <2>1 DEF LockedRow
<1>. HIDE DEF new
<1>4. CASE i \notin TouchedRows(a, amount)
  <2>1. records'[i] = records[i]
      BY <1>1, <1>4
  <2>. QED
      BY <1>2, <2>1 DEF DrawnInOrder, CoolsDown, LockedRow
<1>5. CASE i \in TouchedRows(a, amount)
  <2>1. /\ i \in SpendableRows(a) /\ Taken(a, amount, i) > 0
        /\ records[i].account = a /\ records[i].status = "LOCKED"
      BY <1>5 DEF TouchedRows, SpendableRows
  <2>2. records'[i].status # "UNLOCKED"
      BY <1>1, <1>3, <1>5, <2>1
  <2>3. ASSUME NEW j \in SpendableRows(a), Before(j, i) PROVE records'[j].remaining = 0
    <3>1. Taken(a, amount, j) = records[j].remaining
        BY <2>1, <2>3, EarlierRowsEmptied
    <3>2. j \in DOMAIN records /\ records[j].remaining > 0
        BY <2>3 DEF SpendableRows
    <3>3. j \in TouchedRows(a, amount)
        BY <2>3, <3>1, <3>2 DEF TouchedRows
    <3>. QED
        BY <1>1, <1>2, <1>3, <3>1, <3>2, <3>3
  <2>. QED
      BY <2>1, <2>2, <2>3 DEF DrawnInOrder, CoolsDown
<1>. QED
    BY <1>4, <1>5

LEMMA SettleInOrder ==
    ASSUME TypeOK, NEW batch \in SUBSET MatureRows, SettleUnlocks(batch), NEW i \in DOMAIN records
    PROVE  DrawnInOrder(i) /\ CoolsDown(i)
<1>1. records[i] \in LockedRow /\ records[i].remaining \in Nat
    BY RowFacts
<1>. DEFINE new == [records[i] EXCEPT !.status = "UNLOCKED"]
<1>2. new.remaining = records[i].remaining
    BY <1>1 DEF LockedRow
<1>3. records'[i] = IF i \in batch THEN new ELSE records[i]
    BY DEF SettleUnlocks
<1>. HIDE DEF new
<1>4. i \in batch => records[i].status = "LOCKED" /\ records[i].unlockAt <= now
    BY DEF MatureRows
<1>5. records'[i].remaining = records[i].remaining
    BY <1>2, <1>3
<1>6. DrawnInOrder(i)
    BY <1>1, <1>5 DEF DrawnInOrder
<1>. QED
    BY <1>3, <1>4, <1>6 DEF CoolsDown

LEMMA NextInOrder ==
    ASSUME IInv, [Next]_vars, NEW i \in DOMAIN records
    PROVE  DrawnInOrder(i) /\ CoolsDown(i)
<1>1. TypeOK /\ Amounts \subseteq Nat \ {0}
    BY LedgerAssumption DEF IInv
<1>2. records[i].remaining \in Nat /\ records \in Seq(LockedRow)
    BY <1>1, RowFacts DEF TypeOK
<1>3. records'[i] = records[i] => DrawnInOrder(i) /\ CoolsDown(i)
    BY <1>2 DEF DrawnInOrder, CoolsDown
<1>4. ASSUME NEW a \in Accounts, NEW amount \in Amounts, Spend(a, amount) \/ RequestNFTMint(a, amount)
      PROVE  DrawnInOrder(i) /\ CoolsDown(i)
  <2>1. SpendTokens(a, amount) /\ amount \in Nat
      BY <1>1, <1>4 DEF Spend, RequestNFTMint
  <2>2. SpendOf(a, amount) \in Breakdown /\ ConsumeLockedFIFO(a, SpendOf(a, amount).locked)
      BY <1>1, <2>1, SpendSplits DEF SpendTokens
  <2>3. SpendOf(a, amount).locked \in Nat
      BY <2>2 DEF Breakdown
  <2>. QED
      BY <1>1, <2>2, <2>3, ConsumeInOrder
<1>5. ASSUME NEW a \in Accounts, NEW amount \in Amounts, NEW hours \in Cooldowns, GrantLocked(a, amount, hours)
      PROVE  records'[i] = records[i]
    BY <1>2, <1>5 DEF GrantLocked
<1>6. ASSUME NEW m \in DOMAIN mints, CancelNFTMint(m)
      PROVE  records'[i] = records[i]
  <2>. DEFINE segs == mints[m].segments
              new == [k \in DOMAIN segs |-> LockedRecord(mints[m].account, segs[k].amount, segs[k].unlockAt)]
  <2>1. mints[m] \in MintRequest
      BY <1>1 DEF TypeOK
  <2>2. segs \in Seq(Segment)
      BY <2>1 DEF MintRequest
  <2>3. new \in Seq(Range(new))
      BY <2>2 DEF Range
  <2>4. records' = records \o new
      BY <1>6 DEF CancelNFTMint
  <2>. HIDE DEF new
  <2>. QED
      BY <1>2, <2>3, <2>4
<1>7. ASSUME NEW batch \in SUBSET MatureRows, SettleUnlocks(batch)
      PROVE  DrawnInOrder(i) /\ CoolsDown(i)
    BY <1>1, <1>7, SettleInOrder
<1>8. ASSUME \/ \E a \in Accounts, amount \in Amounts : CreditDeposit(a, amount) \/ CreateWithdrawal(a, amount)
             \/ \E a \in Accounts, wd \in Amounts \cup {0}, lk \in AdminLocked : AdminGrant(a, wd, lk)
             \/ \E m \in DOMAIN mints : ConfirmNFTMint(m)
             \/ \E w \in DOMAIN withdrawals :
                   \/ ApproveWithdrawal(w)
                   \/ RejectWithdrawal(w)
                   \/ \E status \in WithdrawalStatus : AdvanceWithdrawal(w, status)
             \/ Tick \/ UNCHANGED vars
      PROVE  records' = records
    BY <1>8 DEF CreditDeposit, CreateWithdrawal, AdminGrant, ConfirmNFTMint, ApproveWithdrawal,
                RejectWithdrawal, AdvanceWithdrawal, Tick, vars
<1>. QED
    BY <1>3, <1>4, <1>5, <1>6, <1>7, <1>8 DEF Next

(* Cooldown AEB is spent earliest first, never while an earlier-unlocking  *)
(* row of the account holds any; no row becomes withdrawable before its    *)
(* time, and a row once settled or consumed never changes again            *)
(* (consumeLockedTokenFIFO, SettleUnlocks, refundNFTMintFee).              *)
THEOREM CooldownAlwaysOrdered == Spec => CooldownOrder
<1>1. IInv /\ [Next]_vars =>
        [\A i \in DOMAIN records :
           records'[i].remaining < records[i].remaining =>
              \A j \in SpendableRows(records[i].account) : Before(j, i) => records'[j].remaining = 0]_vars
    BY NextInOrder DEF DrawnInOrder
<1>2. IInv /\ [Next]_vars =>
        [\A i \in DOMAIN records :
           /\ records[i].status = "LOCKED" /\ records'[i].status = "UNLOCKED" => records[i].unlockAt <= now
           /\ records[i].status # "LOCKED" => records'[i] = records[i]]_vars
    BY NextInOrder DEF CoolsDown
<1>. QED
    BY <1>1, <1>2, SpecIInv, PTL DEF Spec, CooldownOrder, FifoConsumption, CooldownRespected

-----------------------------------------------------------------------------
(***************************************************************************)
(* LedgerLocks implements AebLedger: a commit finds what its transaction   *)
(* read.  The account's lock keeps the balances and all the rows of that   *)
(* account from everybody else, since whoever moves a row of an account    *)
(* holds the account by then; the row locks keep a batch from the spends   *)
(* that draw before the settle run has reached their account.              *)
(***************************************************************************)
(* A spend of amount from a was split into s, and would be split so again. *)
Split(a, amount, s) ==
    a \in Accounts /\ amount \in Amounts /\ Covers(a, amount) /\ s = SpendOf(a, amount)

DrawnRow(a, draw, i) ==
    LET left == records[i].remaining - Taken(a, draw, i)
    IN  [records[i] EXCEPT !.remaining = left,
                           !.status = IF left = 0 THEN "CONSUMED" ELSE @]

(* The image im of a draw is what the draw would do to the rows now. *)
Drawn(a, draw, rows, im) ==
    /\ Remaining(SpendableRows(a)) >= draw
    /\ TouchedRows(a, draw) \subseteq rows
    /\ im = [i \in TouchedRows(a, draw) |-> DrawnRow(a, draw, i)]

SpendOK(p) ==
    /\ pc[p] \in {"idle", "account", "rows"}
    /\ pc[p] # "idle" => /\ request[p].account \in accountLocks[p]
                         /\ Split(request[p].account, request[p].amount, plan[p])
    /\ pc[p] = "rows" => Drawn(request[p].account, plan[p].locked, rowLocks[p], image[p])

(* The batch of a settle run is mature still, and as it was read. *)
BatchAsRead(rows, im, moved, held) ==
    /\ rows \subseteq MatureRows /\ Cardinality(rows) <= SettleLimit
    /\ im = [i \in rows |-> [records[i] EXCEPT !.status = "UNLOCKED"]]
    /\ \A i \in rows \cap moved : records[i].account \in held

SettleOK(p) ==
    /\ pc[p] \in {"idle", "batch"}
    /\ pc[p] = "idle" => settled[p] = {}
    /\ pc[p] = "batch" => BatchAsRead(rowLocks[p], image[p], settled[p], accountLocks[p])

LocksApart ==
    \A p, q \in Procs : p # q => /\ accountLocks[p] \cap accountLocks[q] = {}
                                 /\ rowLocks[p] \cap rowLocks[q] = {}

LockTables ==
    /\ DOMAIN pc = Procs /\ DOMAIN image = Procs /\ DOMAIN settled = Procs
    /\ DOMAIN accountLocks = Procs /\ DOMAIN rowLocks = Procs
    /\ DOMAIN request = Spenders /\ DOMAIN plan = Spenders

LocksInv ==
    /\ IInv
    /\ LockTables
    /\ LocksApart
    /\ \A p \in Spenders : SpendOK(p)
    /\ \A p \in Settlers : SettleOK(p)

(* A step leaves the balances and the rows of account a as they are. *)
Untouched(a) ==
    /\ tokens'[a] = tokens[a]
    /\ \A i \in DOMAIN records : records[i].account = a => i \in DOMAIN records' /\ records'[i] = records[i]
    /\ \A i \in DOMAIN records' : records'[i].account = a => i \in DOMAIN records /\ records'[i] = records[i]

(* A step leaves what transaction p knows and holds as it is. *)
Aside(p) ==
    /\ pc'[p] = pc[p] /\ image'[p] = image[p] /\ settled'[p] = settled[p]
    /\ accountLocks'[p] = accountLocks[p] /\ rowLocks'[p] = rowLocks[p]
    /\ p \in Spenders => request'[p] = request[p] /\ plan'[p] = plan[p]

(* What a draw from a would do depends on the rows of a only. *)
LEMMA SameDraw ==
    ASSUME TypeOK, TypeOK', NEW a \in Accounts, Untouched(a), NEW draw \in Nat
    PROVE  /\ SpendableRows(a)' = SpendableRows(a)
           /\ Remaining(SpendableRows(a))' = Remaining(SpendableRows(a))
           /\ TouchedRows(a, draw)' = TouchedRows(a, draw)
           /\ \A i \in SpendableRows(a) : DrawnRow(a, draw, i)' = DrawnRow(a, draw, i)
<1>. DEFINE S == SpendableRows(a)
            rem(rs) == [i \in DOMAIN rs |-> rs[i].remaining]
<1>1. SpendableRows(a)' = S
    BY DEF SpendableRows, Untouched
<1>2. \A i \in S : /\ i \in DOMAIN records /\ i \in DOMAIN records'
                   /\ records'[i] = records[i]
    BY DEF SpendableRows, Untouched
<1>3. ASSUME NEW T \in SUBSET S
      PROVE  Remaining(T)' = Remaining(T)
  <2>1. IntOn(rem(records), T)
    <3>1. IsFiniteSet(T)
        BY <1>2, RowFacts, FS_Subset
    <3>2. \A i \in T : rem(records)[i] \in Int
        BY <1>2, RowFacts
    <3>. QED
        BY <3>1, <3>2 DEF IntOn
  <2>2. \A i \in T : rem(records')[i] = rem(records)[i]
      BY <1>2
  <2>. HIDE DEF rem
  <2>3. SumFunctionOnSet(rem(records'), T) = SumFunctionOnSet(rem(records), T)
      BY <2>1, <2>2, SumSame
  <2>. QED
      BY <2>3 DEF Remaining, rem
<1>4. ASSUME NEW i \in S, NEW j \in S PROVE Before(j, i)' = Before(j, i)
    BY <1>2 DEF Before
<1>5. ASSUME NEW i \in S PROVE Taken(a, draw, i)' = Taken(a, draw, i)
  <2>. DEFINE ahead == {j \in S : Before(j, i)}
  <2>1. {j \in SpendableRows(a)' : Before(j, i)'} = ahead
      BY <1>1, <1>4
  <2>2. Remaining(ahead)' = Remaining(ahead)
      BY <1>3, <2>1
  <2>3. records'[i] = records[i]
      BY <1>2
  <2>. QED
      BY <2>1, <2>2, <2>3 DEF Taken
<1>6. TouchedRows(a, draw)' = TouchedRows(a, draw)
    BY <1>1, <1>5 DEF TouchedRows
<1>7. ASSUME NEW i \in S PROVE DrawnRow(a, draw, i)' = DrawnRow(a, draw, i)
    BY <1>2, <1>5 DEF DrawnRow
<1>. QED
    BY <1>1, <1>3, <1>6, <1>7

LEMMA SameSplit ==
    ASSUME NEW a, NEW amount, NEW s, Untouched(a), Split(a, amount, s)
    PROVE  Split(a, amount, s)'
BY DEF Split, Untouched, Covers, SpendOf

LEMMA SameDrawn ==
    ASSUME TypeOK, TypeOK', NEW a \in Accounts, NEW draw \in Nat, NEW rows, NEW im,
           Untouched(a), Drawn(a, draw, rows, im)
    PROVE  Drawn(a, draw, rows, im)'
<1>1. /\ Remaining(SpendableRows(a))' = Remaining(SpendableRows(a))
      /\ TouchedRows(a, draw)' = TouchedRows(a, draw)
      /\ \A i \in TouchedRows(a, draw) : DrawnRow(a, draw, i)' = DrawnRow(a, draw, i)
    BY SameDraw DEF TouchedRows
<1>. QED
    BY <1>1 DEF Drawn

(* What is read of a spend that has its account. *)
LEMMA SplitFacts ==
    ASSUME TypeOK, NEW a, NEW amount, NEW s, Split(a, amount, s)
    PROVE  a \in Accounts /\ amount \in Nat /\ s.locked \in Nat
<1>1. a \in Accounts /\ amount \in Nat /\ Covers(a, amount) /\ s = SpendOf(a, amount)
    BY LedgerAssumption DEF Split
<1>. QED
    BY <1>1, SpendSplits DEF Breakdown

(* The transactions that a step leaves aside, with their accounts and      *)
(* their rows, still know what they knew.                                  *)
LEMMA SpendAside ==
    ASSUME TypeOK, TypeOK', NEW p \in Spenders, SpendOK(p), Aside(p),
           \A a \in accountLocks[p] \cap Accounts : Untouched(a)
    PROVE  SpendOK(p)'
<1>. DEFINE r == request[p]
<1>1. /\ pc'[p] = pc[p] /\ image'[p] = image[p] /\ accountLocks'[p] = accountLocks[p]
      /\ rowLocks'[p] = rowLocks[p] /\ request'[p] = r /\ plan'[p] = plan[p]
    BY DEF Aside
<1>2. ASSUME pc[p] # "idle"
      PROVE  r.account \in accountLocks[p] /\ Split(r.account, r.amount, plan[p])'
  <2>1. r.account \in accountLocks[p] /\ Split(r.account, r.amount, plan[p])
      BY <1>2 DEF SpendOK
  <2>2. r.account \in Accounts
      BY <2>1 DEF Split
  <2>. QED
      BY <1>1, <2>1, <2>2, SameSplit
<1>3. ASSUME pc[p] = "rows"
      PROVE  Drawn(r.account, plan[p].locked, rowLocks[p], image[p])'
  <2>1. r.account \in accountLocks[p] /\ Split(r.account, r.amount, plan[p])
        /\ Drawn(r.account, plan[p].locked, rowLocks[p], image[p])
      BY <1>3 DEF SpendOK
  <2>2. r.account \in Accounts /\ plan[p].locked \in Nat
      BY <2>1, SplitFacts
  <2>. QED
      BY <1>1, <2>1, <2>2, SameDrawn
<1>. QED
    BY <1>1, <1>2, <1>3 DEF SpendOK

LEMMA SettleAside ==
    ASSUME TypeOK, NEW p \in Settlers, SettleOK(p), Aside(p), now' \in Int, now' >= now,
           \A i \in rowLocks[p] : i \in DOMAIN records => i \in DOMAIN records' /\ records'[i] = records[i]
    PROVE  SettleOK(p)'
<1>. SUFFICES ASSUME pc[p] = "batch"
              PROVE  BatchAsRead(rowLocks[p], image[p], settled[p], accountLocks[p])'
    BY DEF SettleOK, Aside
<1>1. /\ image'[p] = image[p] /\ settled'[p] = settled[p]
      /\ accountLocks'[p] = accountLocks[p] /\ rowLocks'[p] = rowLocks[p]
    BY DEF Aside
<1>2. BatchAsRead(rowLocks[p], image[p], settled[p], accountLocks[p])
    BY DEF SettleOK
<1>3. \A i \in rowLocks[p] : /\ i \in DOMAIN records /\ i \in DOMAIN records' /\ records'[i] = records[i]
                             /\ records[i].status = "LOCKED" /\ records[i].unlockAt <= now
    BY <1>2 DEF BatchAsRead, MatureRows
<1>4. ASSUME NEW i \in rowLocks[p] PROVE records[i].unlockAt <= now'
  <2>1. records[i].unlockAt \in Nat /\ now \in Nat
      BY <1>3, RowFacts DEF TypeOK
  <2>. QED
      BY <1>3, <2>1
<1>5. rowLocks[p] \subseteq MatureRows'
    BY <1>3, <1>4 DEF MatureRows
<1>. QED
    BY <1>1, <1>2, <1>3, <1>5 DEF BatchAsRead

(* What a step must leave to the transactions outside of moving. *)
LeavesOthers(moving) ==
    /\ LockTables'
    /\ now' \in Int /\ now' >= now
    /\ \A p \in Procs \ moving :
          /\ Aside(p)
          /\ \A a \in accountLocks[p] \cap Accounts : Untouched(a)
          /\ \A i \in rowLocks[p] : i \in DOMAIN records => i \in DOMAIN records' /\ records'[i] = records[i]

LEMMA OthersKept ==
    ASSUME LocksInv, IInv', NEW moving, LeavesOthers(moving),
           \A p \in moving \cap Spenders : SpendOK(p)',
           \A p \in moving \cap Settlers : SettleOK(p)',
           LocksApart'
    PROVE  LocksInv'
<1>1. TypeOK /\ TypeOK'
    BY DEF LocksInv, IInv
<1>2. ASSUME NEW p \in Spenders \ moving PROVE SpendOK(p)'
  <2>1. p \in Procs \ moving /\ SpendOK(p)
      BY DEF Procs, LocksInv
  <2>. QED
      BY <1>1, <2>1, SpendAside DEF LeavesOthers
<1>3. ASSUME NEW p \in Settlers \ moving PROVE SettleOK(p)'
  <2>1. p \in Procs \ moving /\ SettleOK(p)
      BY DEF Procs, LocksInv
  <2>. QED
      BY <1>1, <2>1, SettleAside DEF LeavesOthers
<1>4. LockTables'
    BY DEF LeavesOthers
<1>. QED
    BY <1>2, <1>3, <1>4 DEF LocksInv

(* A step that writes no row of the books. *)
LEMMA QuietAside ==
    ASSUME LocksInv, UNCHANGED vars, LockTables', NEW moving,
           \A p \in Procs \ moving : Aside(p)
    PROVE  LeavesOthers(moving) /\ IInv'
<1>1. /\ tokens' = tokens /\ records' = records /\ withdrawals' = withdrawals /\ mints' = mints
      /\ now' = now /\ issued' = issued /\ spent' = spent /\ requested' = requested
    BY DEF vars
<1>2. IInv'
    BY <1>1, NextIInv DEF LocksInv
<1>3. now \in Nat
    BY DEF LocksInv, IInv, TypeOK
<1>4. \A a : Untouched(a)
    BY <1>1 DEF Untouched
<1>. QED
    BY <1>1, <1>2, <1>3, <1>4 DEF LeavesOthers

(* Locks that only shrink, but for those of q that nobody else has. *)
LEMMA StillApart ==
    ASSUME LocksApart, NEW q \in Procs,
           \A p \in Procs \ {q} : accountLocks'[p] = accountLocks[p] /\ rowLocks'[p] = rowLocks[p],
           \A p \in Procs \ {q} : /\ accountLocks'[q] \cap accountLocks[p] = {}
                                  /\ rowLocks'[q] \cap rowLocks[p] = {}
    PROVE  LocksApart'
BY DEF LocksApart

(* The end of a transaction. *)
LEMMA ReleaseEffect ==
    ASSUME LocksInv, NEW q \in Procs, Release(q)
    PROVE  /\ LockTables' /\ LocksApart'
           /\ \A p \in Procs \ {q} : Aside(p)
           /\ SpendOK(q)' /\ SettleOK(q)'
<1>1. LockTables /\ LocksApart
    BY DEF LocksInv
<1>2. /\ pc'[q] = "idle" /\ accountLocks'[q] = {} /\ rowLocks'[q] = {} /\ settled'[q] = {}
      /\ LockTables'
      /\ \A p \in Procs \ {q} : Aside(p)
    BY <1>1 DEF Release, LockTables, Aside
<1>3. LocksApart'
    BY <1>1, <1>2, StillApart DEF Aside
<1>. QED
    BY <1>2, <1>3 DEF SpendOK, SettleOK

LEMMA RollbackKeeps ==
    ASSUME LocksInv, NEW q \in Procs, Release(q), UNCHANGED vars
    PROVE  LocksInv'
<1>1. /\ LockTables' /\ LocksApart' /\ SpendOK(q)' /\ SettleOK(q)'
      /\ \A p \in Procs \ {q} : Aside(p)
    BY ReleaseEffect
<1>2. LeavesOthers({q}) /\ IInv'
    BY <1>1, QuietAside
<1>. QED
    BY <1>1, <1>2, OthersKept

-----------------------------------------------------------------------------
(* The statements of a spend before its commit. *)
LEMMA LockAccountKeeps ==
    ASSUME LocksInv, NEW q \in Spenders, NEW a \in Accounts, NEW amount \in Amounts,
           SpendLockAccount(q, a, amount)
    PROVE  LocksInv'
<1>1. LockTables /\ LocksApart /\ q \in Procs /\ q \notin Settlers
    BY ProcsAssumption DEF LocksInv, Procs
<1>2. /\ UNCHANGED vars /\ Covers(a, amount) /\ AccountFree(q, a)
      /\ pc' = [pc EXCEPT ![q] = "account"]
      /\ request' = [request EXCEPT ![q] = [account |-> a, amount |-> amount]]
      /\ plan' = [plan EXCEPT ![q] = SpendOf(a, amount)]
      /\ accountLocks' = [accountLocks EXCEPT ![q] = {a}]
      /\ UNCHANGED <<image, rowLocks, settled>>
    BY DEF SpendLockAccount
<1>3. /\ LockTables'
      /\ \A p \in Procs \ {q} : Aside(p)
      /\ pc'[q] = "account" /\ request'[q] = [account |-> a, amount |-> amount]
      /\ plan'[q] = SpendOf(a, amount) /\ accountLocks'[q] = {a}
    BY <1>1, <1>2 DEF LockTables, Aside
<1>4. Split(a, amount, SpendOf(a, amount))'
    BY <1>2 DEF Split, Covers, SpendOf, vars
<1>5. SpendOf(a, amount)' = SpendOf(a, amount)
    BY <1>2 DEF SpendOf, vars
<1>6. SpendOK(q)'
    BY <1>3, <1>4, <1>5 DEF SpendOK
<1>7. LocksApart'
    BY <1>1, <1>2, <1>3 DEF LocksApart, AccountFree, Aside
<1>8. LeavesOthers({q}) /\ IInv'
    BY <1>2, <1>3, QuietAside
<1>. QED
    BY <1>1, <1>6, <1>7, <1>8, OthersKept

LEMMA LockRowKeeps ==
    ASSUME LocksInv, NEW q \in Spenders, SpendLockRow(q)
    PROVE  LocksInv'
<1>. DEFINE i == First(WantedRows(q) \ rowLocks[q])
<1>1. /\ LockTables /\ LocksApart /\ q \in Procs /\ q \notin Settlers
      /\ SpendOK(q)
    BY ProcsAssumption DEF LocksInv, Procs
<1>2. /\ pc[q] = "account" /\ RowFree(q, i)
      /\ rowLocks' = [rowLocks EXCEPT ![q] = @ \cup {i}]
      /\ UNCHANGED <<vars, pc, request, plan, image, accountLocks, settled>>
    BY DEF SpendLockRow
<1>. HIDE DEF i
<1>3. /\ LockTables'
      /\ \A p \in Procs \ {q} : Aside(p)
      /\ rowLocks'[q] = rowLocks[q] \cup {i}
    BY <1>1, <1>2 DEF LockTables, Aside
<1>4. request[q].account \in accountLocks[q]
      /\ Split(request[q].account, request[q].amount, plan[q])
    BY <1>1, <1>2 DEF SpendOK
<1>5. Split(request[q].account, request[q].amount, plan[q])'
    BY <1>2, <1>4, SameSplit DEF Untouched, vars
<1>6. SpendOK(q)'
    BY <1>2, <1>4, <1>5 DEF SpendOK
<1>7. LocksApart'
    BY <1>1, <1>2, <1>3 DEF LocksApart, RowFree, Aside
<1>8. LeavesOthers({q}) /\ IInv'
    BY <1>2, <1>3, QuietAside
<1>. QED
    BY <1>1, <1>6, <1>7, <1>8, OthersKept

(* Nothing is drawn, or every row that a draw touches is locked. *)
LEMMA TouchedWanted ==
    ASSUME TypeOK, NEW a \in Accounts, NEW draw \in Nat
    PROVE  draw = 0 => TouchedRows(a, draw) = {}
<1>. SUFFICES ASSUME draw = 0, NEW i \in SpendableRows(a) PROVE Taken(a, draw, i) = 0
    BY DEF TouchedRows
<1>. DEFINE ahead == {j \in SpendableRows(a) : Before(j, i)}
<1>1. Remaining(ahead) \in Nat
  <2>1. ahead \in SUBSET DOMAIN records
      BY DEF SpendableRows
  <2>. QED
      BY <2>1, RemainingNat
<1>2. Taken(a, draw, i) = IF Remaining(ahead) >= draw THEN 0
                          ELSE Lesser(records[i].remaining, draw - Remaining(ahead))
    BY DEF Taken
<1>. QED
    BY <1>1, <1>2

LEMMA ConsumeKeeps ==
    ASSUME LocksInv, NEW q \in Spenders, SpendConsume(q)
    PROVE  LocksInv'
<1>. DEFINE a == request[q].account
            draw == plan[q].locked
<1>1. /\ LockTables /\ LocksApart /\ q \in Procs /\ q \notin Settlers
      /\ SpendOK(q) /\ TypeOK
    BY ProcsAssumption DEF LocksInv, Procs, IInv
<1>2. /\ pc[q] = "account" /\ WantedRows(q) \subseteq rowLocks[q]
      /\ Remaining(WantedRows(q)) >= draw
      /\ pc' = [pc EXCEPT ![q] = "rows"]
      /\ image' = [image EXCEPT ![q] = [i \in TouchedRows(a, draw) |-> DrawnRow(a, draw, i)]]
      /\ UNCHANGED <<vars, request, plan, accountLocks, rowLocks, settled>>
    BY DEF SpendConsume, DrawnRow
<1>3. /\ LockTables'
      /\ \A p \in Procs \ {q} : Aside(p)
      /\ image'[q] = [i \in TouchedRows(a, draw) |-> DrawnRow(a, draw, i)]
    BY <1>1, <1>2 DEF LockTables, Aside
<1>4. a \in accountLocks[q] /\ Split(a, request[q].amount, plan[q])
    BY <1>1, <1>2 DEF SpendOK
<1>5. a \in Accounts /\ draw \in Nat
    BY <1>1, <1>4, SplitFacts
<1>6. Remaining(SpendableRows(a)) >= draw /\ TouchedRows(a, draw) \subseteq rowLocks[q]
  <2>1. CASE draw > 0
    <3>1. WantedRows(q) = SpendableRows(a)
        BY <2>1 DEF WantedRows
    <3>. QED
        BY <1>2, <3>1 DEF TouchedRows
  <2>2. CASE draw = 0
    <3>1. SpendableRows(a) \in SUBSET DOMAIN records
        BY DEF SpendableRows
    <3>2. Remaining(SpendableRows(a)) \in Nat
        BY <1>1, <3>1, RemainingNat
    <3>3. TouchedRows(a, draw) = {}
        BY <1>1, <1>5, <2>2, TouchedWanted
    <3>. QED
        BY <2>2, <3>2, <3>3
  <2>. QED
      BY <1>5, <2>1, <2>2
<1>7. Untouched(a)
    BY <1>2 DEF Untouched, vars
<1>8. LeavesOthers({q}) /\ IInv'
    BY <1>2, <1>3, QuietAside
<1>9. Split(a, request[q].amount, plan[q])'
    BY <1>2, <1>4, <1>7, SameSplit
<1>10. Drawn(a, draw, rowLocks[q], image'[q])
    BY <1>3, <1>6 DEF Drawn
<1>11. Drawn(a, draw, rowLocks[q], image[q])'
  <2>1. TypeOK'
      BY <1>8 DEF IInv
  <2>2. \A im : Drawn(a, draw, rowLocks[q], im) => Drawn(a, draw, rowLocks[q], im)'
      BY <1>1, <1>2, <1>5, <1>7, <2>1, SameDrawn
  <2>. QED
      BY <1>2, <1>10, <2>2 DEF Drawn
<1>12. SpendOK(q)'
  <2>1. pc'[q] = "rows"
      BY <1>1, <1>2 DEF LockTables
  <2>. QED
      BY <1>2, <1>4, <1>9, <1>11, <2>1 DEF SpendOK
<1>13. LocksApart'
    BY <1>1, <1>2 DEF LocksApart
<1>. QED
    BY <1>1, <1>8, <1>12, <1>13, OthersKept

-----------------------------------------------------------------------------
(* The commit of a spend is the spend of AebLedger: the split and the draw *)
(* that it read are those it would read now.                               *)
LEMMA SpendCommitIsSpend ==
    ASSUME LocksInv, NEW q \in Spenders, SpendCommit(q)
    PROVE  /\ request[q].account \in accountLocks[q] /\ request[q].account \in Accounts
           /\ request[q].amount \in Amounts
           /\ Spend(request[q].account, request[q].amount)
<1>. DEFINE a == request[q].account
            amount == request[q].amount
            s == plan[q]
            draw == s.locked
<1>1. pc[q] = "rows" /\ SpendOK(q) /\ TypeOK
    BY DEF SpendCommit, LocksInv, IInv
<1>2. a \in accountLocks[q] /\ Split(a, amount, s) /\ Drawn(a, draw, rowLocks[q], image[q])
    BY <1>1 DEF SpendOK
<1>3. a \in Accounts /\ amount \in Amounts /\ Covers(a, amount) /\ s = SpendOf(a, amount)
    BY <1>2 DEF Split
<1>4. /\ image[q] = [i \in TouchedRows(a, draw) |-> DrawnRow(a, draw, i)]
      /\ Remaining(SpendableRows(a)) >= draw
    BY <1>2 DEF Drawn
<1>5. /\ records' = [i \in DOMAIN records |->
            IF i \in DOMAIN image[q]
            THEN [records[i] EXCEPT !.remaining = image[q][i].remaining,
                                    !.status = image[q][i].status]
            ELSE records[i]]
      /\ Adjust(a, 0 - amount, 0 - s.withdrawable, 0 - s.locked, 0 - s.external)
      /\ spent' = [spent EXCEPT ![a] = @ + amount]
      /\ UNCHANGED <<withdrawals, mints, now, issued, requested>>
    BY DEF SpendCommit
<1>6. ASSUME NEW i \in TouchedRows(a, draw)
      PROVE  [records[i] EXCEPT !.remaining = image[q][i].remaining,
                                !.status = image[q][i].status] = DrawnRow(a, draw, i)
  <2>1. i \in DOMAIN records /\ records[i] \in LockedRow
      BY <1>1, RowFacts DEF TouchedRows, SpendableRows
  <2>2. image[q][i] = DrawnRow(a, draw, i)
      BY <1>4
  <2>. DEFINE left == records[i].remaining - Taken(a, draw, i)
  <2>3. DrawnRow(a, draw, i) = [records[i] EXCEPT !.remaining = left,
                                    !.status = IF left = 0 THEN "CONSUMED" ELSE @]
      BY DEF DrawnRow
  <2>. HIDE DEF left
  <2>4. /\ DrawnRow(a, draw, i).remaining = left
        /\ DrawnRow(a, draw, i).status = IF left = 0 THEN "CONSUMED" ELSE records[i].status
      BY <2>1, <2>3 DEF LockedRow
  <2>. QED
      BY <2>1, <2>2, <2>3, <2>4 DEF LockedRow
<1>7. DOMAIN image[q] = TouchedRows(a, draw)
    BY <1>4
<1>8. records' = [i \in DOMAIN records |->
            IF i \in TouchedRows(a, draw) THEN DrawnRow(a, draw, i) ELSE records[i]]
    BY <1>5, <1>6, <1>7
<1>9. ConsumeLockedFIFO(a, draw)
    BY <1>4, <1>8 DEF ConsumeLockedFIFO, DrawnRow
<1>10. SpendTokens(a, amount)
    BY <1>3, <1>5, <1>9 DEF SpendTokens
<1>. QED
    BY <1>2, <1>3, <1>5, <1>10 DEF Spend

(* It moves the balances and rows of its account only, rows it has locked. *)
LEMMA SpendCommitLeaves ==
    ASSUME LocksInv, NEW q \in Spenders, SpendCommit(q)
    PROVE  LeavesOthers({q})
<1>. DEFINE a == request[q].account
            draw == plan[q].locked
<1>1. /\ LockTables /\ LocksApart /\ q \in Procs /\ SpendOK(q) /\ TypeOK
    BY DEF LocksInv, Procs, IInv
<1>2. a \in accountLocks[q] /\ a \in Accounts /\ request[q].amount \in Amounts
    BY SpendCommitIsSpend
<1>3. /\ pc[q] = "rows" /\ now' = now /\ Release(q)
      /\ Adjust(a, 0 - request[q].amount, 0 - plan[q].withdrawable, 0 - plan[q].locked, 0 - plan[q].external)
      /\ records' = [i \in DOMAIN records |->
            IF i \in DOMAIN image[q]
            THEN [records[i] EXCEPT !.remaining = image[q][i].remaining,
                                    !.status = image[q][i].status]
            ELSE records[i]]
    BY DEF SpendCommit
<1>4. DOMAIN image[q] = TouchedRows(a, draw) /\ TouchedRows(a, draw) \subseteq rowLocks[q]
    BY <1>1, <1>3 DEF SpendOK, Drawn
<1>5. DOMAIN records' = DOMAIN records
    BY <1>3
<1>6. \A i \in DOMAIN records \ TouchedRows(a, draw) : records'[i] = records[i]
    BY <1>3, <1>4
<1>7. \A i \in TouchedRows(a, draw) : i \in DOMAIN records /\ records[i].account = a /\ records'[i].account = a
  <2>. SUFFICES ASSUME NEW i \in TouchedRows(a, draw)
                PROVE  i \in DOMAIN records /\ records[i].account = a /\ records'[i].account = a
      OBVIOUS
  <2>1. i \in DOMAIN records /\ records[i].account = a
      BY DEF TouchedRows, SpendableRows
  <2>2. records[i] \in LockedRow
      BY <1>1, <2>1, RowFacts
  <2>3. records'[i] = [records[i] EXCEPT !.remaining = image[q][i].remaining,
                                         !.status = image[q][i].status]
      BY <1>3, <1>4, <2>1
  <2>. QED
      BY <2>1, <2>2, <2>3 DEF LockedRow
<1>8. \A b \in Accounts : b # a => tokens'[b] = tokens[b]
  <2>1. \E row : tokens' = [tokens EXCEPT ![a] = row]
      BY <1>3 DEF Adjust
  <2>. QED
      BY <1>1, <2>1 DEF TypeOK
<1>9. ASSUME NEW b \in Accounts, b # a PROVE Untouched(b)
    BY <1>5, <1>6, <1>7, <1>8, <1>9 DEF Untouched
<1>10. ASSUME NEW p \in Procs \ {q}
       PROVE  /\ \A b \in accountLocks[p] \cap Accounts : Untouched(b)
              /\ \A i \in rowLocks[p] : i \in DOMAIN records => i \in DOMAIN records' /\ records'[i] = records[i]
  <2>1. a \notin accountLocks[p] /\ rowLocks[p] \cap rowLocks[q] = {}
      BY <1>1, <1>2 DEF LocksApart
  <2>. QED
      BY <1>4, <1>5, <1>6, <1>9, <2>1
<1>11. /\ LockTables' /\ \A p \in Procs \ {q} : Aside(p)
    BY <1>1, <1>3, ReleaseEffect
<1>12. now' \in Int /\ now' >= now
  <2>1. now \in Nat
      BY <1>1 DEF TypeOK
  <2>2. now' = now
      BY DEF SpendCommit
  <2>. QED
      BY <2>1, <2>2
<1>. QED
    BY <1>10, <1>11, <1>12 DEF LeavesOthers

-----------------------------------------------------------------------------
(* The statements of a settle run before its commit. *)
LEMMA LockBatchKeeps ==
    ASSUME LocksInv, NEW q \in Settlers, SettleLockBatch(q)
    PROVE  LocksInv'
<1>. DEFINE free == {i \in MatureRows : RowFree(q, i)}
<1>1. /\ LockTables /\ LocksApart /\ q \in Procs /\ q \notin Spenders /\ TypeOK
    BY ProcsAssumption DEF LocksInv, Procs, IInv
<1>2. /\ pc[q] = "idle"
      /\ pc' = [pc EXCEPT ![q] = "batch"]
      /\ UNCHANGED <<vars, request, plan, accountLocks, settled>>
    BY DEF SettleLockBatch
<1>3. PICK batch \in SUBSET free :
          /\ Cardinality(batch) = Lesser(SettleLimit, Cardinality(free))
          /\ rowLocks' = [rowLocks EXCEPT ![q] = batch]
          /\ image' = [image EXCEPT ![q] =
                  [i \in batch |-> [records[i] EXCEPT !.status = "UNLOCKED"]]]
    BY DEF SettleLockBatch
<1>4. Cardinality(batch) <= SettleLimit
  <2>1. free \in SUBSET DOMAIN records
      BY DEF MatureRows
  <2>2. Cardinality(free) \in Nat
      BY <1>1, <2>1, RowFacts, FS_Subset, FS_CardinalityType
  <2>3. SettleLimit \in Nat
      BY LedgerAssumption
  <2>. QED
      BY <1>3, <2>2, <2>3 DEF Lesser
<1>5. batch \subseteq MatureRows /\ \A i \in batch : RowFree(q, i)
    OBVIOUS
<1>. HIDE DEF free
<1>6. /\ LockTables'
      /\ \A p \in Procs \ {q} : Aside(p)
      /\ pc'[q] = "batch" /\ rowLocks'[q] = batch
      /\ image'[q] = [i \in batch |-> [records[i] EXCEPT !.status = "UNLOCKED"]]
    BY <1>1, <1>2, <1>3 DEF LockTables, Aside
<1>7. SettleOK(q)'
  <2>1. settled[q] = {} /\ settled'[q] = {}
      BY <1>2 DEF LocksInv, SettleOK
  <2>2. batch \subseteq MatureRows'
      BY <1>2, <1>5 DEF MatureRows, vars
  <2>3. image'[q] = [i \in batch |-> [records'[i] EXCEPT !.status = "UNLOCKED"]]
      BY <1>2, <1>6 DEF vars
  <2>4. BatchAsRead(rowLocks[q], image[q], settled[q], accountLocks[q])'
      BY <1>4, <1>6, <2>1, <2>2, <2>3 DEF BatchAsRead
  <2>. QED
      BY <1>6, <2>4 DEF SettleOK
<1>8. LocksApart'
    BY <1>1, <1>2, <1>5, <1>6 DEF LocksApart, RowFree, Aside
<1>9. LeavesOthers({q}) /\ IInv'
    BY <1>2, <1>6, QuietAside
<1>. QED
    BY <1>1, <1>7, <1>8, <1>9, OthersKept

LEMMA SettleRowKeeps ==
    ASSUME LocksInv, NEW q \in Settlers, SettleRow(q)
    PROVE  LocksInv'
<1>. DEFINE i == First(rowLocks[q] \ settled[q])
<1>1. /\ LockTables /\ LocksApart /\ q \in Procs /\ q \notin Spenders /\ SettleOK(q)
    BY ProcsAssumption DEF LocksInv, Procs
<1>2. /\ pc[q] = "batch" /\ AccountFree(q, records[i].account)
      /\ accountLocks' = [accountLocks EXCEPT ![q] = @ \cup {records[i].account}]
      /\ settled' = [settled EXCEPT ![q] = @ \cup {i}]
      /\ UNCHANGED <<vars, pc, request, plan, image, rowLocks>>
    BY DEF SettleRow
<1>. HIDE DEF i
<1>3. /\ LockTables'
      /\ \A p \in Procs \ {q} : Aside(p)
      /\ accountLocks'[q] = accountLocks[q] \cup {records[i].account}
      /\ settled'[q] = settled[q] \cup {i}
    BY <1>1, <1>2 DEF LockTables, Aside
<1>4. BatchAsRead(rowLocks[q], image[q], settled[q], accountLocks[q])
    BY <1>1, <1>2 DEF SettleOK
<1>5. SettleOK(q)'
  <2>1. records' = records /\ now' = now /\ rowLocks' = rowLocks /\ image' = image /\ pc' = pc
      BY <1>2 DEF vars
  <2>2. MatureRows' = MatureRows
      BY <2>1 DEF MatureRows
  <2>3. BatchAsRead(rowLocks[q], image[q], settled[q], accountLocks[q])'
      BY <1>3, <1>4, <2>1, <2>2 DEF BatchAsRead
  <2>. QED
      BY <1>2, <2>1, <2>3 DEF SettleOK
<1>6. LocksApart'
    BY <1>1, <1>2, <1>3 DEF LocksApart, AccountFree, Aside
<1>7. LeavesOthers({q}) /\ IInv'
    BY <1>2, <1>3, QuietAside
<1>. QED
    BY <1>1, <1>5, <1>6, <1>7, OthersKept

-----------------------------------------------------------------------------
(* The commit of a settle run is the batch of AebLedger; one with no rows  *)
(* changes nothing.                                                        *)
LEMMA SettleCommitFacts ==
    ASSUME LocksInv, NEW q \in Settlers, SettleCommit(q)
    PROVE  LET batch == DOMAIN image[q]
               freed(a) == Remaining({i \in batch : records[i].account = a})
           IN  /\ batch = rowLocks[q] /\ batch \in SUBSET MatureRows
               /\ Cardinality(batch) <= SettleLimit
               /\ \A i \in batch : records[i].account \in accountLocks[q]
               /\ \A a \in Accounts : tokens[a].locked >= freed(a)
               /\ records' = [i \in DOMAIN records |->
                      IF i \in batch THEN [records[i] EXCEPT !.status = "UNLOCKED"] ELSE records[i]]
               /\ tokens' = [a \in Accounts |->
                      [tokens[a] EXCEPT !.locked = @ - freed(a), !.withdrawable = @ + freed(a)]]
               /\ UNCHANGED <<withdrawals, mints, now, history>>
<1>. DEFINE batch == DOMAIN image[q]
            mine(a) == {i \in batch : records[i].account = a}
            seen(a) == {i \in batch : image[q][i].account = a}
            rem == [i \in DOMAIN records |-> records[i].remaining]
            read == [i \in batch |-> image[q][i].remaining]
<1>1. /\ pc[q] = "batch" /\ settled[q] = rowLocks[q]
      /\ \A a \in Accounts : tokens[a].locked >= SumFunctionOnSet(read, seen(a))
      /\ records' = [i \in DOMAIN records |->
            IF i \in batch THEN [records[i] EXCEPT !.status = "UNLOCKED"] ELSE records[i]]
      /\ tokens' = [a \in Accounts |->
            [tokens[a] EXCEPT !.locked = @ - SumFunctionOnSet(read, seen(a)),
                              !.withdrawable = @ + SumFunctionOnSet(read, seen(a))]]
      /\ UNCHANGED <<withdrawals, mints, now, history>>
    BY DEF SettleCommit
<1>2. BatchAsRead(rowLocks[q], image[q], settled[q], accountLocks[q])
    BY <1>1 DEF LocksInv, SettleOK
<1>3. /\ batch = rowLocks[q] /\ batch \subseteq MatureRows /\ Cardinality(batch) <= SettleLimit
      /\ \A i \in batch : records[i].account \in accountLocks[q]
      /\ \A i \in batch : image[q][i] = [records[i] EXCEPT !.status = "UNLOCKED"]
    BY <1>1, <1>2 DEF BatchAsRead
<1>4. TypeOK /\ batch \subseteq DOMAIN records
    BY <1>3 DEF LocksInv, IInv, MatureRows
<1>5. \A i \in batch : /\ image[q][i].account = records[i].account
                       /\ image[q][i].remaining = records[i].remaining
  <2>1. \A i \in batch : records[i] \in LockedRow
      BY <1>4, RowFacts
  <2>. QED
      BY <1>3, <2>1 DEF LockedRow
<1>6. ASSUME NEW a
      PROVE  SumFunctionOnSet(read, seen(a)) = Remaining(mine(a))
  <2>1. seen(a) = mine(a)
      BY <1>5
  <2>2. mine(a) \subseteq DOMAIN records /\ mine(a) \subseteq batch
      BY <1>4
  <2>3. \A i \in mine(a) : read[i] = rem[i] /\ rem[i] \in Int
      BY <1>4, <1>5, <2>2, RowFacts
  <2>4. IsFiniteSet(mine(a))
      BY <1>4, <2>2, RowFacts, FS_Subset
  <2>5. IntOn(rem, mine(a))
      BY <2>3, <2>4 DEF IntOn
  <2>. HIDE DEF rem, read, mine, seen
  <2>6. SumFunctionOnSet(read, mine(a)) = SumFunctionOnSet(rem, mine(a))
      BY <2>3, <2>5, SumSame
  <2>. QED
      BY <2>1, <2>6 DEF Remaining, rem
<1>. HIDE DEF read, seen
<1>7. /\ \A a \in Accounts : tokens[a].locked >= Remaining(mine(a))
      /\ tokens' = [a \in Accounts |->
            [tokens[a] EXCEPT !.locked = @ - Remaining(mine(a)), !.withdrawable = @ + Remaining(mine(a))]]
    BY <1>1, <1>6
<1>. QED
    BY <1>1, <1>3, <1>7

(* A balance that no row is freed for. *)
LEMMA NothingFreed ==
    ASSUME NEW b \in Balances
    PROVE  [b EXCEPT !.locked = @ - 0, !.withdrawable = @ + 0] = b
<1>1. PICK t \in Nat, w \in Nat, l \in Nat, e \in Nat :
          b = [token |-> t, withdrawable |-> w, locked |-> l, external |-> e]
    BY DEF Balances
<1>2. l - 0 = l /\ w + 0 = w
    OBVIOUS
<1>3. b.locked - 0 = b.locked /\ b.withdrawable + 0 = b.withdrawable
    BY <1>1, <1>2
<1>4. [b EXCEPT !.locked = b.locked, !.withdrawable = b.withdrawable] = b
    BY <1>1
<1>. QED
    BY <1>3, <1>4

LEMMA SettleCommitIsSettle ==
    ASSUME LocksInv, NEW q \in Settlers, SettleCommit(q)
    PROVE  [Next]_vars
<1>. DEFINE batch == DOMAIN image[q]
            mine(a) == {i \in batch : records[i].account = a}
<1>1. /\ batch \in SUBSET MatureRows /\ Cardinality(batch) <= SettleLimit
      /\ \A a \in Accounts : tokens[a].locked >= Remaining(mine(a))
      /\ records' = [i \in DOMAIN records |->
            IF i \in batch THEN [records[i] EXCEPT !.status = "UNLOCKED"] ELSE records[i]]
      /\ tokens' = [a \in Accounts |->
            [tokens[a] EXCEPT !.locked = @ - Remaining(mine(a)), !.withdrawable = @ + Remaining(mine(a))]]
      /\ UNCHANGED <<withdrawals, mints, now, history>>
    BY SettleCommitFacts
<1>2. CASE batch # {}
  <2>1. SettleUnlocks(batch)
      BY <1>1, <1>2 DEF SettleUnlocks
  <2>. QED
      BY <1>1, <2>1 DEF Next
<1>3. CASE batch = {}
  <2>1. TypeOK
      BY DEF LocksInv, IInv
  <2>2. records' = records
    <3>1. records = [i \in DOMAIN records |-> records[i]]
        BY <2>1 DEF TypeOK
    <3>2. records' = [i \in DOMAIN records |-> records[i]]
        BY <1>1, <1>3
    <3>. QED
        BY <3>1, <3>2
  <2>3. ASSUME NEW a \in Accounts
        PROVE  [tokens[a] EXCEPT !.locked = @ - Remaining(mine(a)),
                                 !.withdrawable = @ + Remaining(mine(a))] = tokens[a]
    <3>1. mine(a) = {}
        BY <1>3
    <3>2. Remaining(mine(a)) = 0
        BY <3>1, SumEmpty DEF Remaining
    <3>3. tokens[a] \in Balances
        BY <2>1 DEF TypeOK
    <3>. HIDE DEF mine
    <3>. QED
        BY <3>2, <3>3, NothingFreed
  <2>4. tokens' = tokens
    <3>1. tokens = [a \in Accounts |-> tokens[a]]
        BY <2>1 DEF TypeOK
    <3>2. tokens' = [a \in Accounts |-> tokens[a]]
        BY <1>1, <2>3
    <3>. QED
        BY <3>1, <3>2
  <2>. QED
      BY <1>1, <2>2, <2>4 DEF vars, history
<1>. QED
    BY <1>2, <1>3

(* It moves the accounts of the rows it has locked, and holds them all. *)
LEMMA SettleCommitLeaves ==
    ASSUME LocksInv, NEW q \in Settlers, SettleCommit(q)
    PROVE  LeavesOthers({q})
<1>. DEFINE batch == DOMAIN image[q]
            mine(a) == {i \in batch : records[i].account = a}
<1>1. /\ LocksApart /\ q \in Procs /\ TypeOK
    BY DEF LocksInv, Procs, IInv
<1>2. /\ batch = rowLocks[q] /\ batch \in SUBSET MatureRows
      /\ \A i \in batch : records[i].account \in accountLocks[q]
      /\ records' = [i \in DOMAIN records |->
            IF i \in batch THEN [records[i] EXCEPT !.status = "UNLOCKED"] ELSE records[i]]
      /\ tokens' = [a \in Accounts |->
            [tokens[a] EXCEPT !.locked = @ - Remaining(mine(a)), !.withdrawable = @ + Remaining(mine(a))]]
    BY SettleCommitFacts
<1>3. /\ DOMAIN records' = DOMAIN records
      /\ \A i \in DOMAIN records \ batch : records'[i] = records[i]
    BY <1>2
<1>4. \A i \in batch : i \in DOMAIN records /\ records'[i].account = records[i].account
  <2>1. \A i \in batch : i \in DOMAIN records /\ records[i] \in LockedRow
      BY <1>1, <1>2, RowFacts DEF MatureRows
  <2>. QED
      BY <1>2, <2>1 DEF LockedRow
<1>5. ASSUME NEW a \in Accounts, a \notin accountLocks[q]
      PROVE  Untouched(a)
  <2>1. mine(a) = {}
      BY <1>2, <1>5
  <2>2. Remaining(mine(a)) = 0
      BY <2>1, SumEmpty DEF Remaining
  <2>3. tokens[a] \in Balances
      BY <1>1 DEF TypeOK
  <2>. HIDE DEF mine
  <2>4. tokens'[a] = [tokens[a] EXCEPT !.locked = @ - 0, !.withdrawable = @ + 0]
      BY <1>2, <2>2
  <2>5. tokens'[a] = tokens[a]
      BY <2>3, <2>4, NothingFreed
  <2>. USE DEF mine
  <2>6. \A i \in batch : records[i].account # a
      BY <2>1
  <2>. QED
      BY <1>3, <1>4, <2>5, <2>6 DEF Untouched
<1>6. ASSUME NEW p \in Procs \ {q}
      PROVE  /\ \A a \in accountLocks[p] \cap Accounts : Untouched(a)
             /\ \A i \in rowLocks[p] : i \in DOMAIN records => i \in DOMAIN records' /\ records'[i] = records[i]
  <2>1. accountLocks[p] \cap accountLocks[q] = {} /\ rowLocks[p] \cap rowLocks[q] = {}
      BY <1>1 DEF LocksApart
  <2>2. \A a \in accountLocks[p] \cap Accounts : Untouched(a)
      BY <1>5, <2>1
  <2>3. \A i \in rowLocks[p] : i \notin batch
      BY <1>2, <2>1
  <2>. QED
      BY <1>3, <2>2, <2>3
<1>7. /\ LockTables' /\ \A p \in Procs \ {q} : Aside(p)
  <2>1. Release(q)
      BY DEF SettleCommit
  <2>. QED
      BY <1>1, <2>1, ReleaseEffect
<1>8. now' \in Int /\ now' >= now
  <2>1. now' = now /\ now \in Nat
      BY <1>1 DEF SettleCommit, TypeOK
  <2>. QED
      BY <2>1
<1>. QED
    BY <1>6, <1>7, <1>8 DEF LeavesOthers

-----------------------------------------------------------------------------
(* A transaction on one account row, while nobody else holds that row. *)
LEMMA SingleRowLeaves ==
    ASSUME LocksInv, NEW a \in Accounts, NEW amount \in Amounts, SingleRow(a, amount)
    PROVE  LeavesOthers({}) /\ [Next]_vars /\ LocksApart'
<1>1. /\ LockTables /\ LocksApart /\ TypeOK
    BY DEF LocksInv, IInv
<1>2. /\ \A p \in Procs : a \notin accountLocks[p]
      /\ \/ \E hours \in Cooldowns : GrantLocked(a, amount, hours)
         \/ CreditDeposit(a, amount)
         \/ CreateWithdrawal(a, amount)
      /\ pc' = pc /\ request' = request /\ plan' = plan /\ image' = image
      /\ accountLocks' = accountLocks /\ rowLocks' = rowLocks /\ settled' = settled
    BY DEF SingleRow, lockVars
<1>3. [Next]_vars
    BY <1>2 DEF Next
<1>4. now' = now /\ now \in Nat
    BY <1>1, <1>2 DEF GrantLocked, CreditDeposit, CreateWithdrawal, TypeOK
<1>5. \A b \in Accounts : b # a => tokens'[b] = tokens[b]
  <2>1. \E t, w, l, e : Adjust(a, t, w, l, e)
      BY <1>2 DEF GrantLocked, CreditDeposit, CreateWithdrawal
  <2>2. \E row : tokens' = [tokens EXCEPT ![a] = row]
      BY <2>1 DEF Adjust
  <2>. QED
      BY <1>1, <2>2 DEF TypeOK
<1>6. records' = records \/ \E row : records' = Append(records, row) /\ row.account = a
  <2>1. \A hours : LockedRecord(a, amount, now + hours).account = a
      BY DEF LockedRecord
  <2>2. CASE \E hours \in Cooldowns : GrantLocked(a, amount, hours)
      BY <2>1, <2>2 DEF GrantLocked
  <2>3. CASE CreditDeposit(a, amount) \/ CreateWithdrawal(a, amount)
      BY <2>3 DEF CreditDeposit, CreateWithdrawal
  <2>. QED
      BY <1>2, <2>2, <2>3
<1>7. /\ \A i \in DOMAIN records : i \in DOMAIN records' /\ records'[i] = records[i]
      /\ \A i \in DOMAIN records' : i \in DOMAIN records \/ records'[i].account = a
  <2>1. CASE records' = records
      BY <2>1
  <2>2. CASE \E row : records' = Append(records, row) /\ row.account = a
    <3>1. PICK row : records' = Append(records, row) /\ row.account = a
        BY <2>2
    <3>2. records \in Seq(LockedRow) /\ Len(records) \in Nat /\ DOMAIN records = 1..Len(records)
        BY <1>1, RowFacts DEF TypeOK
    <3>. QED
        BY <3>1, <3>2
  <2>. QED
      BY <1>6, <2>1, <2>2
<1>8. \A b \in Accounts : b # a => Untouched(b)
    BY <1>5, <1>7 DEF Untouched
<1>9. LockTables' /\ LocksApart'
    BY <1>1, <1>2 DEF LockTables, LocksApart
<1>10. \A p \in Procs : Aside(p)
    BY <1>2 DEF Aside
<1>11. \A p \in Procs : \A b \in accountLocks[p] \cap Accounts : Untouched(b)
    BY <1>2, <1>8
<1>12. now' \in Int /\ now' >= now
    BY <1>4
<1>13. LeavesOthers({})
    BY <1>7, <1>9, <1>10, <1>11, <1>12 DEF LeavesOthers
<1>. QED
    BY <1>3, <1>9, <1>13

LEMMA LTickLeaves ==
    ASSUME LocksInv, LTick
    PROVE  LeavesOthers({}) /\ [Next]_vars /\ LocksApart'
<1>1. /\ LockTables /\ LocksApart /\ now \in Nat
    BY DEF LocksInv, IInv, TypeOK
<1>2. /\ now' = now + 1 /\ tokens' = tokens /\ records' = records
      /\ pc' = pc /\ request' = request /\ plan' = plan /\ image' = image
      /\ accountLocks' = accountLocks /\ rowLocks' = rowLocks /\ settled' = settled
    BY DEF LTick, Tick, lockVars
<1>3. [Next]_vars
    BY DEF LTick, Next
<1>4. LockTables' /\ LocksApart'
    BY <1>1, <1>2 DEF LockTables, LocksApart
<1>5. \A b : Untouched(b)
    BY <1>2 DEF Untouched
<1>6. \A p \in Procs : Aside(p)
    BY <1>2 DEF Aside
<1>7. now' \in Int /\ now' >= now
    BY <1>1, <1>2
<1>8. LeavesOthers({})
    BY <1>2, <1>4, <1>5, <1>6, <1>7 DEF LeavesOthers
<1>. QED
    BY <1>3, <1>4, <1>8

LEMMA LInitLocks == LInit => LocksInv
<1>. SUFFICES ASSUME LInit PROVE LocksInv
    OBVIOUS
<1>1. IInv
    BY InitIInv DEF LInit
<1>2. LockTables /\ LocksApart
    BY DEF LInit, LockTables, LocksApart
<1>3. \A p \in Procs : pc[p] = "idle" /\ settled[p] = {}
    BY DEF LInit
<1>4. Spenders \subseteq Procs /\ Settlers \subseteq Procs
    BY DEF Procs
<1>. QED
    BY <1>1, <1>2, <1>3, <1>4 DEF LocksInv, SpendOK, SettleOK

(* Every statement and every commit is a step of AebLedger or none, and    *)
(* keeps what the transactions know.                                       *)
LEMMA LockStep ==
    ASSUME LocksInv, [LNext]_allVars
    PROVE  LocksInv' /\ [Next]_vars
<1>1. ASSUME NEW q \in Spenders, SpendSteps(q) PROVE LocksInv' /\ [Next]_vars
  <2>1. ASSUME NEW a \in Accounts, NEW amount \in Amounts, SpendLockAccount(q, a, amount)
        PROVE  LocksInv' /\ [Next]_vars
      BY <2>1, LockAccountKeeps DEF SpendLockAccount
  <2>2. CASE SpendLockRow(q)
      BY <2>2, LockRowKeeps DEF SpendLockRow
  <2>3. CASE SpendConsume(q)
      BY <2>3, ConsumeKeeps DEF SpendConsume
  <2>4. CASE SpendCommit(q)
    <3>1. [Next]_vars
        BY <2>4, SpendCommitIsSpend DEF Next
    <3>2. IInv'
        BY <3>1, NextIInv DEF LocksInv
    <3>3. LeavesOthers({q})
        BY <2>4, SpendCommitLeaves
    <3>4. Release(q) /\ q \in Procs /\ q \notin Settlers
        BY <2>4, ProcsAssumption DEF SpendCommit, Procs
    <3>5. LocksApart' /\ SpendOK(q)'
        BY <3>4, ReleaseEffect
    <3>. QED
        BY <3>1, <3>2, <3>3, <3>4, <3>5, OthersKept
  <2>5. CASE SpendRollback(q)
    <3>1. Release(q) /\ UNCHANGED vars /\ q \in Procs
        BY <2>5 DEF SpendRollback, Procs
    <3>. QED
        BY <3>1, RollbackKeeps
  <2>. QED
      BY <1>1, <2>1, <2>2, <2>3, <2>4, <2>5 DEF SpendSteps
<1>2. ASSUME NEW q \in Settlers, SettleSteps(q) PROVE LocksInv' /\ [Next]_vars
  <2>1. CASE SettleLockBatch(q)
      BY <2>1, LockBatchKeeps DEF SettleLockBatch
  <2>2. CASE SettleRow(q)
      BY <2>2, SettleRowKeeps DEF SettleRow
  <2>3. CASE SettleCommit(q)
    <3>1. [Next]_vars
        BY <2>3, SettleCommitIsSettle
    <3>2. IInv'
        BY <3>1, NextIInv DEF LocksInv
    <3>3. LeavesOthers({q})
        BY <2>3, SettleCommitLeaves
    <3>4. Release(q) /\ q \in Procs /\ q \notin Spenders
        BY <2>3, ProcsAssumption DEF SettleCommit, Procs
    <3>5. LocksApart' /\ SettleOK(q)'
        BY <3>4, ReleaseEffect
    <3>. QED
        BY <3>1, <3>2, <3>3, <3>4, <3>5, OthersKept
  <2>4. CASE SettleCrash(q)
    <3>1. Release(q) /\ UNCHANGED vars /\ q \in Procs
        BY <2>4 DEF SettleCrash, Procs
    <3>. QED
        BY <3>1, RollbackKeeps
  <2>. QED
      BY <1>2, <2>1, <2>2, <2>3, <2>4 DEF SettleSteps
<1>3. ASSUME NEW q \in Procs, DeadlockVictim(q) PROVE LocksInv' /\ [Next]_vars
  <2>1. Release(q) /\ UNCHANGED vars
      BY <1>3 DEF DeadlockVictim
  <2>. QED
      BY <2>1, RollbackKeeps
<1>4. ASSUME LeavesOthers({}), [Next]_vars, LocksApart' PROVE LocksInv'
  <2>1. IInv'
      BY <1>4, NextIInv DEF LocksInv
  <2>. QED
      BY <1>4, <2>1, OthersKept
<1>5. ASSUME NEW a \in Accounts, NEW amount \in Amounts, SingleRow(a, amount)
      PROVE  LocksInv' /\ [Next]_vars
    BY <1>4, <1>5, SingleRowLeaves
<1>6. CASE LTick
    BY <1>4, <1>6, LTickLeaves
<1>7. CASE UNCHANGED allVars
  <2>1. UNCHANGED vars /\ LockTables' /\ LocksApart' /\ \A p \in Procs : Aside(p)
      BY <1>7 DEF allVars, lockVars, LocksInv, LockTables, LocksApart, Aside
  <2>2. LeavesOthers({})
      BY <2>1, QuietAside
  <2>. QED
      BY <1>4, <2>1, <2>2
<1>. QED
    BY <1>1, <1>2, <1>3, <1>5, <1>6, <1>7 DEF LNext

(* Spends and settle runs that take their locks one statement at a time,   *)
(* in opposite orders, are serializable: whatever waits, is aborted or     *)
(* dies, what is committed is what the atomic transactions would commit.   *)
THEOREM LocksImplementLedger == LSpec => ImplementsLedger
<1>1. LInit => Init
    BY DEF LInit
<1>2. LocksInv /\ [LNext]_allVars => LocksInv' /\ [Next]_vars
    BY LockStep
<1>. QED
    BY <1>1, <1>2, LInitLocks, PTL DEF LSpec, ImplementsLedger, Spec
=============================================================================
