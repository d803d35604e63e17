---------------------------- MODULE PayoutsProofs ---------------------------
(***************************************************************************)
(* Proofs about the payout jobs, for every set of accounts, every limit    *)
(* and batch size, every number of overlapping runs and every bound.       *)
(***************************************************************************)
EXTENDS Payouts, Sums, FunctionTheorems

Withdrawal ==
    [account : Accounts, amount : Amounts, processedAt : Nat \cup {Never},
     status : {"QUEUED", "MANUAL_REVIEW", "REJECTED", "PAYOUT_CREATED",
               "SUBMITTED", "CONFIRMED", "FAILED"}]

(* The runs in flight; nothing is asked of the budget and of the rows a    *)
(* run is about to write.                                                  *)
ProcessRun == [pc : {"idle", "started", "budgeted", "locked"}, at : Nat,
               budget : {process[p].budget : p \in Processors},
               batch : {process[p].batch : p \in Processors}]
SubmitRun == [pc : {"idle", "sending"}, at : Nat, todo : SUBSET Nat,
              image : {submit[s].image : s \in Submitters}, pausing : BOOLEAN]

(* What TypeOK leaves open. *)
ShapeInv ==
    /\ deployment \in Deployments
    /\ process \in [Processors -> ProcessRun]
    /\ submit \in [Submitters -> SubmitRun]
    /\ block \in Nat /\ now \in Nat /\ aborts \in Nat /\ lost \in Nat

(* The rows a process run has locked stay queued, and no two runs lock one. *)
HeldInv ==
    /\ \A p \in Processors : \A w \in Held(p) : w \in Ids /\ withdrawals[w].status = "QUEUED"
    /\ \A p, q \in Processors : p # q => Held(p) \cap Held(q) = {}
    
(* The run that holds the hot wallet's row is the one that sends, and the  *)
(* wallet is not paused meanwhile.                                         *)
LockInv ==
    /\ \A s \in Submitters : submit[s].pc = "sending" <=> walletLock = s
    /\ \A s \in Submitters : submit[s].pc = "idle" =>
                                submit[s].todo = {} /\ DOMAIN submit[s].image = {}
    /\ walletLock # NoOne => ~paused

(* A run writes each payout of its batch once, while the row is CREATED. *)
BatchInv ==
    \A s \in Submitters :
        /\ \A w \in submit[s].todo : w \in DOMAIN payouts /\ payouts[w].status = "CREATED"
        /\ \A w \in DOMAIN submit[s].image : /\ w \in DOMAIN payouts /\ payouts[w].status = "CREATED"
                                             /\ w \notin submit[s].todo
                                             /\ submit[s].image[w].status \in {"SUBMITTED", "FAILED"}

(* A row without a send has no signature, and no two rows have one. *)
SignatureInv ==
    /\ PayoutMode = "stub" => \A w \in DOMAIN payouts : payouts[w].signature = StubSignature(w)
    /\ \A w \in DOMAIN payouts : payouts[w].status = "CREATED" => payouts[w].signature = << >>
    /\ \A w \in DOMAIN payouts : payouts[w].status \in {"SUBMITTED", "CONFIRMED"} => payouts[w].signature # << >>
    /\ \A s \in Submitters : \A w \in DOMAIN submit[s].image :
          submit[s].image[w].status = "SUBMITTED" <=> submit[s].image[w].signature # << >>
    /\ \A v, w \in DOMAIN payouts :
          payouts[v].signature = payouts[w].signature => v = w \/ payouts[v].signature = << >>
    /\ \A s \in Submitters : \A v, w \in DOMAIN submit[s].image :
          submit[s].image[v].signature = submit[s].image[w].signature => v = w \/ submit[s].image[v].signature = << >>
    /\ \A s \in Submitters : \A v \in DOMAIN payouts, w \in DOMAIN submit[s].image :
          payouts[v].signature = submit[s].image[w].signature => payouts[v].signature = << >>

(* A signature a row names is one that was sent for the row's withdrawal. *)
SentInv ==
    /\ \A sig \in DOMAIN sentFor : sentFor[sig] \subseteq DOMAIN payouts
    /\ PayoutMode = "rpc" =>
        /\ \A w \in DOMAIN payouts : payouts[w].signature # << >> =>
                payouts[w].signature \in DOMAIN chain /\ w \in sentFor[payouts[w].signature]
        /\ \A s \in Submitters : \A w \in DOMAIN submit[s].image : submit[s].image[w].signature # << >> =>
                submit[s].image[w].signature \in DOMAIN chain /\ w \in sentFor[submit[s].image[w].signature]
        /\ \A w \in DOMAIN payouts : payouts[w].status = "CONFIRMED" => chain[payouts[w].signature] = "landed"

IInv == StatusesAgree /\ ShapeInv /\ HeldInv /\ LockInv /\ BatchInv /\ SignatureInv /\ SentInv

-----------------------------------------------------------------------------
(* The rows of S that come before w, and the first n rows of S. *)
Older(S, w) == {v \in S : v < w}
First(S, n) == {w \in S : Cardinality(Older(S, w)) < n}

(* In a finite set of numbers an earlier row has a smaller rank. *)
LEMMA RankGrows ==
    ASSUME NEW S \in SUBSET Nat, IsFiniteSet(S), NEW v \in S, NEW w \in S, v < w
    PROVE  Cardinality(Older(S, v)) < Cardinality(Older(S, w))
<1>. S \subseteq Nat /\ v \in Nat /\ w \in Nat
    OBVIOUS
<1>1. Older(S, v) \subseteq Older(S, w) /\ v \in Older(S, w) /\ v \notin Older(S, v)
  <2>1. \A u \in S : u < v => u < w
      OBVIOUS
  <2>2. ~(v < v)
      OBVIOUS
  <2>. QED
      BY <2>1, <2>2 DEF Older
<1>2. Older(S, v) \subseteq S /\ Older(S, w) \subseteq S
    BY DEF Older
<1>3. /\ Cardinality(Older(S, v)) \in Nat
      /\ IsFiniteSet(Older(S, w)) /\ Cardinality(Older(S, w)) \in Nat
    BY <1>2, FS_Subset, FS_CardinalityType
<1>4. /\ Cardinality(Older(S, v)) <= Cardinality(Older(S, w))
      /\ Cardinality(Older(S, w)) = Cardinality(Older(S, v)) => Older(S, w) = Older(S, v)
    BY <1>1, <1>3, FS_Subset
<1>. QED
    BY <1>1, <1>3, <1>4

(* The ranks of the first rows are all those below their number: the k-th  *)
(* row of a batch exists.                                                  *)
LEMMA RankExists ==
    ASSUME NEW S \in SUBSET Nat, IsFiniteSet(S), NEW n \in Nat
    PROVE  /\ IsFiniteSet(First(S, n))
           /\ Cardinality(First(S, n)) \in Nat
           /\ \A k \in 1..Cardinality(First(S, n)) :
                 \E w \in First(S, n) : Cardinality(Older(S, w)) = k - 1
<1>. DEFINE B == First(S, n)
            m == Cardinality(B)
            rank == [w \in B |-> Cardinality(Older(S, w))]
<1>1. \A w \in S : Older(S, w) \subseteq S
    BY DEF Older
<1>2. \A w \in S : IsFiniteSet(Older(S, w)) /\ Cardinality(Older(S, w)) \in Nat
    BY <1>1, FS_Subset, FS_CardinalityType
<1>3. B \subseteq S
    BY DEF First
<1>4. IsFiniteSet(B) /\ m \in Nat
    BY <1>3, FS_Subset, FS_CardinalityType
<1>5. ASSUME NEW w \in B PROVE Cardinality(Older(S, w)) < m
  <2>1. ASSUME NEW v \in Older(S, w) PROVE v \in B
    <3>1. v \in S /\ v < w /\ w \in S /\ Cardinality(Older(S, w)) < n
        BY <1>3 DEF Older, First
    <3>. QED
        BY <1>2, <3>1, RankGrows DEF First
  <2>2. w \in B /\ w \notin Older(S, w)
    <3>1. w \in Nat
        BY <1>3
    <3>. QED
        BY <3>1 DEF Older
  <2>3. Older(S, w) \in SUBSET B
      BY <2>1
  <2>. HIDE DEF B
  <2>4. /\ Cardinality(Older(S, w)) <= m
        /\ m = Cardinality(Older(S, w)) => B = Older(S, w)
      BY <1>4, <2>3, FS_Subset
  <2>. QED
      BY <1>2, <1>3, <1>4, <2>2, <2>4
<1>. HIDE DEF B
<1>6. rank \in Injection(B, 0..(m - 1))
  <2>. HIDE DEF m
  <2>1. rank \in [B -> 0..(m - 1)]
      BY <1>2, <1>3, <1>4, <1>5
  <2>2. \A v, w \in B : v < w \/ w < v \/ v = w
      BY <1>3
  <2>3. \A v, w \in B : rank[v] = rank[w] => v = w
      BY <1>2, <1>3, <2>2, RankGrows
  <2>. QED
      BY <2>1, <2>3 DEF Injection, IsInjective
<1>7. IsFiniteSet(0..(m - 1)) /\ Cardinality(0..(m - 1)) = m
  <2>. HIDE DEF m
  <2>. QED
      BY <1>4, FS_Interval
<1>8. rank \in Surjection(B, 0..(m - 1))
    BY <1>6, <1>7, FS_Injection
<1>9. ASSUME NEW k \in 1..m PROVE \E w \in B : Cardinality(Older(S, w)) = k - 1
  <2>1. k - 1 \in 0..(m - 1)
      BY <1>4
  <2>2. PICK w \in B : rank[w] = k - 1
      BY <1>8, <2>1 DEF Surjection
  <2>. QED
      BY <2>2
<1>. QED
    BY <1>4, <1>9 DEF B

(* Nothing has happened yet. *)
LEMMA InitIInv == Init => IInv
<1>. SUFFICES ASSUME Init PROVE IInv
    OBVIOUS
<1>. USE DEF Init
<1>1. Ids = {} /\ DOMAIN payouts = {} /\ DOMAIN chain = {} /\ DOMAIN sentFor = {}
    BY DEF Ids
<1>5. \A p \in Processors : Held(p) = {}
    BY DEF Held, IdleProcess
<1>6. \A s \in Submitters : submit[s].todo = {} /\ DOMAIN submit[s].image = {}
    BY DEF IdleSubmit
<1>7. withdrawals \in Seq(Withdrawal)
    OBVIOUS
<1>8. inDoubt \in [Ids -> Nat]
    BY <1>1
<1>9. StatusesAgree
    BY <1>1, <1>5, <1>6, <1>7, <1>8 DEF StatusesAgree, TypeOK, Withdrawal
<1>2. ShapeInv
    BY DEF ShapeInv, ProcessRun, SubmitRun, IdleProcess, IdleSubmit
<1>3. HeldInv /\ LockInv /\ BatchInv
    BY PayoutsAssumption DEF HeldInv, LockInv, BatchInv, Held, IdleProcess, IdleSubmit
<1>4. SignatureInv /\ SentInv
    BY DEF SignatureInv, SentInv, IdleSubmit
<1>. QED
    BY <1>2, <1>3, <1>4, <1>9 DEF IInv

-----------------------------------------------------------------------------
(* The withdrawals table is numbered from one, and its rows are typed. *)
LEMMA TableFacts ==
    ASSUME TypeOK
    PROVE  /\ withdrawals \in Seq(Withdrawal)
           /\ Len(withdrawals) \in Nat
           /\ Ids = 1..Len(withdrawals)
           /\ IsFiniteSet(Ids)
           /\ \A w \in Ids : withdrawals[w] \in Withdrawal
<1>1. withdrawals \in Seq(Withdrawal)
    BY DEF TypeOK, Withdrawal
<1>2. Len(withdrawals) \in Nat /\ Ids = 1..Len(withdrawals)
    BY <1>1 DEF Ids
<1>3. IsFiniteSet(1..Len(withdrawals))
    BY <1>2, FS_Interval
<1>. QED
    BY <1>1, <1>2, <1>3 DEF Ids

(* The tables agree and their rows are typed as long as nothing but the    *)
(* clock, the counts and the history of doubts moves.                      *)
LEMMA TablesStay ==
    ASSUME IInv,
           UNCHANGED <<deployment, withdrawals, payouts, walletLock, submit, chain, sentFor>>
    PROVE  BatchInv' /\ SignatureInv' /\ SentInv'
<1>1. BatchInv'
    BY DEF IInv, BatchInv
<1>2. SignatureInv'
    BY DEF IInv, SignatureInv, PayoutMode, StubSignature
<1>3. SentInv'
    BY DEF IInv, SentInv, PayoutMode
<1>. QED
    BY <1>1, <1>2, <1>3

(* RequestWithdrawal adds a row that nothing refers to yet. *)
LEMMA CreateStep ==
    ASSUME IInv, NEW a \in Accounts, NEW amount \in Amounts, CreateWithdrawal(a, amount)
    PROVE  IInv'
<1>. DEFINE row == [account |-> a, amount |-> amount, processedAt |-> Never,
                    status |-> IF amount > SingleMax THEN "MANUAL_REVIEW" ELSE "QUEUED"]
            n == Len(withdrawals) + 1
<1>0. StatusesAgree /\ TypeOK /\ ShapeInv /\ HeldInv /\ LockInv
    BY DEF IInv, StatusesAgree
<1>1. /\ UNCHANGED <<deployment, payouts, paused, walletLock, process, submit, chain, block,
                     now, aborts, lost, sentFor>>
      /\ withdrawals' = Append(withdrawals, row) /\ inDoubt' = Append(inDoubt, 0)
    BY DEF CreateWithdrawal, external, counts
<1>2. row \in Withdrawal /\ row.status \in {"QUEUED", "MANUAL_REVIEW"}
    BY DEF Withdrawal
<1>. HIDE DEF row
<1>3. withdrawals \in Seq(Withdrawal) /\ Len(withdrawals) \in Nat /\ Ids = 1..Len(withdrawals)
    BY <1>0, TableFacts
<1>4. /\ withdrawals' \in Seq(Withdrawal) /\ Ids' = Ids \cup {n} /\ n \notin Ids
      /\ \A w \in Ids : withdrawals'[w] = withdrawals[w]
      /\ withdrawals'[n] = row
    BY <1>1, <1>2, <1>3 DEF Ids
<1>. HIDE DEF n
<1>5. inDoubt' \in [Ids' -> Nat]
  <2>1. inDoubt \in [1..Len(withdrawals) -> Nat]
      BY <1>0, <1>3 DEF TypeOK
  <2>2. inDoubt \in Seq(Nat) /\ Len(inDoubt) = Len(withdrawals)
      BY <1>3, <2>1
  <2>3. Append(inDoubt, 0) \in Seq(Nat) /\ Len(Append(inDoubt, 0)) = n
      BY <1>3, <2>2 DEF n
  <2>4. Ids' = 1..n
      BY <1>3, <1>4 DEF n
  <2>5. \A q \in Seq(Nat) : q \in [1..Len(q) -> Nat]
      OBVIOUS
  <2>. QED
      BY <1>1, <2>3, <2>4, <2>5
<1>12. \A p \in Processors : Held(p)' = Held(p)
    BY <1>1 DEF Held
<1>6. TypeOK'
  <2>2. PayoutRow \subseteq PayoutRow'
      BY <1>1, <1>4 DEF PayoutRow
  <2>. QED
      BY <1>0, <1>1, <1>4, <1>5, <1>12, <2>2 DEF TypeOK, Withdrawal
<1>7. StatusesAgree'
  <2>1. DOMAIN payouts \subseteq Ids
      BY <1>0 DEF TypeOK
  <2>2. \A w \in DOMAIN payouts : withdrawals'[w] = withdrawals[w]
      BY <1>4, <2>1
  <2>3. DOMAIN payouts = {w \in Ids' : withdrawals'[w].status \notin
                                          {"QUEUED", "MANUAL_REVIEW", "REJECTED"}}
      BY <1>0, <1>2, <1>4 DEF StatusesAgree
  <2>. QED
      BY <1>0, <1>1, <1>6, <2>2, <2>3 DEF StatusesAgree
<1>8. ShapeInv' /\ LockInv'
    BY <1>0, <1>1 DEF ShapeInv, ProcessRun, SubmitRun, LockInv
<1>9. HeldInv'
    BY <1>0, <1>4, <1>12 DEF HeldInv
<1>10. BatchInv' /\ SignatureInv'
    BY <1>1 DEF IInv, BatchInv, SignatureInv, PayoutMode, StubSignature
<1>11. SentInv'
    BY <1>1 DEF IInv, SentInv, PayoutMode
<1>. QED
    BY <1>7, <1>8, <1>9, <1>10, <1>11 DEF IInv

(* A review moves a row that is under review, which no run has locked and  *)
(* no payout refers to.                                                    *)
LEMMA ReviewStep ==
    ASSUME IInv, NEW w \in Ids, NEW approve \in BOOLEAN, ReviewWithdrawal(w, approve)
    PROVE  IInv'
<1>. DEFINE new == IF approve THEN "QUEUED" ELSE "REJECTED"
<1>0. StatusesAgree /\ TypeOK /\ ShapeInv /\ HeldInv /\ LockInv
    BY DEF IInv, StatusesAgree
<1>1. /\ UNCHANGED <<deployment, payouts, paused, walletLock, process, submit, chain, block,
                     now, aborts, lost, sentFor, inDoubt>>
      /\ withdrawals[w].status = "MANUAL_REVIEW"
      /\ withdrawals' = [withdrawals EXCEPT ![w].status = new]
    BY DEF ReviewWithdrawal, external, counts, ghosts
<1>2. new \in {"QUEUED", "REJECTED"}
    OBVIOUS
<1>. HIDE DEF new
<1>3. /\ withdrawals \in Seq(Withdrawal) /\ \A v \in Ids : withdrawals[v] \in Withdrawal
    BY <1>0, TableFacts
<1>4. /\ withdrawals' \in Seq(Withdrawal) /\ Ids' = Ids
      /\ \A v \in Ids : v # w => withdrawals'[v] = withdrawals[v]
      /\ withdrawals'[w].status = new
  <2>1. [withdrawals[w] EXCEPT !.status = new] \in Withdrawal
      BY <1>2, <1>3 DEF Withdrawal
  <2>2. [withdrawals[w] EXCEPT !.status = new].status = new
      BY <1>3 DEF Withdrawal
  <2>3. withdrawals' = [withdrawals EXCEPT ![w] = [withdrawals[w] EXCEPT !.status = new]]
      BY <1>1
  <2>4. withdrawals \in [1..Len(withdrawals) -> Withdrawal] /\ Len(withdrawals) \in Nat
      BY <1>3
  <2>5. withdrawals' \in [1..Len(withdrawals) -> Withdrawal]
      BY <2>1, <2>3, <2>4
  <2>6. withdrawals' \in Seq(Withdrawal)
      BY <2>4, <2>5
  <2>7. w \in DOMAIN withdrawals /\ DOMAIN withdrawals' = DOMAIN withdrawals
      BY <2>4, <2>5 DEF Ids
  <2>. QED
      BY <2>2, <2>3, <2>6, <2>7 DEF Ids
<1>5. w \notin DOMAIN payouts /\ \A p \in Processors : w \notin Held(p)
    BY <1>0, <1>1 DEF StatusesAgree, HeldInv
<1>6. \A p \in Processors : Held(p)' = Held(p)
    BY <1>1 DEF Held
<1>7. TypeOK'
  <2>1. PayoutRow' = PayoutRow
      BY <1>1, <1>4 DEF PayoutRow
  <2>. QED
      BY <1>0, <1>1, <1>4, <1>6, <2>1 DEF TypeOK, Withdrawal
<1>8. StatusesAgree'
  <2>1. \A v \in DOMAIN payouts : withdrawals'[v] = withdrawals[v]
      BY <1>0, <1>4, <1>5 DEF TypeOK
  <2>2. DOMAIN payouts = {v \in Ids' : withdrawals'[v].status \notin
                                          {"QUEUED", "MANUAL_REVIEW", "REJECTED"}}
      BY <1>0, <1>1, <1>2, <1>4 DEF StatusesAgree
  <2>. QED
      BY <1>0, <1>1, <1>7, <2>1, <2>2 DEF StatusesAgree
<1>9. ShapeInv' /\ LockInv'
    BY <1>0, <1>1 DEF ShapeInv, ProcessRun, SubmitRun, LockInv
<1>10. HeldInv'
    BY <1>0, <1>4, <1>5, <1>6 DEF HeldInv
<1>11. BatchInv' /\ SignatureInv'
    BY <1>1 DEF IInv, BatchInv, SignatureInv, PayoutMode, StubSignature
<1>12. SentInv'
    BY <1>1 DEF IInv, SentInv, PayoutMode
<1>. QED
    BY <1>8, <1>9, <1>10, <1>11, <1>12 DEF IInv

(* The tables, the runs and the chain stay typed and in agreement when     *)
(* only the pause, a clock or a count moves.                               *)
LEMMA QuietStep ==
    ASSUME IInv, paused' \in BOOLEAN, block' \in Nat, now' \in Nat, aborts' \in Nat, lost' \in Nat,
           walletLock # NoOne => ~paused',
           UNCHANGED <<deployment, withdrawals, payouts, walletLock, process, submit, chain, sentFor,
                       inDoubt>>
    PROVE  IInv'
<1>0. StatusesAgree /\ TypeOK /\ ShapeInv /\ HeldInv /\ LockInv
    BY DEF IInv, StatusesAgree
<1>1. \A p \in Processors : Held(p)' = Held(p)
    BY DEF Held
<1>2. Ids' = Ids /\ PayoutRow' = PayoutRow
    BY DEF PayoutRow, Ids
<1>3. TypeOK'
    BY <1>0, <1>1, <1>2 DEF TypeOK
<1>4. StatusesAgree'
    BY <1>0, <1>2, <1>3 DEF StatusesAgree
<1>5. ShapeInv' /\ LockInv'
    BY <1>0 DEF ShapeInv, ProcessRun, SubmitRun, LockInv
<1>6. HeldInv'
    BY <1>0, <1>1, <1>2 DEF HeldInv
<1>. QED
    BY <1>4, <1>5, <1>6, TablesStay DEF IInv

(* A pause, an hour, a block: SetHotWalletPayoutsPaused waits for the run  *)
(* that sends, and a run pauses the wallet before it sends.                *)
LEMMA PauseAndClockSteps ==
    ASSUME IInv,
           \/ \E value \in BOOLEAN : SetHotWalletPayoutsPaused(value)
           \/ \E s \in Submitters : SubmitPauses(s)
           \/ NewBlock
           \/ Tick
    PROVE  IInv'
<1>0. /\ block \in Nat /\ now \in Nat /\ aborts \in Nat /\ lost \in Nat /\ paused \in BOOLEAN
      /\ walletLock # NoOne => ~paused
    BY DEF IInv, StatusesAgree, TypeOK, ShapeInv, LockInv
<1>1. /\ block' \in Nat /\ now' \in Nat /\ aborts' \in Nat /\ lost' \in Nat
    BY <1>0 DEF SetHotWalletPayoutsPaused, SubmitPauses, NewBlock, Tick, external, counts
<1>3. paused' = paused \/ (paused' \in BOOLEAN /\ walletLock = NoOne)
    BY DEF SetHotWalletPayoutsPaused, SubmitPauses, MaySubmit, NewBlock, Tick, tables
<1>4. paused' \in BOOLEAN /\ (walletLock # NoOne => ~paused')
    BY <1>0, <1>3
<1>2. UNCHANGED <<deployment, withdrawals, payouts, walletLock, process, submit, chain, sentFor, inDoubt>>
    BY DEF SetHotWalletPayoutsPaused, SubmitPauses, NewBlock, Tick, tables, external, ghosts
<1>. QED
    BY <1>1, <1>2, <1>4, QuietStep

(* External: a transaction is resolved once, so what has landed stays      *)
(* landed.                                                                 *)
LEMMA ResolveStep ==
    ASSUME IInv, NEW sig \in DOMAIN chain, NEW result \in {"landed", "failed", "dropped"},
           Resolve(sig, result)
    PROVE  IInv'
<1>0. StatusesAgree /\ TypeOK /\ ShapeInv /\ HeldInv /\ LockInv
    BY DEF IInv, StatusesAgree
<1>1. /\ UNCHANGED <<deployment, withdrawals, payouts, paused, walletLock, process, submit, block,
                     now, aborts, lost, sentFor, inDoubt>>
      /\ chain[sig] = "pending" /\ chain' = [chain EXCEPT ![sig] = result]
    BY DEF Resolve, tables, counts, ghosts
<1>2. DOMAIN chain' = DOMAIN chain /\ chain'[sig] = result
      /\ \A t \in DOMAIN chain : t # sig => chain'[t] = chain[t]
    BY <1>1
<1>3. \A p \in Processors : Held(p)' = Held(p)
    BY <1>1 DEF Held
<1>4. Ids' = Ids /\ PayoutRow' = PayoutRow
    BY <1>1, <1>2 DEF PayoutRow, Ids
<1>5. TypeOK'
    BY <1>0, <1>1, <1>2, <1>3, <1>4 DEF TypeOK
<1>6. StatusesAgree'
    BY <1>0, <1>1, <1>4, <1>5 DEF StatusesAgree
<1>7. ShapeInv' /\ LockInv'
    BY <1>0, <1>1 DEF ShapeInv, ProcessRun, SubmitRun, LockInv
<1>10. HeldInv'
    BY <1>0, <1>1, <1>3, <1>4 DEF HeldInv
<1>8. BatchInv' /\ SignatureInv'
    BY <1>1 DEF IInv, BatchInv, SignatureInv, PayoutMode, StubSignature
<1>9. SentInv'
  <2>1. \A w \in DOMAIN payouts : PayoutMode = "rpc" /\ payouts[w].status = "CONFIRMED" =>
            payouts[w].signature # << >>
      BY DEF IInv, SignatureInv
  <2>2. \A t \in DOMAIN chain : chain[t] = "landed" => chain'[t] = "landed"
      BY <1>1, <1>2
  <2>. QED
      BY <1>1, <1>2, <2>1, <2>2 DEF IInv, SentInv, PayoutMode
<1>. QED
    BY <1>6, <1>7, <1>8, <1>9, <1>10 DEF IInv

-----------------------------------------------------------------------------
(* A process run that locks rows or lets go of them writes nothing: what   *)
(* has to be shown is that it locks queued rows nobody else has locked.    *)
LEMMA ProcessQuiet ==
    ASSUME IInv, NEW p \in Processors, NEW run,
           run \in [pc : {"idle", "started", "budgeted", "locked"}, at : Nat,
                    budget : {run.budget}, batch : {run.batch}],
           process' = [process EXCEPT ![p] = run],
           \A k \in DOMAIN run.batch :
              /\ run.batch[k] \in Ids /\ withdrawals[run.batch[k]].status = "QUEUED"
              /\ \A q \in Processors \ {p} : run.batch[k] \notin Held(q),
           aborts' \in Nat,
           UNCHANGED <<tables, walletLock, submit, external, now, lost, ghosts>>
    PROVE  IInv'
<1>0. StatusesAgree /\ TypeOK /\ ShapeInv /\ HeldInv /\ LockInv
    BY DEF IInv, StatusesAgree
<1>1. UNCHANGED <<deployment, withdrawals, payouts, paused, walletLock, submit, chain, block,
                  now, lost, sentFor, inDoubt>>
    BY DEF tables, external, ghosts
<1>2. DOMAIN process = Processors
    BY <1>0 DEF ShapeInv
<1>3. process'[p] = run /\ \A q \in Processors : q # p => process'[q] = process[q]
    BY <1>2
<1>4. \A q \in Processors : q # p => Held(q)' = Held(q)
    BY <1>3 DEF Held
<1>5. Held(p)' = {run.batch[k] : k \in DOMAIN run.batch}
    BY <1>3 DEF Held
<1>6. Ids' = Ids /\ PayoutRow' = PayoutRow
    BY <1>1 DEF PayoutRow, Ids
<1>7. \A w \in Held(p)' : /\ w \in Ids /\ withdrawals[w].status = "QUEUED"
                          /\ \A q \in Processors \ {p} : w \notin Held(q)
    BY <1>5
<1>8. HeldInv'
  <2>1. \A q \in Processors : \A w \in Held(q)' : w \in Ids' /\ withdrawals'[w].status = "QUEUED"
      BY <1>0, <1>1, <1>4, <1>6, <1>7 DEF HeldInv
  <2>2. ASSUME NEW q \in Processors, NEW r \in Processors, q # r
        PROVE  Held(q)' \cap Held(r)' = {}
      BY <1>0, <1>4, <1>7, <2>2 DEF HeldInv
  <2>. QED
      BY <2>1, <2>2 DEF HeldInv
<1>9. TypeOK'
    BY <1>0, <1>1, <1>6, <1>8 DEF TypeOK, HeldInv
<1>10. StatusesAgree'
    BY <1>0, <1>1, <1>6, <1>9 DEF StatusesAgree
<1>11. LockInv'
    BY <1>0, <1>1 DEF LockInv
<1>12. ShapeInv'
  <2>1. ASSUME NEW q \in Processors PROVE process'[q] \in ProcessRun'
    <3>1. process'[q].budget \in {process'[r].budget : r \in Processors} /\
          process'[q].batch \in {process'[r].batch : r \in Processors}
        OBVIOUS
    <3>2. process[q] \in ProcessRun
        BY <1>0 DEF ShapeInv
    <3>. QED
        BY <1>3, <3>1, <3>2 DEF ProcessRun
  <2>2. process' \in [Processors -> ProcessRun']
      BY <1>2, <2>1
  <2>3. SubmitRun' = SubmitRun
      BY <1>1 DEF SubmitRun
  <2>. QED
      BY <1>0, <1>1, <2>2, <2>3 DEF ShapeInv
<1>. QED
    BY <1>1, <1>8, <1>10, <1>11, <1>12, TablesStay DEF IInv

(* A run stays a run whatever is put in its fields. *)
LEMMA RunFields ==
    ASSUME NEW A, NEW C, NEW D, NEW r \in [pc : A, at : Nat, budget : C, batch : D],
           A \subseteq {"idle", "started", "budgeted", "locked"}
    PROVE  r \in [pc : {"idle", "started", "budgeted", "locked"}, at : Nat,
                  budget : {r.budget}, batch : {r.batch}]
OBVIOUS

(* ProcessAutoWithdrawals reads the clock and the budget, locks its batch, *)
(* or dies: each leaves the tables as they are.                            *)
LEMMA ProcessReadSteps ==
    ASSUME IInv, NEW p \in Processors,
           ProcessStart(p) \/ ProcessReadBudget(p) \/ ProcessLockBatch(p) \/ ProcessAbort(p)
    PROVE  IInv'
<1>. DEFINE ok(run) == run \in [pc : {"idle", "started", "budgeted", "locked"}, at : Nat,
                                budget : {run.budget}, batch : {run.batch}]
<1>0. HeldInv /\ process \in [Processors -> ProcessRun] /\ now \in Nat /\ aborts \in Nat
    BY DEF IInv, ShapeInv
<1>1. process[p] \in ProcessRun
    BY <1>0
<1>2. \A k \in DOMAIN process[p].batch :
          /\ process[p].batch[k] \in Ids /\ withdrawals[process[p].batch[k]].status = "QUEUED"
          /\ \A q \in Processors \ {p} : process[p].batch[k] \notin Held(q)
  <2>1. \A k \in DOMAIN process[p].batch : process[p].batch[k] \in Held(p)
      BY DEF Held
  <2>. QED
      BY <1>0, <2>1 DEF HeldInv
<1>3. CASE ProcessStart(p)
  <2>. DEFINE run == [IdleProcess EXCEPT !.pc = "started", !.at = now]
  <2>1. ok(run) /\ DOMAIN run.batch = {}
    <3>1. run \in [pc : {"started"}, at : Nat, budget : {NoBudget}, batch : {<< >>}]
        BY <1>0 DEF IdleProcess
    <3>. HIDE DEF run
    <3>. QED
        BY <3>1, RunFields
  <2>2. /\ process' = [process EXCEPT ![p] = run] /\ aborts' = aborts
        /\ UNCHANGED <<tables, walletLock, submit, external, now, lost, ghosts>>
      BY <1>3 DEF ProcessStart, counts
  <2>. HIDE DEF run
  <2>. QED
      BY <1>0, <2>1, <2>2, ProcessQuiet
<1>4. CASE ProcessReadBudget(p)
  <2>. DEFINE run == [process[p] EXCEPT !.pc = "budgeted", !.budget = Spending(process[p].at)]
  <2>1. ok(run) /\ run.batch = process[p].batch
    <3>. DEFINE B == Spending(process[p].at)
    <3>. HIDE DEF B
    <3>1. run \in [pc : {"budgeted"}, at : Nat, budget : {B}, batch : {process[p].batch}]
        BY <1>1 DEF ProcessRun, B
    <3>. HIDE DEF run
    <3>. QED
        BY <3>1, RunFields
  <2>2. /\ process' = [process EXCEPT ![p] = run] /\ aborts' = aborts
        /\ UNCHANGED <<tables, walletLock, submit, external, now, lost, ghosts>>
      BY <1>4 DEF ProcessReadBudget, counts
  <2>. HIDE DEF run
  <2>. QED
      BY <1>0, <1>2, <2>1, <2>2, ProcessQuiet
<1>5. CASE ProcessLockBatch(p)
  <2>. DEFINE free == {w \in Ids : /\ withdrawals[w].status = "QUEUED"
                                   /\ \A q \in Processors \ {p} : w \notin Held(q)}
              batch == First(free, ProcessLimit)
              rows == [k \in 1..Cardinality(batch) |->
                          CHOOSE w \in batch : Cardinality(Older(free, w)) = k - 1]
              run == [process[p] EXCEPT !.pc = "locked", !.batch = rows]
  <2>1. free \in SUBSET Nat /\ IsFiniteSet(free)
    <3>1. IsFiniteSet(Ids) /\ Ids \subseteq Nat
      <4>1. TypeOK
          BY DEF IInv, StatusesAgree
      <4>. QED
          BY <4>1, TableFacts
    <3>. QED
        BY <3>1, FS_Subset
  <2>2. /\ process' = [process EXCEPT ![p] = run] /\ aborts' = aborts
        /\ UNCHANGED <<tables, walletLock, submit, external, now, lost, ghosts>>
      BY <1>5 DEF ProcessLockBatch, counts, First, Older
  <2>3. ProcessLimit \in Nat
      BY PayoutsAssumption
  <2>. HIDE DEF free
  <2>4. \A k \in 1..Cardinality(batch) : \E w \in batch : Cardinality(Older(free, w)) = k - 1
      BY <2>1, <2>3, RankExists
  <2>5. batch \subseteq free
      BY DEF First
  <2>. HIDE DEF batch
  <2>6. \A k \in DOMAIN rows : rows[k] \in batch
      BY <2>4
  <2>. HIDE DEF rows
  <2>7. ok(run) /\ run.batch = rows
    <3>1. run \in [pc : {"locked"}, at : Nat, budget : {process[p].budget}, batch : {rows}]
        BY <1>1 DEF ProcessRun
    <3>. HIDE DEF run
    <3>. QED
        BY <3>1, RunFields
  <2>. HIDE DEF run
  <2>8. \A k \in DOMAIN run.batch :
          /\ run.batch[k] \in Ids /\ withdrawals[run.batch[k]].status = "QUEUED"
          /\ \A q \in Processors \ {p} : run.batch[k] \notin Held(q)
      BY <2>5, <2>6, <2>7 DEF free
  <2>. QED
      BY <1>0, <2>2, <2>7, <2>8, ProcessQuiet
<1>6. CASE ProcessAbort(p)
  <2>1. ok(IdleProcess) /\ DOMAIN IdleProcess.batch = {}
      BY DEF IdleProcess
  <2>2. /\ process' = [process EXCEPT ![p] = IdleProcess] /\ aborts' = aborts + 1
        /\ UNCHANGED <<tables, walletLock, submit, external, now, lost, ghosts>>
      BY <1>6 DEF ProcessAbort
  <2>3. aborts' \in Nat
      BY <1>0, <2>2
  <2>4. \A k \in DOMAIN IdleProcess.batch :
          /\ IdleProcess.batch[k] \in Ids /\ withdrawals[IdleProcess.batch[k]].status = "QUEUED"
          /\ \A q \in Processors \ {p} : IdleProcess.batch[k] \notin Held(q)
      BY <2>1
  <2>. QED
      BY <2>1, <2>2, <2>3, <2>4, ProcessQuiet
<1>. QED
    BY <1>3, <1>4, <1>5, <1>6

(* The switch over the limits has three outcomes, whatever the budget. *)
LEMMA VerdictFacts ==
    ASSUME NEW p \in Processors
    PROVE  \A w \in Held(p) : Verdicts(p)[w] \in {"MANUAL_REVIEW", "QUEUED", "GRANTED"}
<1>1. \A b, w : Verdict(b, w) \in {"MANUAL_REVIEW", "QUEUED", "GRANTED"}
    BY DEF Verdict
<1>. QED
    BY <1>1 DEF Verdicts

(* ProcessAutoWithdrawals commits: the rows it grants get a payout row,    *)
(* the others stay queued or go to review, and nobody else's row moves.    *)
LEMMA ProcessCommitStep ==
    ASSUME IInv, NEW p \in Processors, ProcessCommit(p)
    PROVE  IInv'
<1>. DEFINE verdict == Verdicts(p)
            granted == {w \in Held(p) : verdict[w] = "GRANTED"}
            at == process[p].at
            status == IF PayoutMode = "stub" THEN "CONFIRMED" ELSE "PAYOUT_CREATED"
<1>0. StatusesAgree /\ TypeOK /\ ShapeInv /\ HeldInv /\ LockInv /\ BatchInv /\ SignatureInv /\ SentInv
    BY DEF IInv, StatusesAgree
<1>1. /\ UNCHANGED <<deployment, paused, walletLock, submit, chain, block, now, aborts, lost,
                     sentFor, inDoubt>>
      /\ process' = [process EXCEPT ![p] = IdleProcess]
      /\ granted \cap DOMAIN payouts = {}
    BY DEF ProcessCommit, external, counts, ghosts
<1>2. /\ withdrawals' = [w \in Ids |->
              IF w \in granted
              THEN [withdrawals[w] EXCEPT !.status = status, !.processedAt = at]
              ELSE IF w \in Held(p) THEN [withdrawals[w] EXCEPT !.status = verdict[w]]
              ELSE withdrawals[w]]
      /\ payouts' = [w \in DOMAIN payouts \cup granted |->
              IF w \in granted THEN NewPayout(w, at) ELSE payouts[w]]
    BY DEF ProcessCommit
<1>3. \A w \in Held(p) : /\ w \in Ids /\ withdrawals[w].status = "QUEUED"
                         /\ verdict[w] \in {"MANUAL_REVIEW", "QUEUED", "GRANTED"}
                         /\ \A q \in Processors : q # p => w \notin Held(q)
  <2>1. \A w \in Held(p) : verdict[w] \in {"MANUAL_REVIEW", "QUEUED", "GRANTED"}
      BY VerdictFacts
  <2>2. \A w \in Held(p) : w \in Ids /\ withdrawals[w].status = "QUEUED"
      BY <1>0 DEF HeldInv
  <2>3. \A q \in Processors : q # p => Held(p) \cap Held(q) = {}
      BY <1>0 DEF HeldInv
  <2>. QED
      BY <2>1, <2>2, <2>3
<1>4. at \in Nat
    BY <1>0 DEF ShapeInv, ProcessRun
<1>. HIDE DEF verdict, at
<1>5. /\ withdrawals \in Seq(Withdrawal) /\ \A v \in Ids : withdrawals[v] \in Withdrawal
      /\ Len(withdrawals) \in Nat /\ Ids = 1..Len(withdrawals)
    BY <1>0, TableFacts
<1>6. granted \subseteq Held(p) /\ \A w \in Held(p) \ granted : verdict[w] \in {"MANUAL_REVIEW", "QUEUED"}
    BY <1>3
<1>. HIDE DEF granted
<1>7. /\ withdrawals' \in [Ids -> Withdrawal]
      /\ \A w \in granted : withdrawals'[w].status = status
      /\ \A w \in Held(p) \ granted : withdrawals'[w].status = verdict[w]
      /\ \A w \in Ids \ Held(p) : withdrawals'[w] = withdrawals[w]
  <2>1. status \in {"CONFIRMED", "PAYOUT_CREATED"}
      OBVIOUS
  <2>. HIDE DEF status
  <2>2. ASSUME NEW w \in Ids
        PROVE  /\ withdrawals'[w] \in Withdrawal
               /\ w \in granted => withdrawals'[w].status = status
               /\ w \in Held(p) \ granted => withdrawals'[w].status = verdict[w]
               /\ w \notin Held(p) => withdrawals'[w] = withdrawals[w]
    <3>1. withdrawals[w] \in Withdrawal
        BY <1>5
    <3>2. CASE w \in granted
      <4>1. withdrawals'[w] = [withdrawals[w] EXCEPT !.status = status, !.processedAt = at]
          BY <1>2, <3>2
      <4>. QED
          BY <1>4, <1>6, <2>1, <3>1, <3>2, <4>1 DEF Withdrawal
    <3>3. CASE w \in Held(p) \ granted
      <4>1. withdrawals'[w] = [withdrawals[w] EXCEPT !.status = verdict[w]]
          BY <1>2, <3>3
      <4>. QED
          BY <1>6, <3>1, <3>3, <4>1 DEF Withdrawal
    <3>4. CASE w \notin Held(p)
        BY <1>2, <1>6, <3>1, <3>4
    <3>. QED
        BY <3>2, <3>3, <3>4
  <2>3. withdrawals' \in [Ids -> Withdrawal]
      BY <1>2, <2>2
  <2>. QED
      BY <1>3, <1>6, <2>2, <2>3
<1>8. Ids' = Ids /\ withdrawals' \in Seq(Withdrawal)
    BY <1>5, <1>7 DEF Ids
<1>9. /\ DOMAIN payouts' = DOMAIN payouts \cup granted
      /\ \A w \in granted : w \notin DOMAIN payouts /\ payouts'[w] = NewPayout(w, at)
      /\ \A w \in DOMAIN payouts : payouts'[w] = payouts[w]
    BY <1>1, <1>2
<1>10. \A w \in granted : NewPayout(w, at) \in PayoutRow'
  <2>1. ASSUME NEW w \in granted PROVE NewPayout(w, at) \in PayoutRow'
    <3>1. w \in Ids'
        BY <1>3, <1>6, <1>8
    <3>. QED
        BY <1>4, <3>1 DEF NewPayout, PayoutRow, StubSignature
  <2>. QED
      BY <2>1
<1>11. PayoutRow' = PayoutRow
    BY <1>1, <1>8 DEF PayoutRow
<1>12. DOMAIN IdleProcess.batch = {}
    BY DEF IdleProcess
<1>13. Held(p)' = {} /\ \A q \in Processors : q # p => Held(q)' = Held(q)
    BY <1>0, <1>1, <1>12 DEF Held, ShapeInv
<1>14. HeldInv'
  <2>1. \A q \in Processors : q # p => \A w \in Held(q) : w \notin Held(p)
      BY <1>3
  <2>. QED
      BY <1>0, <1>7, <1>8, <1>13, <2>1 DEF HeldInv
<1>15. TypeOK'
  <2>1. DOMAIN payouts' \subseteq Ids' /\ \A w \in DOMAIN payouts' : payouts'[w] \in PayoutRow'
      BY <1>0, <1>3, <1>6, <1>8, <1>9, <1>10, <1>11 DEF TypeOK
  <2>2. \A q \in Processors : Held(q)' \subseteq Ids'
      BY <1>0, <1>8, <1>13 DEF TypeOK
  <2>. QED
      BY <1>0, <1>1, <1>8, <1>11, <2>1, <2>2 DEF TypeOK, Withdrawal
<1>16. StatusesAgree'
  <2>1. \A w \in Held(p) : w \notin DOMAIN payouts
      BY <1>0, <1>3 DEF StatusesAgree
  <2>2. DOMAIN payouts' = {w \in Ids' : withdrawals'[w].status \notin
                                          {"QUEUED", "MANUAL_REVIEW", "REJECTED"}}
      BY <1>0, <1>3, <1>6, <1>7, <1>8, <1>9, <2>1 DEF StatusesAgree
  <2>3. ASSUME NEW w \in DOMAIN payouts'
        PROVE  withdrawals'[w].status = IF payouts'[w].status = "CREATED" THEN "PAYOUT_CREATED"
                                                                          ELSE payouts'[w].status
    <3>1. CASE w \in granted
        BY <1>7, <1>9, <3>1 DEF NewPayout
    <3>2. CASE w \in DOMAIN payouts
      <4>1. w \in Ids \ Held(p)
          BY <1>0, <2>1, <3>2 DEF TypeOK
      <4>. QED
          BY <1>0, <1>7, <1>9, <3>2, <4>1 DEF StatusesAgree
    <3>. QED
        BY <1>9, <3>1, <3>2
  <2>. QED
      BY <1>15, <2>2, <2>3 DEF StatusesAgree
<1>17. LockInv'
    BY <1>0, <1>1 DEF LockInv
<1>18. BatchInv'
    BY <1>0, <1>1, <1>9 DEF BatchInv
<1>19. SentInv'
  <2>1. ASSUME PayoutMode = "rpc", NEW w \in granted
        PROVE  payouts'[w].signature = << >> /\ payouts'[w].status = "CREATED"
      BY <1>9, <2>1 DEF NewPayout
  <2>. QED
      BY <1>0, <1>1, <1>9, <2>1 DEF SentInv, PayoutMode
<1>20. SignatureInv'
  <2>1. CASE PayoutMode = "stub"
    <3>1. \A w : StubSignature(w) # << >>
        BY DEF StubSignature
    <3>2. \A v, w : StubSignature(v) = StubSignature(w) => v = w
        BY DEF StubSignature
    <3>3. \A w \in DOMAIN payouts' : /\ payouts'[w].signature = StubSignature(w)
                                     /\ payouts'[w].status # "CREATED"
        BY <1>0, <1>9, <2>1, <3>1 DEF NewPayout, SignatureInv
    <3>4. \A s \in Submitters : DOMAIN submit'[s].image = {}
        BY <1>18, <3>3 DEF BatchInv
    <3>5. \A w : StubSignature(w)' = StubSignature(w)
        BY DEF StubSignature
    <3>. QED
        BY <3>1, <3>2, <3>3, <3>4, <3>5 DEF SignatureInv
  <2>2. CASE PayoutMode # "stub"
    <3>1. \A w \in granted : payouts'[w].signature = << >> /\ payouts'[w].status = "CREATED"
        BY <1>9, <2>2 DEF NewPayout
    <3>2. PayoutMode' # "stub"
        BY <1>1, <2>2 DEF PayoutMode
    <3>. QED
        BY <1>0, <1>1, <1>9, <2>2, <3>1, <3>2 DEF SignatureInv
  <2>. QED
      BY <2>1, <2>2
<1>21. ShapeInv'
  <2>1. ASSUME NEW q \in Processors PROVE process'[q] \in ProcessRun'
    <3>1. process'[q].budget \in {process'[r].budget : r \in Processors} /\
          process'[q].batch \in {process'[r].batch : r \in Processors}
        OBVIOUS
    <3>2. CASE q = p
      <4>1. process'[q] = IdleProcess
          BY <1>0, <1>1, <3>2 DEF ShapeInv
      <4>2. IdleProcess \in [pc : {"idle"}, at : Nat, budget : {IdleProcess.budget}, batch : {IdleProcess.batch}]
          BY DEF IdleProcess
      <4>. QED
          BY <3>1, <4>1, <4>2 DEF ProcessRun
    <3>3. CASE q # p
      <4>1. process'[q] = process[q] /\ process[q] \in ProcessRun
          BY <1>0, <1>1, <3>3 DEF ShapeInv
      <4>. QED
          BY <3>1, <4>1 DEF ProcessRun
    <3>. QED
        BY <3>2, <3>3
  <2>2. process' \in [Processors -> ProcessRun']
      BY <1>0, <1>1, <2>1 DEF ShapeInv
  <2>3. SubmitRun' = SubmitRun
      BY <1>1 DEF SubmitRun
  <2>. QED
      BY <1>0, <1>1, <2>2, <2>3 DEF ShapeInv
<1>. QED
    BY <1>14, <1>16, <1>17, <1>18, <1>19, <1>20, <1>21 DEF IInv

-----------------------------------------------------------------------------
(* A broadcast adds to what the cluster has and to what was sent for w. *)
LEMMA BroadcastFacts ==
    ASSUME TypeOK, NEW w, NEW sig, Broadcast(w, sig)
    PROVE  /\ DOMAIN chain' = DOMAIN chain \cup {sig} /\ DOMAIN sentFor' = DOMAIN chain'
           /\ \A t \in DOMAIN chain : chain'[t] = chain[t] /\ sentFor[t] \subseteq sentFor'[t]
           /\ \A t \in DOMAIN chain' : chain'[t] \in {"pending", "landed", "failed", "dropped"}
           /\ w \in sentFor'[sig]
           /\ \A t \in DOMAIN chain' :
                 sentFor'[t] \subseteq {w} \cup (IF t \in DOMAIN chain THEN sentFor[t] ELSE {})
           /\ \A t \in DOMAIN chain : t # sig => sentFor'[t] = sentFor[t]
<1>1. /\ DOMAIN sentFor = DOMAIN chain
      /\ \A t \in DOMAIN chain : chain[t] \in {"pending", "landed", "failed", "dropped"}
    BY DEF TypeOK
<1>2. /\ DOMAIN chain' = DOMAIN chain \cup {sig} /\ DOMAIN sentFor' = DOMAIN sentFor \cup {sig}
      /\ \A t \in DOMAIN chain' : chain'[t] = IF t \in DOMAIN chain THEN chain[t] ELSE "pending"
      /\ \A t \in DOMAIN sentFor' : sentFor'[t] =
            (IF t \in DOMAIN sentFor THEN sentFor[t] ELSE {}) \cup (IF t = sig THEN {w} ELSE {})
    BY DEF Broadcast
<1>. QED
    BY <1>1, <1>2

(* What a step of the submit loop may do.  It sends for, writes or passes  *)
(* over a payout of the batch: a row it writes for w is new in the image,  *)
(* and a signature it writes is taken by no other row and was sent for w.  *)
LoopStep(s, w) ==
    /\ w \in submit[s].todo
    /\ UNCHANGED <<tables, walletLock, process, block, now, aborts>>
    /\ lost' \in Nat /\ inDoubt' \in [Ids -> Nat]
    /\ submit' \in [Submitters -> SubmitRun']
    /\ \A q \in Submitters : q # s => submit'[q] = submit[q]
    /\ submit'[s].pc = submit[s].pc
    /\ submit'[s].todo \subseteq submit[s].todo \ {w}
    /\ DOMAIN submit'[s].image \subseteq DOMAIN submit[s].image \cup {w}
    /\ \A v \in DOMAIN submit[s].image :
          v # w => v \in DOMAIN submit'[s].image /\ submit'[s].image[v] = submit[s].image[v]
    /\ w \in DOMAIN submit'[s].image =>
          LET row == submit'[s].image[w]
          IN  /\ row \in PayoutRow' /\ row.status \in {"SUBMITTED", "FAILED"}
              /\ row.status = "SUBMITTED" <=> row.signature # << >>
              /\ row.signature # << >> => ~SignatureTaken(s, row.signature)
              /\ row.signature # << >> /\ PayoutMode = "rpc" =>
                    row.signature \in DOMAIN chain' /\ w \in sentFor'[row.signature]
    /\ DOMAIN chain \subseteq DOMAIN chain' /\ DOMAIN sentFor' = DOMAIN chain'
    /\ \A t \in DOMAIN chain : chain'[t] = chain[t] /\ sentFor[t] \subseteq sentFor'[t]
    /\ \A t \in DOMAIN chain' :
          /\ chain'[t] \in {"pending", "landed", "failed", "dropped"}
          /\ sentFor'[t] \subseteq {w} \cup (IF t \in DOMAIN chain THEN sentFor[t] ELSE {})

(* Such a step keeps the invariant. *)
LEMMA LoopStepInv ==
    ASSUME IInv, NEW s \in Submitters, NEW w, LoopStep(s, w)
    PROVE  IInv'
<1>. USE DEF LoopStep
<1>0. StatusesAgree /\ TypeOK /\ ShapeInv /\ HeldInv /\ LockInv /\ BatchInv /\ SignatureInv /\ SentInv
    BY DEF IInv, StatusesAgree
<1>1. UNCHANGED <<deployment, withdrawals, payouts, paused, walletLock, process, block, now, aborts>>
    BY DEF tables
<1>2. w \in DOMAIN payouts /\ payouts[w].status = "CREATED" /\ w \notin DOMAIN submit[s].image
    BY <1>0 DEF BatchInv
<1>3. Ids' = Ids /\ PayoutRow \subseteq PayoutRow'
    BY <1>1 DEF PayoutRow, Ids
<1>4. \A p \in Processors : Held(p)' = Held(p)
    BY <1>1 DEF Held
<1>5. \A q \in Submitters : \A v \in DOMAIN submit'[q].image :
          \/ v \in DOMAIN submit[q].image /\ submit'[q].image[v] = submit[q].image[v]
          \/ q = s /\ v = w
    OBVIOUS
<1>6. \A q \in Submitters : submit'[q].todo \subseteq submit[q].todo
    OBVIOUS
<1>7. TypeOK'
  <2>1. \A q \in Submitters :
            /\ submit'[q].todo \cup DOMAIN submit'[q].image \subseteq Ids'
            /\ \A v \in DOMAIN submit'[q].image : submit'[q].image[v] \in PayoutRow'
    <3>1. w \in Ids
        BY <1>0, <1>2 DEF TypeOK
    <3>2. \A q \in Submitters : \A v \in DOMAIN submit[q].image : submit[q].image[v] \in PayoutRow
        BY <1>0 DEF TypeOK
    <3>3. \A q \in Submitters : submit[q].todo \subseteq Ids /\ DOMAIN submit[q].image \subseteq Ids
        BY <1>0 DEF TypeOK
    <3>4. w \in DOMAIN submit'[s].image => submit'[s].image[w] \in PayoutRow'
        OBVIOUS
    <3>5. ASSUME NEW q \in Submitters, NEW v \in DOMAIN submit'[q].image
          PROVE  v \in Ids' /\ submit'[q].image[v] \in PayoutRow'
        BY <1>3, <1>5, <3>1, <3>2, <3>3, <3>4
    <3>. QED
        BY <1>3, <1>6, <3>3, <3>5
  <2>2. \A t \in DOMAIN chain' : sentFor'[t] \subseteq Ids'
      BY <1>0, <1>2, <1>3 DEF TypeOK
  <2>. QED
      BY <1>0, <1>1, <1>3, <1>4, <2>1, <2>2 DEF TypeOK
<1>8. StatusesAgree'
    BY <1>0, <1>1, <1>3, <1>7 DEF StatusesAgree
<1>9. ShapeInv'
  <2>1. ProcessRun' = ProcessRun
      BY <1>1 DEF ProcessRun
  <2>. QED
      BY <1>0, <1>1, <2>1 DEF ShapeInv
<1>10. HeldInv'
    BY <1>0, <1>1, <1>3, <1>4 DEF HeldInv
<1>11. submit[s].pc = "sending" /\ walletLock = s
  <2>1. submit[s].pc \in {"idle", "sending"}
      BY <1>0 DEF ShapeInv, SubmitRun
  <2>. QED
      BY <1>0, <2>1 DEF LockInv
<1>12. LockInv'
  <2>1. \A q \in Submitters : submit'[q].pc = submit[q].pc
      OBVIOUS
  <2>2. \A q \in Submitters : submit'[q].pc = "idle" => q # s
      BY <1>11
  <2>. QED
      BY <1>0, <1>1, <2>1, <2>2 DEF LockInv
<1>13. BatchInv'
  <2>1. w \in DOMAIN submit'[s].image =>
            w \notin submit'[s].todo /\ submit'[s].image[w].status \in {"SUBMITTED", "FAILED"}
      OBVIOUS
  <2>. QED
      BY <1>0, <1>1, <1>2, <1>5, <1>6, <2>1 DEF BatchInv
<1>14. SentInv'
  <2>1. \A t \in DOMAIN sentFor' : sentFor'[t] \subseteq DOMAIN payouts'
      BY <1>0, <1>1, <1>2 DEF SentInv, TypeOK
  <2>2. ASSUME PayoutMode' = "rpc"
        PROVE  /\ \A v \in DOMAIN payouts' : payouts'[v].signature # << >> =>
                     payouts'[v].signature \in DOMAIN chain' /\ v \in sentFor'[payouts'[v].signature]
               /\ \A v \in DOMAIN payouts' : payouts'[v].status = "CONFIRMED" =>
                     chain'[payouts'[v].signature] = "landed"
    <3>1. PayoutMode = "rpc"
        BY <1>1, <2>2 DEF PayoutMode
    <3>2. \A v \in DOMAIN payouts : payouts[v].status = "CONFIRMED" => payouts[v].signature # << >>
        BY <1>0 DEF SignatureInv
    <3>. QED
        BY <1>0, <1>1, <3>1, <3>2 DEF SentInv
  <2>3. ASSUME PayoutMode' = "rpc", NEW q \in Submitters, NEW v \in DOMAIN submit'[q].image,
               submit'[q].image[v].signature # << >>
        PROVE  /\ submit'[q].image[v].signature \in DOMAIN chain'
               /\ v \in sentFor'[submit'[q].image[v].signature]
    <3>1. PayoutMode = "rpc"
        BY <1>1, <2>3 DEF PayoutMode
    <3>2. CASE q = s /\ v = w
        BY <2>3, <3>1, <3>2
    <3>3. CASE v \in DOMAIN submit[q].image /\ submit'[q].image[v] = submit[q].image[v]
      <4>1. /\ submit[q].image[v].signature \in DOMAIN chain
            /\ v \in sentFor[submit[q].image[v].signature]
          BY <1>0, <2>3, <3>1, <3>3 DEF SentInv
      <4>. QED
          BY <3>3, <4>1
    <3>. QED
        BY <1>5, <3>2, <3>3
  <2>. QED
      BY <2>1, <2>2, <2>3 DEF SentInv
<1>15. SignatureInv'
  <2>1. \A v \in DOMAIN payouts : StubSignature(v)' = StubSignature(v)
      BY DEF StubSignature
  <2>2. \A q \in Submitters : \A v \in DOMAIN submit'[q].image :
            submit'[q].image[v].status = "SUBMITTED" <=> submit'[q].image[v].signature # << >>
    <3>1. w \in DOMAIN submit'[s].image =>
             (submit'[s].image[w].status = "SUBMITTED" <=> submit'[s].image[w].signature # << >>)
        OBVIOUS
    <3>. QED
        BY <1>0, <1>5, <3>1 DEF SignatureInv
  <2>3. ASSUME w \in DOMAIN submit'[s].image, submit'[s].image[w].signature # << >>
        PROVE  /\ \A v \in DOMAIN payouts : payouts[v].signature # submit'[s].image[w].signature
               /\ \A v \in DOMAIN submit[s].image :
                     submit[s].image[v].signature # submit'[s].image[w].signature
    <3>1. ~SignatureTaken(s, submit'[s].image[w].signature)
        BY <2>3
    <3>. QED
        BY <3>1 DEF SignatureTaken
  <2>4. \A q \in Submitters : \A v, u \in DOMAIN submit'[q].image :
            submit'[q].image[v].signature = submit'[q].image[u].signature =>
                v = u \/ submit'[q].image[v].signature = << >>
      BY <1>0, <1>5, <2>3 DEF SignatureInv
  <2>5. \A q \in Submitters : \A v \in DOMAIN payouts, u \in DOMAIN submit'[q].image :
            payouts[v].signature = submit'[q].image[u].signature => payouts[v].signature = << >>
      BY <1>0, <1>5, <2>3 DEF SignatureInv
  <2>. QED
      BY <1>0, <1>1, <2>1, <2>2, <2>4, <2>5 DEF SignatureInv, PayoutMode
<1>. QED
    BY <1>8, <1>9, <1>10, <1>12, <1>13, <1>14, <1>15 DEF IInv

(* The update of one run in the loop leaves the shape of all of them. *)
LEMMA LoopShape ==
    ASSUME ShapeInv, NEW s \in Submitters,
           submit' = [q \in Submitters |-> submit'[q]],
           \A q \in Submitters : q # s => submit'[q] = submit[q],
           NEW todo \in SUBSET Nat, NEW image, NEW pausing \in BOOLEAN,
           submit'[s] \in [pc : {"idle", "sending"}, at : Nat, todo : {todo}, image : {image},
                           pausing : {pausing}]
    PROVE  submit' \in [Submitters -> SubmitRun']
<1>1. ASSUME NEW q \in Submitters PROVE submit'[q] \in SubmitRun'
  <2>1. submit'[q].image \in {submit'[r].image : r \in Submitters}
      OBVIOUS
  <2>2. submit[q] \in SubmitRun
      BY DEF ShapeInv
  <2>3. CASE q = s
      BY <2>1, <2>3 DEF SubmitRun
  <2>4. CASE q # s
      BY <2>1, <2>2, <2>4 DEF SubmitRun
  <2>. QED
      BY <2>3, <2>4
<1>. QED
    BY <1>1

(* What writing a row into the image changes in the run. *)
LEMMA WriteFacts ==
    ASSUME ShapeInv, NEW s \in Submitters, NEW w, NEW row, Write(s, w, row)
    PROVE  /\ submit' \in [Submitters -> SubmitRun']
           /\ \A q \in Submitters : q # s => submit'[q] = submit[q]
           /\ submit'[s].pc = submit[s].pc
           /\ submit'[s].todo = submit[s].todo \ {w}
           /\ DOMAIN submit'[s].image = DOMAIN submit[s].image \cup {w}
           /\ submit'[s].image[w] = row
           /\ \A v \in DOMAIN submit[s].image : v # w => submit'[s].image[v] = submit[s].image[v]
<1>. DEFINE im == submit[s].image
            image == [v \in DOMAIN im \cup {w} |-> IF v = w THEN row ELSE im[v]]
            todo == submit[s].todo \ {w}
<1>1. submit \in [Submitters -> SubmitRun] /\ submit[s] \in SubmitRun
    BY DEF ShapeInv
<1>2. submit' = [submit EXCEPT ![s].todo = todo, ![s].image = image]
    BY DEF Write
<1>3. /\ DOMAIN image = DOMAIN im \cup {w} /\ image[w] = row
      /\ \A v \in DOMAIN im : v # w => image[v] = im[v]
    OBVIOUS
<1>4. todo \in SUBSET Nat /\ submit[s].pausing \in BOOLEAN
    BY <1>1 DEF SubmitRun
<1>. HIDE DEF image, todo
<1>5. /\ submit' = [q \in Submitters |-> submit'[q]]
      /\ \A q \in Submitters : q # s => submit'[q] = submit[q]
    BY <1>1, <1>2
<1>6. submit'[s] = [submit[s] EXCEPT !.todo = todo, !.image = image]
    BY <1>1, <1>2 DEF SubmitRun
<1>7. /\ submit'[s] \in [pc : {"idle", "sending"}, at : Nat, todo : {todo}, image : {image},
                         pausing : {submit[s].pausing}]
      /\ submit'[s].pc = submit[s].pc /\ submit'[s].todo = todo /\ submit'[s].image = image
    BY <1>1, <1>6 DEF SubmitRun
<1>8. submit' \in [Submitters -> SubmitRun']
    BY <1>4, <1>5, <1>7, LoopShape
<1>. QED
    BY <1>3, <1>5, <1>7, <1>8 DEF todo

(* A signature is never the empty column. *)
LEMMA SignatureNonempty ==
    ASSUME NEW w
    PROVE  Signature(w) # << >>
BY DEF Signature

(* SendSPLTransfer returned a signature. *)
LEMMA SendStep ==
    ASSUME IInv, NEW s \in Submitters, NEW w \in Ids, SubmitSend(s, w)
    PROVE  LoopStep(s, w)
<1>. DEFINE sig == Signature(w)
            row == [payouts[w] EXCEPT !.status = "SUBMITTED", !.signature = sig]
<1>0. TypeOK /\ ShapeInv /\ BatchInv
    BY DEF IInv, StatusesAgree
<1>1. /\ w \in submit[s].todo /\ ~SignatureTaken(s, sig) /\ Write(s, w, row)
      /\ IF PayoutMode = "rpc" THEN Broadcast(w, sig) ELSE UNCHANGED <<chain, sentFor>>
      /\ UNCHANGED <<tables, walletLock, process, block, now, aborts, lost, inDoubt>>
    BY DEF SubmitSend, counts
<1>2. lost' \in Nat /\ inDoubt' \in [Ids -> Nat]
    BY <1>0, <1>1 DEF TypeOK, ShapeInv
<1>3. payouts[w] \in PayoutRow
    BY <1>0, <1>1 DEF BatchInv, TypeOK
<1>4. /\ DOMAIN chain \subseteq DOMAIN chain' /\ DOMAIN sentFor' = DOMAIN chain'
      /\ \A t \in DOMAIN chain : chain'[t] = chain[t] /\ sentFor[t] \subseteq sentFor'[t]
      /\ \A t \in DOMAIN chain' :
            /\ chain'[t] \in {"pending", "landed", "failed", "dropped"}
            /\ sentFor'[t] \subseteq {w} \cup (IF t \in DOMAIN chain THEN sentFor[t] ELSE {})
      /\ PayoutMode = "rpc" => sig \in DOMAIN chain' /\ w \in sentFor'[sig]
  <2>. HIDE DEF sig
  <2>1. CASE PayoutMode = "rpc"
    <3>1. Broadcast(w, sig)
        BY <1>1, <2>1
    <3>2. /\ DOMAIN chain' = DOMAIN chain \cup {sig} /\ DOMAIN sentFor' = DOMAIN chain'
          /\ \A t \in DOMAIN chain : chain'[t] = chain[t] /\ sentFor[t] \subseteq sentFor'[t]
          /\ \A t \in DOMAIN chain' : chain'[t] \in {"pending", "landed", "failed", "dropped"}
          /\ w \in sentFor'[sig]
          /\ \A t \in DOMAIN chain' :
                sentFor'[t] \subseteq {w} \cup (IF t \in DOMAIN chain THEN sentFor[t] ELSE {})
        BY <1>0, <3>1, BroadcastFacts
    <3>. QED
        BY <3>2
  <2>2. CASE PayoutMode # "rpc"
      BY <1>0, <1>1, <2>2 DEF TypeOK
  <2>. QED
      BY <2>1, <2>2
<1>5. sig # << >>
    BY SignatureNonempty
<1>6. sig \in DOMAIN chain' \cup ({"stub", "record"} \X Ids)
    BY <1>4 DEF Signature
<1>. HIDE DEF sig
<1>7. row.status = "SUBMITTED" /\ row.signature = sig /\ row \in PayoutRow'
  <2>1. Ids' = Ids
      BY <1>1 DEF tables, Ids
  <2>. QED
      BY <1>3, <1>6, <2>1 DEF PayoutRow
<1>. HIDE DEF row
<1>. QED
    BY <1>0, <1>1, <1>2, <1>4, <1>5, <1>7, WriteFacts DEF LoopStep

(* SendSPLTransfer returned an error, with or without the transaction out. *)
LEMMA SendFailsStep ==
    ASSUME IInv, NEW s \in Submitters, NEW w \in Ids, SubmitSendFails(s, w)
    PROVE  LoopStep(s, w)
<1>. DEFINE todo == submit[s].todo \ {w}
<1>0. TypeOK /\ ShapeInv /\ BatchInv /\ submit \in [Submitters -> SubmitRun] /\ submit[s] \in SubmitRun
    BY DEF IInv, StatusesAgree, ShapeInv
<1>1. /\ w \in submit[s].todo
      /\ submit' = [submit EXCEPT ![s].todo = todo]
      /\ UNCHANGED <<tables, walletLock, process, block, now, aborts>>
    BY DEF SubmitSendFails
<1>2. lost' \in Nat /\ inDoubt' \in [Ids -> Nat]
    BY <1>0 DEF TypeOK, ShapeInv, SubmitSendFails, ghosts
<1>3. /\ DOMAIN chain \subseteq DOMAIN chain' /\ DOMAIN sentFor' = DOMAIN chain'
      /\ \A t \in DOMAIN chain : chain'[t] = chain[t] /\ sentFor[t] \subseteq sentFor'[t]
      /\ \A t \in DOMAIN chain' :
            /\ chain'[t] \in {"pending", "landed", "failed", "dropped"}
            /\ sentFor'[t] \subseteq {w} \cup (IF t \in DOMAIN chain THEN sentFor[t] ELSE {})
  <2>1. CASE UNCHANGED <<chain, sentFor>>
      BY <1>0, <2>1 DEF TypeOK
  <2>2. CASE Broadcast(w, Signature(w))
      BY <1>0, <2>2, BroadcastFacts
  <2>. QED
      BY <2>1, <2>2 DEF SubmitSendFails, ghosts
<1>4. todo \in SUBSET Nat /\ submit[s].pausing \in BOOLEAN
    BY <1>0 DEF SubmitRun
<1>5. w \notin DOMAIN submit[s].image
    BY <1>0, <1>1 DEF BatchInv
<1>6. todo \subseteq submit[s].todo \ {w}
    OBVIOUS
<1>. HIDE DEF todo
<1>7. /\ submit' = [q \in Submitters |-> submit'[q]]
      /\ \A q \in Submitters : q # s => submit'[q] = submit[q]
    BY <1>0, <1>1
<1>8. /\ submit'[s] \in [pc : {"idle", "sending"}, at : Nat, todo : {todo}, image : {submit[s].image},
                         pausing : {submit[s].pausing}]
      /\ submit'[s].pc = submit[s].pc /\ submit'[s].todo = todo /\ submit'[s].image = submit[s].image
    BY <1>0, <1>1 DEF SubmitRun
<1>9. submit' \in [Submitters -> SubmitRun']
    BY <1>0, <1>4, <1>7, <1>8, LoopShape
<1>. QED
    BY <1>1, <1>2, <1>3, <1>5, <1>6, <1>7, <1>8, <1>9 DEF LoopStep

(* ErrRecipientATAMissing: the payout fails without a signature. *)
LEMMA RecipientMissingStep ==
    ASSUME IInv, NEW s \in Submitters, NEW w \in Ids, SubmitRecipientMissing(s, w)
    PROVE  LoopStep(s, w)
<1>. DEFINE row == [payouts[w] EXCEPT !.status = "FAILED"]
<1>0. TypeOK /\ ShapeInv /\ BatchInv /\ SignatureInv
    BY DEF IInv, StatusesAgree
<1>1. /\ w \in submit[s].todo /\ Write(s, w, row)
      /\ UNCHANGED <<tables, walletLock, process, chain, block, now, aborts, lost, sentFor, inDoubt>>
    BY DEF SubmitRecipientMissing, external, counts, ghosts
<1>2. lost' \in Nat /\ inDoubt' \in [Ids -> Nat]
    BY <1>0, <1>1 DEF TypeOK, ShapeInv
<1>3. payouts[w] \in PayoutRow /\ payouts[w].signature = << >>
    BY <1>0, <1>1 DEF BatchInv, TypeOK, SignatureInv
<1>4. /\ DOMAIN sentFor' = DOMAIN chain'
      /\ \A t \in DOMAIN chain' : chain'[t] \in {"pending", "landed", "failed", "dropped"}
    BY <1>0, <1>1 DEF TypeOK
<1>5. row.status = "FAILED" /\ row.signature = << >> /\ row \in PayoutRow'
  <2>1. Ids' = Ids
      BY <1>1 DEF tables, Ids
  <2>. QED
      BY <1>1, <1>3, <2>1 DEF PayoutRow
<1>. HIDE DEF row
<1>. QED
    BY <1>0, <1>1, <1>2, <1>4, <1>5, WriteFacts DEF LoopStep

(* ErrPayoutKeyMissing or ErrPayoutConfig: the rest of the batch is left. *)
LEMMA MisconfiguredStep ==
    ASSUME IInv, NEW s \in Submitters, NEW w \in Ids, SubmitMisconfigured(s, w)
    PROVE  LoopStep(s, w)
<1>0. TypeOK /\ ShapeInv /\ BatchInv /\ submit \in [Submitters -> SubmitRun] /\ submit[s] \in SubmitRun
    BY DEF IInv, StatusesAgree, ShapeInv
<1>1. /\ w \in submit[s].todo
      /\ submit' = [submit EXCEPT ![s].todo = {}, ![s].pausing = TRUE]
      /\ UNCHANGED <<tables, walletLock, process, chain, block, now, aborts, lost, sentFor, inDoubt>>
    BY DEF SubmitMisconfigured, external, counts, ghosts
<1>2. lost' \in Nat /\ inDoubt' \in [Ids -> Nat]
    BY <1>0, <1>1 DEF TypeOK, ShapeInv
<1>3. /\ DOMAIN sentFor' = DOMAIN chain'
      /\ \A t \in DOMAIN chain' : chain'[t] \in {"pending", "landed", "failed", "dropped"}
    BY <1>0, <1>1 DEF TypeOK
<1>4. w \notin DOMAIN submit[s].image
    BY <1>0, <1>1 DEF BatchInv
<1>5. /\ submit' = [q \in Submitters |-> submit'[q]]
      /\ \A q \in Submitters : q # s => submit'[q] = submit[q]
    BY <1>0, <1>1
<1>6. submit'[s] = [submit[s] EXCEPT !.todo = {}, !.pausing = TRUE]
    BY <1>0, <1>1 DEF SubmitRun
<1>7. /\ submit'[s] \in [pc : {"idle", "sending"}, at : Nat, todo : {{}}, image : {submit[s].image},
                         pausing : {TRUE}]
      /\ submit'[s].pc = submit[s].pc /\ submit'[s].todo = {} /\ submit'[s].image = submit[s].image
    BY <1>0, <1>6 DEF SubmitRun
<1>8. submit' \in [Submitters -> SubmitRun']
    BY <1>0, <1>5, <1>7, LoopShape
<1>. QED
    BY <1>1, <1>2, <1>3, <1>4, <1>5, <1>7, <1>8 DEF LoopStep

(* A run locks payouts that are CREATED and takes the hot wallet's row. *)
LEMMA SubmitLockStep ==
    ASSUME IInv, NEW s \in Submitters, SubmitLockBatch(s)
    PROVE  IInv'
<1>0. StatusesAgree /\ TypeOK /\ ShapeInv /\ HeldInv /\ LockInv /\ BatchInv /\ SignatureInv /\ SentInv
    BY DEF IInv, StatusesAgree
<1>1. PICK batch \in SUBSET {w \in DOMAIN payouts : payouts[w].status = "CREATED"} :
          submit' = [submit EXCEPT ![s] = [IdleSubmit EXCEPT !.pc = "sending", !.at = now, !.todo = batch]]
    BY DEF SubmitLockBatch
<1>2. /\ UNCHANGED <<deployment, withdrawals, payouts, paused, process, chain, block, now, aborts, lost,
                     sentFor, inDoubt>>
      /\ submit[s].pc = "idle" /\ walletLock = NoOne /\ ~paused /\ walletLock' = s
    BY DEF SubmitLockBatch, MaySubmit, tables, external, counts, ghosts
<1>3. batch \subseteq Ids /\ batch \subseteq Nat
  <2>1. Ids \subseteq Nat
      BY <1>0, TableFacts
  <2>. QED
      BY <1>0, <2>1 DEF TypeOK
<1>4. submit \in [Submitters -> SubmitRun]
    BY <1>0 DEF ShapeInv
<1>5. /\ submit' = [q \in Submitters |-> submit'[q]]
      /\ \A q \in Submitters : q # s => submit'[q] = submit[q]
      /\ submit'[s] = [IdleSubmit EXCEPT !.pc = "sending", !.at = now, !.todo = batch]
    BY <1>1, <1>4
<1>6. /\ submit'[s] \in [pc : {"idle", "sending"}, at : Nat, todo : {batch}, image : {<< >>},
                         pausing : {FALSE}]
      /\ submit'[s].pc = "sending" /\ submit'[s].todo = batch
      /\ submit'[s].image = << >>
    BY <1>0, <1>5 DEF IdleSubmit, ShapeInv
<1>7. DOMAIN submit'[s].image = {}
    BY <1>6
<1>8. submit' \in [Submitters -> SubmitRun']
    BY <1>0, <1>3, <1>5, <1>6, LoopShape
<1>9. Ids' = Ids /\ PayoutRow' = PayoutRow
    BY <1>2 DEF PayoutRow, Ids
<1>10. \A p \in Processors : Held(p)' = Held(p)
    BY <1>2 DEF Held
<1>11. TypeOK'
  <2>1. \A q \in Submitters :
            /\ submit'[q].todo \cup DOMAIN submit'[q].image \subseteq Ids'
            /\ \A v \in DOMAIN submit'[q].image : submit'[q].image[v] \in PayoutRow'
      BY <1>0, <1>3, <1>5, <1>6, <1>7, <1>9 DEF TypeOK
  <2>. QED
      BY <1>0, <1>2, <1>9, <1>10, <2>1 DEF TypeOK
<1>12. StatusesAgree'
    BY <1>0, <1>2, <1>9, <1>11 DEF StatusesAgree
<1>13. ShapeInv'
  <2>1. ProcessRun' = ProcessRun
      BY <1>2 DEF ProcessRun
  <2>. QED
      BY <1>0, <1>2, <1>8, <2>1 DEF ShapeInv
<1>14. HeldInv'
    BY <1>0, <1>2, <1>9, <1>10 DEF HeldInv
<1>15. LockInv'
  <2>1. NoOne \notin Submitters
      BY PayoutsAssumption
  <2>2. \A q \in Submitters : submit[q].pc # "sending"
      BY <1>0, <1>2, <2>1 DEF LockInv
  <2>3. \A q \in Submitters : submit'[q].pc = "sending" <=> walletLock' = q
      BY <1>2, <1>5, <1>6, <2>2
  <2>4. \A q \in Submitters : submit'[q].pc = "idle" => submit'[q].todo = {} /\ DOMAIN submit'[q].image = {}
      BY <1>0, <1>5, <1>6 DEF LockInv
  <2>. QED
      BY <1>2, <2>3, <2>4 DEF LockInv
<1>16. BatchInv'
  <2>1. \A w \in batch : w \in DOMAIN payouts /\ payouts[w].status = "CREATED"
      OBVIOUS
  <2>2. ASSUME NEW q \in Submitters, q # s
        PROVE  /\ submit'[q] = submit[q]
               /\ \A w \in submit[q].todo : w \in DOMAIN payouts /\ payouts[w].status = "CREATED"
               /\ \A w \in DOMAIN submit[q].image :
                     /\ w \in DOMAIN payouts /\ payouts[w].status = "CREATED"
                     /\ w \notin submit[q].todo
                     /\ submit[q].image[w].status \in {"SUBMITTED", "FAILED"}
      BY <1>0, <1>5, <2>2 DEF BatchInv
  <2>. QED
      BY <1>2, <1>6, <1>7, <2>1, <2>2 DEF BatchInv
<1>17. SignatureInv'
  <2>1. \A q \in Submitters : \A v \in DOMAIN submit'[q].image : q # s /\ submit'[q] = submit[q]
      BY <1>5, <1>7
  <2>. QED
      BY <1>0, <1>2, <2>1 DEF SignatureInv, PayoutMode, StubSignature
<1>18. SentInv'
    BY <1>0, <1>2, <1>5, <1>7 DEF SentInv, PayoutMode
<1>. QED
    BY <1>12, <1>13, <1>14, <1>15, <1>16, <1>17, <1>18 DEF IInv

(* A run that ends without a commit lets go of its batch. *)
LEMMA RollbackStep ==
    ASSUME IInv, NEW s \in Submitters, NEW w, NEW sent, submit[s].pc = "sending",
           SubmitRollback(s, sent),
           UNCHANGED <<chain, sentFor>> \/ (w \in DOMAIN payouts /\ \E sig : Broadcast(w, sig))
    PROVE  IInv'
<1>0. StatusesAgree /\ TypeOK /\ ShapeInv /\ HeldInv /\ LockInv /\ BatchInv /\ SignatureInv /\ SentInv
    BY DEF IInv, StatusesAgree
<1>1. /\ UNCHANGED <<deployment, withdrawals, payouts, paused, process, block, now, lost>>
      /\ walletLock' = NoOne /\ aborts' = aborts + 1
      /\ submit' = [submit EXCEPT ![s] = IdleSubmit]
      /\ inDoubt' = [v \in Ids |-> IF v \in sent THEN inDoubt[v] + 1 ELSE inDoubt[v]]
    BY DEF SubmitRollback, tables
<1>2. /\ DOMAIN chain \subseteq DOMAIN chain' /\ DOMAIN sentFor' = DOMAIN chain'
      /\ \A t \in DOMAIN chain : chain'[t] = chain[t] /\ sentFor[t] \subseteq sentFor'[t]
      /\ \A t \in DOMAIN chain' :
            /\ chain'[t] \in {"pending", "landed", "failed", "dropped"}
            /\ sentFor'[t] \subseteq DOMAIN payouts
  <2>1. CASE UNCHANGED <<chain, sentFor>>
      BY <1>0, <2>1 DEF TypeOK, SentInv
  <2>2. ASSUME w \in DOMAIN payouts, NEW sig, Broadcast(w, sig)
        PROVE  /\ DOMAIN chain \subseteq DOMAIN chain' /\ DOMAIN sentFor' = DOMAIN chain'
               /\ \A t \in DOMAIN chain : chain'[t] = chain[t] /\ sentFor[t] \subseteq sentFor'[t]
               /\ \A t \in DOMAIN chain' :
                     /\ chain'[t] \in {"pending", "landed", "failed", "dropped"}
                     /\ sentFor'[t] \subseteq DOMAIN payouts
    <3>1. \A t \in DOMAIN chain : sentFor[t] \subseteq DOMAIN payouts
        BY <1>0 DEF SentInv, TypeOK
    <3>2. /\ DOMAIN chain' = DOMAIN chain \cup {sig} /\ DOMAIN sentFor' = DOMAIN chain'
          /\ \A t \in DOMAIN chain : chain'[t] = chain[t] /\ sentFor[t] \subseteq sentFor'[t]
          /\ \A t \in DOMAIN chain' : chain'[t] \in {"pending", "landed", "failed", "dropped"}
          /\ w \in sentFor'[sig]
          /\ \A t \in DOMAIN chain' :
                sentFor'[t] \subseteq {w} \cup (IF t \in DOMAIN chain THEN sentFor[t] ELSE {})
        BY <1>0, <2>2, BroadcastFacts
    <3>. QED
        BY <2>2, <3>1, <3>2
  <2>. QED
      BY <2>1, <2>2
<1>3. DOMAIN payouts \subseteq Ids
    BY <1>0 DEF TypeOK
<1>4. submit \in [Submitters -> SubmitRun]
    BY <1>0 DEF ShapeInv
<1>5. /\ submit' = [q \in Submitters |-> submit'[q]]
      /\ \A q \in Submitters : q # s => submit'[q] = submit[q]
      /\ submit'[s] = IdleSubmit
    BY <1>1, <1>4
<1>6. /\ submit'[s] \in [pc : {"idle", "sending"}, at : Nat, todo : {{}}, image : {<< >>},
                         pausing : {FALSE}]
      /\ submit'[s].pc = "idle" /\ submit'[s].todo = {} /\ submit'[s].image = << >>
    BY <1>5 DEF IdleSubmit
<1>7. DOMAIN submit'[s].image = {}
    BY <1>6
<1>8. submit' \in [Submitters -> SubmitRun']
    BY <1>0, <1>5, <1>6, LoopShape
<1>9. Ids' = Ids /\ PayoutRow \subseteq PayoutRow'
    BY <1>1, <1>2 DEF PayoutRow, Ids
<1>10. \A p \in Processors : Held(p)' = Held(p)
    BY <1>1 DEF Held
<1>11. TypeOK'
  <2>1. \A q \in Submitters :
            /\ submit'[q].todo \cup DOMAIN submit'[q].image \subseteq Ids'
            /\ \A v \in DOMAIN submit'[q].image : submit'[q].image[v] \in PayoutRow'
      BY <1>0, <1>5, <1>6, <1>7, <1>9 DEF TypeOK
  <2>2. inDoubt' \in [Ids' -> Nat]
      BY <1>0, <1>1, <1>9 DEF TypeOK
  <2>3. \A t \in DOMAIN chain' : sentFor'[t] \subseteq Ids'
      BY <1>2, <1>3, <1>9
  <2>. QED
      BY <1>0, <1>1, <1>2, <1>9, <1>10, <2>1, <2>2, <2>3 DEF TypeOK
<1>12. StatusesAgree'
    BY <1>0, <1>1, <1>9, <1>11 DEF StatusesAgree
<1>13. ShapeInv'
  <2>1. ProcessRun' = ProcessRun
      BY <1>1 DEF ProcessRun
  <2>. QED
      BY <1>0, <1>1, <1>8, <2>1 DEF ShapeInv
<1>14. HeldInv'
    BY <1>0, <1>1, <1>9, <1>10 DEF HeldInv
<1>15. LockInv'
    BY <1>0, <1>1, <1>5, <1>6, <1>7, PayoutsAssumption DEF LockInv
<1>16. BatchInv'
    BY <1>0, <1>1, <1>5, <1>6, <1>7 DEF BatchInv
<1>17. SignatureInv'
    BY <1>0, <1>1, <1>5, <1>7 DEF SignatureInv, PayoutMode, StubSignature
<1>18. SentInv'
  <2>1. \A v \in DOMAIN payouts : payouts[v].status = "CONFIRMED" => payouts[v].signature # << >>
      BY <1>0 DEF SignatureInv
  <2>. QED
      BY <1>0, <1>1, <1>2, <1>5, <1>7, <2>1 DEF SentInv, PayoutMode
<1>. QED
    BY <1>12, <1>13, <1>14, <1>15, <1>16, <1>17, <1>18 DEF IInv

(* SubmitSolanaPayouts commits: its image replaces CREATED rows, and the   *)
(* withdrawals follow.                                                     *)
LEMMA SubmitCommitStep ==
    ASSUME IInv, NEW s \in Submitters, SubmitCommit(s)
    PROVE  IInv'
<1>. DEFINE image == submit[s].image
            D == DOMAIN image
<1>0. StatusesAgree /\ TypeOK /\ ShapeInv /\ HeldInv /\ LockInv /\ BatchInv /\ SignatureInv /\ SentInv
    BY DEF IInv, StatusesAgree
<1>1. /\ UNCHANGED <<deployment, process, chain, block, now, aborts, lost, sentFor, inDoubt>>
      /\ submit[s].pc = "sending" /\ walletLock' = NoOne /\ paused' = submit[s].pausing
      /\ submit' = [submit EXCEPT ![s] = IdleSubmit]
    BY DEF SubmitCommit, external, counts, ghosts
<1>2. /\ payouts' = [w \in DOMAIN payouts |-> IF w \in D THEN image[w] ELSE payouts[w]]
      /\ withdrawals' = [w \in Ids |->
              IF w \notin D THEN withdrawals[w]
              ELSE IF image[w].status = "FAILED" THEN [withdrawals[w] EXCEPT !.status = "FAILED"]
              ELSE [withdrawals[w] EXCEPT !.status = "SUBMITTED", !.processedAt = submit[s].at]]
    BY DEF SubmitCommit
<1>3. \A w \in D : /\ w \in DOMAIN payouts /\ payouts[w].status = "CREATED" /\ image[w] \in PayoutRow
                   /\ image[w].status \in {"SUBMITTED", "FAILED"}
    BY <1>0 DEF BatchInv, TypeOK
<1>4. submit \in [Submitters -> SubmitRun] /\ submit[s].at \in Nat /\ submit[s].pausing \in BOOLEAN
  <2>1. submit \in [Submitters -> SubmitRun] /\ submit[s] \in SubmitRun
      BY <1>0 DEF ShapeInv
  <2>. QED
      BY <2>1 DEF SubmitRun
<1>. HIDE DEF image, D
<1>5. DOMAIN payouts \subseteq Ids
    BY <1>0 DEF TypeOK
<1>6. /\ DOMAIN payouts' = DOMAIN payouts
      /\ \A w \in D : payouts'[w] = image[w]
      /\ \A w \in DOMAIN payouts \ D : payouts'[w] = payouts[w]
    BY <1>2, <1>3
<1>7. /\ withdrawals' \in Seq(Withdrawal) /\ Ids' = Ids
      /\ \A w \in D : withdrawals'[w].status = image[w].status
      /\ \A w \in Ids \ D : withdrawals'[w] = withdrawals[w]
  <2>1. /\ Len(withdrawals) \in Nat /\ Ids = 1..Len(withdrawals)
        /\ \A w \in Ids : withdrawals[w] \in Withdrawal
      BY <1>0, TableFacts
  <2>2. ASSUME NEW w \in Ids
        PROVE  /\ withdrawals'[w] \in Withdrawal
               /\ w \in D => withdrawals'[w].status = image[w].status
               /\ w \notin D => withdrawals'[w] = withdrawals[w]
    <3>1. withdrawals[w] \in Withdrawal
        BY <2>1
    <3>2. CASE w \notin D
        BY <1>2, <3>1, <3>2
    <3>3. CASE w \in D /\ image[w].status = "FAILED"
      <4>1. withdrawals'[w] = [withdrawals[w] EXCEPT !.status = "FAILED"]
          BY <1>2, <3>3
      <4>. QED
          BY <3>1, <3>3, <4>1 DEF Withdrawal
    <3>4. CASE w \in D /\ image[w].status = "SUBMITTED"
      <4>1. withdrawals'[w] = [withdrawals[w] EXCEPT !.status = "SUBMITTED", !.processedAt = submit[s].at]
          BY <1>2, <3>4
      <4>. QED
          BY <1>4, <3>1, <3>4, <4>1 DEF Withdrawal
    <3>. QED
        BY <1>3, <3>2, <3>3, <3>4
  <2>3. withdrawals' \in [Ids -> Withdrawal]
      BY <1>2, <2>2
  <2>4. withdrawals' \in Seq(Withdrawal) /\ Ids' = Ids
      BY <2>1, <2>3 DEF Ids
  <2>. QED
      BY <1>3, <1>5, <2>2, <2>4
<1>8. /\ submit' = [q \in Submitters |-> submit'[q]]
      /\ \A q \in Submitters : q # s => submit'[q] = submit[q]
      /\ submit'[s] = IdleSubmit
    BY <1>1, <1>4
<1>9. /\ submit'[s] \in [pc : {"idle", "sending"}, at : Nat, todo : {{}}, image : {<< >>},
                         pausing : {FALSE}]
      /\ submit'[s].pc = "idle" /\ submit'[s].todo = {} /\ submit'[s].image = << >>
    BY <1>8 DEF IdleSubmit
<1>10. DOMAIN submit'[s].image = {}
    BY <1>9
<1>11. submit' \in [Submitters -> SubmitRun']
    BY <1>0, <1>8, <1>9, LoopShape
<1>12. PayoutRow' = PayoutRow
    BY <1>1, <1>7 DEF PayoutRow
<1>13. \A p \in Processors : Held(p)' = Held(p)
    BY <1>1 DEF Held
<1>14. NoOne \notin Submitters
    BY PayoutsAssumption
<1>15. \A q \in Submitters : q # s => /\ submit[q].pc # "sending" /\ submit[q].todo = {}
                                      /\ DOMAIN submit[q].image = {}
  <2>1. \A q \in Submitters : submit[q].pc \in {"idle", "sending"}
      BY <1>4 DEF SubmitRun
  <2>. QED
      BY <1>0, <1>1, <2>1 DEF LockInv
<1>16. \A q \in Submitters : /\ submit'[q].pc # "sending" /\ submit'[q].todo = {}
                             /\ DOMAIN submit'[q].image = {}
    BY <1>8, <1>9, <1>10, <1>15
<1>17. TypeOK'
  <2>1. \A w \in DOMAIN payouts' : payouts'[w] \in PayoutRow'
      BY <1>0, <1>3, <1>6, <1>12 DEF TypeOK
  <2>2. paused' \in BOOLEAN
      BY <1>1, <1>4
  <2>. QED
      BY <1>0, <1>1, <1>5, <1>6, <1>7, <1>12, <1>13, <1>16, <2>1, <2>2 DEF TypeOK, Withdrawal
<1>18. StatusesAgree'
  <2>1. \A w \in D : w \in Ids /\ withdrawals[w].status = "PAYOUT_CREATED"
      BY <1>0, <1>3, <1>5 DEF StatusesAgree
  <2>2. DOMAIN payouts' = {w \in Ids' : withdrawals'[w].status \notin
                                          {"QUEUED", "MANUAL_REVIEW", "REJECTED"}}
      BY <1>0, <1>3, <1>6, <1>7, <2>1 DEF StatusesAgree
  <2>3. \A w \in DOMAIN payouts' :
            withdrawals'[w].status = IF payouts'[w].status = "CREATED" THEN "PAYOUT_CREATED"
                                                                       ELSE payouts'[w].status
      BY <1>0, <1>3, <1>5, <1>6, <1>7 DEF StatusesAgree
  <2>. QED
      BY <1>17, <2>2, <2>3 DEF StatusesAgree
<1>19. ShapeInv'
  <2>1. ProcessRun' = ProcessRun
      BY <1>1 DEF ProcessRun
  <2>. QED
      BY <1>0, <1>1, <1>11, <2>1 DEF ShapeInv
<1>20. HeldInv'
  <2>1. \A w \in D : withdrawals[w].status # "QUEUED"
      BY <1>0, <1>3 DEF StatusesAgree
  <2>2. \A p \in Processors : \A w \in Held(p) : w \in Ids /\ withdrawals[w].status = "QUEUED"
      BY <1>0 DEF HeldInv
  <2>3. \A p \in Processors : \A w \in Held(p) : withdrawals'[w] = withdrawals[w]
      BY <1>7, <2>1, <2>2
  <2>. QED
      BY <1>0, <1>7, <1>13, <2>2, <2>3 DEF HeldInv
<1>21. LockInv'
    BY <1>1, <1>14, <1>16 DEF LockInv
<1>22. BatchInv'
    BY <1>16 DEF BatchInv
<1>23. SignatureInv'
  <2>1. \A w \in D : PayoutMode # "stub"
    <3>1. \A w : StubSignature(w) # << >>
        BY DEF StubSignature
    <3>. QED
        BY <1>0, <1>3, <3>1 DEF SignatureInv
  <2>2. /\ \A w \in D : image[w].status = "SUBMITTED" <=> image[w].signature # << >>
        /\ \A v, w \in D : image[v].signature = image[w].signature => v = w \/ image[v].signature = << >>
        /\ \A v \in DOMAIN payouts, w \in D :
              payouts[v].signature = image[w].signature => payouts[v].signature = << >>
      BY <1>0 DEF SignatureInv, image, D
  <2>3. PayoutMode' = PayoutMode /\ \A w : StubSignature(w)' = StubSignature(w)
      BY <1>1 DEF PayoutMode, StubSignature
  <2>4. \A v \in DOMAIN payouts :
            /\ payouts'[v].status = "CREATED" => payouts'[v].signature = << >>
            /\ payouts'[v].status \in {"SUBMITTED", "CONFIRMED"} => payouts'[v].signature # << >>
            /\ PayoutMode = "stub" => payouts'[v].signature = StubSignature(v)
      BY <1>0, <1>3, <1>6, <2>1, <2>2 DEF SignatureInv
  <2>5. \A v, w \in DOMAIN payouts :
            payouts'[v].signature = payouts'[w].signature => v = w \/ payouts'[v].signature = << >>
      BY <1>0, <1>6, <2>2 DEF SignatureInv
  <2>. QED
      BY <1>6, <1>16, <2>3, <2>4, <2>5 DEF SignatureInv
<1>24. SentInv'
  <2>1. PayoutMode' = PayoutMode
      BY <1>1 DEF PayoutMode
  <2>2. \A sig \in DOMAIN sentFor' : sentFor'[sig] \subseteq DOMAIN payouts'
      BY <1>0, <1>1, <1>6 DEF SentInv
  <2>3. PayoutMode = "rpc" => \A w \in D : image[w].signature # << >> =>
            image[w].signature \in DOMAIN chain /\ w \in sentFor[image[w].signature]
      BY <1>0 DEF SentInv, image, D
  <2>4. PayoutMode = "rpc" => \A w \in DOMAIN payouts : payouts'[w].signature # << >> =>
            payouts'[w].signature \in DOMAIN chain' /\ w \in sentFor'[payouts'[w].signature]
      BY <1>0, <1>1, <1>6, <2>3 DEF SentInv
  <2>5. PayoutMode = "rpc" => \A w \in DOMAIN payouts : payouts'[w].status = "CONFIRMED" =>
            chain'[payouts'[w].signature] = "landed"
      BY <1>0, <1>1, <1>3, <1>6 DEF SentInv
  <2>. QED
      BY <1>6, <1>16, <2>1, <2>2, <2>4, <2>5 DEF SentInv
<1>. QED
    BY <1>18, <1>19, <1>20, <1>21, <1>22, <1>23, <1>24 DEF IInv

(* ConfirmSolanaPayouts moves SUBMITTED rows of both tables alike: those   *)
(* whose transfer landed are confirmed, those whose transfer failed fail.  *)
LEMMA ConfirmStep ==
    ASSUME IInv, ConfirmPayouts
    PROVE  IInv'
<1>0. StatusesAgree /\ TypeOK /\ ShapeInv /\ HeldInv /\ LockInv /\ BatchInv /\ SignatureInv /\ SentInv
    BY DEF IInv, StatusesAgree
<1>. DEFINE open == {w \in DOMAIN payouts : payouts[w].status = "SUBMITTED"}
            landed(batch) == {w \in batch : Outcome(payouts[w].signature) = "landed"}
            failed(batch) == {w \in batch : Outcome(payouts[w].signature) = "failed"}
            new(batch, w, old) == IF w \in landed(batch) THEN "CONFIRMED"
                                  ELSE IF w \in failed(batch) THEN "FAILED" ELSE old
<1>1. PICK batch \in SUBSET open :
          /\ payouts' = [w \in DOMAIN payouts |->
                [payouts[w] EXCEPT !.status = new(batch, w, payouts[w].status)]]
          /\ withdrawals' = [w \in Ids |->
                [withdrawals[w] EXCEPT !.status = new(batch, w, withdrawals[w].status)]]
          /\ UNCHANGED <<deployment, paused, walletLock, process, submit, external, counts, ghosts>>
    BY DEF ConfirmPayouts
<1>2. UNCHANGED <<deployment, paused, walletLock, process, submit, chain, block, now, aborts, lost,
                  sentFor, inDoubt>>
    BY <1>1 DEF external, counts, ghosts
<1>3. DOMAIN payouts \subseteq Ids /\ \A w \in DOMAIN payouts : payouts[w] \in PayoutRow
    BY <1>0 DEF TypeOK
<1>. DEFINE L == landed(batch)
            F == failed(batch)
            M == L \cup F
            st(w) == IF w \in L THEN "CONFIRMED" ELSE "FAILED"
<1>4. \A w \in M : w \in DOMAIN payouts /\ payouts[w].status = "SUBMITTED"
    OBVIOUS
<1>5. \A w \in L : Outcome(payouts[w].signature) = "landed"
    OBVIOUS
<1>6. /\ payouts' = [w \in DOMAIN payouts |->
            [payouts[w] EXCEPT !.status = IF w \in M THEN st(w) ELSE payouts[w].status]]
      /\ withdrawals' = [w \in Ids |->
            [withdrawals[w] EXCEPT !.status = IF w \in M THEN st(w) ELSE withdrawals[w].status]]
    BY <1>1
<1>7. \A w : st(w) \in {"CONFIRMED", "FAILED"}
    OBVIOUS
<1>8. \A w : st(w) = "CONFIRMED" => w \in L
    OBVIOUS
<1>. HIDE DEF L, M, st
<1>9. /\ DOMAIN payouts' = DOMAIN payouts
      /\ \A w \in M : payouts'[w].status = st(w) /\ payouts'[w].signature = payouts[w].signature
      /\ \A w \in DOMAIN payouts \ M : payouts'[w] = payouts[w]
      /\ \A w \in DOMAIN payouts : payouts'[w] \in PayoutRow
  <2>1. DOMAIN payouts' = DOMAIN payouts
      BY <1>6
  <2>2. ASSUME NEW w \in M
        PROVE  /\ payouts'[w].status = st(w) /\ payouts'[w].signature = payouts[w].signature
               /\ payouts'[w] \in PayoutRow
    <3>1. payouts'[w] = [payouts[w] EXCEPT !.status = st(w)] /\ payouts[w] \in PayoutRow
        BY <1>3, <1>4, <1>6
    <3>. QED
        BY <1>7, <3>1 DEF PayoutRow
  <2>3. ASSUME NEW w \in DOMAIN payouts \ M PROVE payouts'[w] = payouts[w]
    <3>1. payouts'[w] = [payouts[w] EXCEPT !.status = payouts[w].status] /\ payouts[w] \in PayoutRow
        BY <1>3, <1>6
    <3>. QED
        BY <3>1 DEF PayoutRow
  <2>. QED
      BY <1>3, <2>1, <2>2, <2>3
<1>10. /\ withdrawals' \in Seq(Withdrawal) /\ Ids' = Ids
       /\ \A w \in M : withdrawals'[w].status = st(w)
       /\ \A w \in Ids \ M : withdrawals'[w] = withdrawals[w]
  <2>1. /\ Len(withdrawals) \in Nat /\ Ids = 1..Len(withdrawals)
        /\ \A w \in Ids : withdrawals[w] \in Withdrawal
      BY <1>0, TableFacts
  <2>2. ASSUME NEW w \in Ids
        PROVE  /\ withdrawals'[w] \in Withdrawal
               /\ w \in M => withdrawals'[w].status = st(w)
               /\ w \notin M => withdrawals'[w] = withdrawals[w]
    <3>1. withdrawals[w] \in Withdrawal
        BY <2>1
    <3>2. CASE w \in M
      <4>1. withdrawals'[w] = [withdrawals[w] EXCEPT !.status = st(w)]
          BY <1>6, <3>2
      <4>. QED
          BY <1>7, <3>1, <3>2, <4>1 DEF Withdrawal
    <3>3. CASE w \notin M
      <4>1. withdrawals'[w] = [withdrawals[w] EXCEPT !.status = withdrawals[w].status]
          BY <1>6, <3>3
      <4>. QED
          BY <3>1, <3>3, <4>1 DEF Withdrawal
    <3>. QED
        BY <3>2, <3>3
  <2>3. withdrawals' \in [Ids -> Withdrawal]
      BY <1>6, <2>2
  <2>4. withdrawals' \in Seq(Withdrawal) /\ Ids' = Ids
      BY <2>1, <2>3 DEF Ids
  <2>. QED
      BY <1>3, <1>4, <2>2, <2>4
<1>11. PayoutRow' = PayoutRow
    BY <1>2, <1>10 DEF PayoutRow
<1>12. \A p \in Processors : Held(p)' = Held(p)
    BY <1>2 DEF Held
<1>13. TypeOK'
    BY <1>0, <1>2, <1>3, <1>9, <1>10, <1>11, <1>12 DEF TypeOK, Withdrawal
<1>14. \A w \in M : w \in Ids /\ withdrawals[w].status = "SUBMITTED"
    BY <1>0, <1>3, <1>4 DEF StatusesAgree
<1>15. StatusesAgree'
  <2>1. DOMAIN payouts' = {w \in Ids' : withdrawals'[w].status \notin
                                          {"QUEUED", "MANUAL_REVIEW", "REJECTED"}}
      BY <1>0, <1>4, <1>7, <1>9, <1>10, <1>14 DEF StatusesAgree
  <2>2. \A w \in DOMAIN payouts' :
            withdrawals'[w].status = IF payouts'[w].status = "CREATED" THEN "PAYOUT_CREATED"
                                                                       ELSE payouts'[w].status
      BY <1>0, <1>3, <1>7, <1>9, <1>10 DEF StatusesAgree
  <2>. QED
      BY <1>13, <2>1, <2>2 DEF StatusesAgree
<1>16. ShapeInv' /\ LockInv'
    BY <1>0, <1>2 DEF ShapeInv, ProcessRun, SubmitRun, LockInv
<1>17. HeldInv'
  <2>1. \A p \in Processors : \A w \in Held(p) : w \in Ids /\ withdrawals'[w] = withdrawals[w]
      BY <1>0, <1>10, <1>14 DEF HeldInv
  <2>. QED
      BY <1>0, <1>10, <1>12, <2>1 DEF HeldInv
<1>18. BatchInv'
  <2>1. \A w \in DOMAIN payouts : payouts[w].status = "CREATED" => payouts'[w] = payouts[w]
      BY <1>4, <1>9
  <2>. QED
      BY <1>0, <1>2, <1>9, <2>1 DEF BatchInv
<1>19. \A w \in DOMAIN payouts : payouts'[w].signature = payouts[w].signature
    BY <1>9
<1>20. SignatureInv'
  <2>1. \A w \in DOMAIN payouts :
            /\ payouts'[w].status = "CREATED" => payouts[w].status = "CREATED"
            /\ payouts'[w].status \in {"SUBMITTED", "CONFIRMED"} =>
                  payouts[w].status \in {"SUBMITTED", "CONFIRMED"}
      BY <1>4, <1>7, <1>9
  <2>2. PayoutMode' = PayoutMode /\ \A w : StubSignature(w)' = StubSignature(w)
      BY <1>2 DEF PayoutMode, StubSignature
  <2>. QED
      BY <1>0, <1>2, <1>9, <1>19, <2>1, <2>2 DEF SignatureInv
<1>21. SentInv'
  <2>1. PayoutMode' = PayoutMode
      BY <1>2 DEF PayoutMode
  <2>2. ASSUME PayoutMode = "rpc", NEW w \in DOMAIN payouts, payouts'[w].status = "CONFIRMED"
        PROVE  chain[payouts[w].signature] = "landed"
    <3>1. CASE w \in M
      <4>1. Outcome(payouts[w].signature) = "landed"
          BY <1>5, <1>8, <1>9, <2>2, <3>1
      <4>2. RpcEnabled
          BY <1>0, <2>2, PayoutsAssumption DEF ShapeInv, RpcEnabled, PayoutMode
      <4>. QED
          BY <4>1, <4>2 DEF Outcome
    <3>2. CASE w \notin M
        BY <1>0, <1>9, <2>2, <3>2 DEF SentInv
    <3>. QED
        BY <3>1, <3>2
  <2>. QED
      BY <1>0, <1>2, <1>9, <1>19, <2>1, <2>2 DEF SentInv
<1>. QED
    BY <1>15, <1>16, <1>17, <1>18, <1>20, <1>21 DEF IInv

-----------------------------------------------------------------------------
(* Every step keeps the invariant. *)
LEMMA NextIInv == IInv /\ [Next]_vars => IInv'
<1>. SUFFICES ASSUME IInv, [Next]_vars PROVE IInv'
    OBVIOUS
<1>1. CASE \E a \in Accounts, amount \in Amounts : CreateWithdrawal(a, amount)
    BY <1>1, CreateStep
<1>2. CASE \E w \in Ids, approve \in BOOLEAN : ReviewWithdrawal(w, approve)
    BY <1>2, ReviewStep
<1>3. CASE \E value \in BOOLEAN : SetHotWalletPayoutsPaused(value)
    BY <1>3, PauseAndClockSteps
<1>4. ASSUME NEW p \in Processors, ProcessSteps(p) \/ ProcessAbort(p) PROVE IInv'
    BY <1>4, ProcessReadSteps, ProcessCommitStep DEF ProcessSteps
<1>5. ASSUME NEW s \in Submitters, SubmitSteps(s) \/ SubmitPauses(s) \/ SubmitAbort(s) PROVE IInv'
  <2>1. CASE SubmitLockBatch(s)
      BY <2>1, SubmitLockStep
  <2>2. ASSUME NEW w \in Ids, \/ SubmitSend(s, w) \/ SubmitSendFails(s, w)
                              \/ SubmitRecipientMissing(s, w) \/ SubmitMisconfigured(s, w)
        PROVE  IInv'
    <3>1. LoopStep(s, w)
        BY <2>2, SendStep, SendFailsStep, RecipientMissingStep, MisconfiguredStep
    <3>. QED
        BY <3>1, LoopStepInv
  <2>3. ASSUME NEW w \in Ids, SubmitDuplicate(s, w) PROVE IInv'
    <3>1. /\ w \in submit[s].todo /\ Broadcast(w, Signature(w))
          /\ SubmitRollback(s, SentBy(s) \cup {w})
        BY <2>3 DEF SubmitDuplicate
    <3>2. submit[s].pc = "sending" /\ w \in DOMAIN payouts
      <4>1. submit[s].pc \in {"idle", "sending"}
          BY DEF IInv, ShapeInv, SubmitRun
      <4>. QED
          BY <3>1, <4>1 DEF IInv, LockInv, BatchInv
    <3>. QED
        BY <3>1, <3>2, RollbackStep
  <2>4. CASE SubmitCommit(s)
      BY <2>4, SubmitCommitStep
  <2>5. CASE SubmitPauses(s)
      BY <2>5, PauseAndClockSteps
  <2>6. CASE SubmitAbort(s)
    <3>1. /\ submit[s].pc = "sending" /\ SubmitRollback(s, SentBy(s)) /\ UNCHANGED <<chain, sentFor>>
        BY <2>6 DEF SubmitAbort
    <3>. QED
        BY <3>1, RollbackStep
  <2>. QED
      BY <1>5, <2>1, <2>2, <2>3, <2>4, <2>5, <2>6 DEF SubmitSteps
<1>6. CASE ConfirmPayouts
    BY <1>6, ConfirmStep
<1>7. CASE \E sig \in DOMAIN chain, result \in {"landed", "failed", "dropped"} : Resolve(sig, result)
    BY <1>7, ResolveStep
<1>8. CASE NewBlock \/ Tick
    BY <1>8, PauseAndClockSteps
<1>9. CASE UNCHANGED vars
  <2>1. UNCHANGED <<deployment, withdrawals, payouts, paused, walletLock, process, submit, chain, block,
                    now, aborts, lost, sentFor, inDoubt>>
      BY <1>9 DEF vars, tables, external, counts, ghosts
  <2>2. /\ paused \in BOOLEAN /\ block \in Nat /\ now \in Nat /\ aborts \in Nat /\ lost \in Nat
        /\ walletLock # NoOne => ~paused
      BY DEF IInv, StatusesAgree, TypeOK, ShapeInv, LockInv
  <2>. QED
      BY <2>1, <2>2, QuietStep
<1>. QED
    BY <1>1, <1>2, <1>3, <1>4, <1>5, <1>6, <1>7, <1>8, <1>9 DEF Next

(* The inductive invariant holds of every behaviour. *)
LEMMA SpecIInv == Spec => []IInv
BY InitIInv, NextIInv, PTL DEF Spec

(* The withdrawals and solana_payouts tables tell one story, however the   *)
(* review and the three jobs interleave, abort and overlap.                *)
THEOREM TablesAlwaysAgree == Spec => []StatusesAgree
<1>1. IInv => StatusesAgree
    BY DEF IInv
<1>. QED
    BY <1>1, SpecIInv, PTL

(* A confirmed payout of ConfirmSolanaPayouts has a landed transfer of its *)
(* own, for any number of overlapping submit runs.                         *)
THEOREM ConfirmedAlwaysPaid == Spec => []ConfirmedIsPaid
<1>1. IInv => ConfirmedIsPaid
  <2>. SUFFICES ASSUME IInv, PayoutMode = "rpc" PROVE ConfirmedIsPaid
      BY DEF ConfirmedIsPaid
  <2>1. ASSUME NEW w \in DOMAIN payouts, payouts[w].status = "CONFIRMED"
        PROVE  /\ payouts[w].signature # << >>
               /\ payouts[w].signature \in DOMAIN chain
               /\ chain[payouts[w].signature] = "landed"
               /\ w \in sentFor[payouts[w].signature]
    <3>1. payouts[w].signature # << >>
        BY <2>1 DEF IInv, SignatureInv
    <3>. QED
        BY <2>1, <3>1 DEF IInv, SentInv
  <2>2. \A v, w \in DOMAIN payouts :
            payouts[v].signature = payouts[w].signature => v = w \/ payouts[v].signature = << >>
      BY DEF IInv, SignatureInv
  <2>. QED
      BY <2>1, <2>2 DEF ConfirmedIsPaid
<1>. QED
    BY <1>1, SpecIInv, PTL

(* SubmitSolanaPayouts keeps the hot wallet's row locked while it sends,   *)
(* so a pause that SetHotWalletPayoutsPaused reported stops every send.    *)
THEOREM PauseAlwaysStopsSends == Spec => PauseStopsSends
<1>1. IInv /\ [Next]_vars => [sentFor' # sentFor => ~paused]_vars
  <2>. SUFFICES ASSUME IInv, Next, sentFor' # sentFor PROVE ~paused
      OBVIOUS
  <2>1. PICK s \in Submitters : submit[s].todo # {}
    <3>1. ASSUME NEW s \in Submitters, SubmitSteps(s) PROVE submit[s].todo # {}
        BY <3>1 DEF SubmitSteps, SubmitLockBatch, SubmitSend, SubmitSendFails, SubmitRecipientMissing,
                    SubmitMisconfigured, SubmitDuplicate, SubmitCommit, ghosts
    <3>. QED
        BY <3>1 DEF Next, CreateWithdrawal, ReviewWithdrawal, SetHotWalletPayoutsPaused, ProcessSteps,
                    ProcessStart, ProcessReadBudget, ProcessLockBatch, ProcessCommit, ProcessAbort,
                    SubmitPauses, SubmitAbort, ConfirmPayouts, Resolve, NewBlock, Tick, ghosts
  <2>2. submit[s].pc \in {"idle", "sending"}
      BY DEF IInv, ShapeInv, SubmitRun
  <2>3. walletLock = s /\ s # NoOne
      BY <2>1, <2>2, PayoutsAssumption DEF IInv, LockInv
  <2>. QED
      BY <2>3 DEF IInv, LockInv
<1>. QED
    BY <1>1, SpecIInv, PTL DEF Spec, PauseStopsSends

-----------------------------------------------------------------------------
(* The status column, which is what the lifecycle is about. *)
Statuses == [w \in Ids |-> withdrawals[w].status]

(* Every step is a request, or a set of moves the lifecycle allows. *)
LEMMA StepRefines ==
    ASSUME IInv, IInv', [Next]_vars
    PROVE  [Lifecycle!WNext]_Statuses
<1>0. StatusesAgree /\ TypeOK /\ ShapeInv /\ HeldInv /\ LockInv /\ BatchInv /\ SignatureInv /\ SentInv
    BY DEF IInv, StatusesAgree
<1>1. ASSUME withdrawals' = withdrawals PROVE [Lifecycle!WNext]_Statuses
    BY <1>1 DEF Statuses, Ids
<1>2. ASSUME Ids' = Ids,
             \A w \in Ids : withdrawals'[w].status # withdrawals[w].status =>
                <<withdrawals[w].status, withdrawals'[w].status>> \in Lifecycle!Moves
      PROVE  Lifecycle!WNext
  <2>1. DOMAIN Statuses = Ids /\ DOMAIN Statuses' = Ids
      BY <1>2 DEF Statuses
  <2>2. \A w \in Ids : Statuses[w] = withdrawals[w].status /\ Statuses'[w] = withdrawals'[w].status
      BY <1>2 DEF Statuses
  <2>3. \A w \in DOMAIN Statuses : Statuses'[w] # Statuses[w] =>
            <<Statuses[w], Statuses'[w]>> \in Lifecycle!Moves
      BY <1>2, <2>1, <2>2
  <2>. QED
      BY <2>1, <2>3 DEF Lifecycle!WNext, Lifecycle!Advance, Statuses
<1>3. ASSUME NEW a \in Accounts, NEW amount \in Amounts, CreateWithdrawal(a, amount)
      PROVE  Lifecycle!WNext
  <2>. DEFINE row == [account |-> a, amount |-> amount, processedAt |-> Never,
                      status |-> IF amount > SingleMax THEN "MANUAL_REVIEW" ELSE "QUEUED"]
  <2>1. withdrawals' = Append(withdrawals, row)
      BY <1>3 DEF CreateWithdrawal
  <2>2. row.status \in Lifecycle!Entry
      BY DEF Lifecycle!Entry
  <2>. HIDE DEF row
  <2>3. withdrawals \in Seq(Withdrawal) /\ Len(withdrawals) \in Nat /\ Ids = 1..Len(withdrawals)
      BY <1>0, TableFacts
  <2>4. /\ Ids' = 1..(Len(withdrawals) + 1)
        /\ \A w \in Ids : withdrawals'[w] = withdrawals[w]
        /\ withdrawals'[Len(withdrawals) + 1] = row
      BY <2>1, <2>3 DEF Ids
  <2>5. Statuses = [w \in 1..Len(withdrawals) |-> withdrawals[w].status]
      BY <2>3 DEF Statuses
  <2>6. Statuses' = [w \in 1..(Len(withdrawals) + 1) |-> withdrawals'[w].status]
      BY <2>4 DEF Statuses
  <2>7. Statuses \in Seq({"QUEUED", "MANUAL_REVIEW", "REJECTED", "PAYOUT_CREATED",
                          "SUBMITTED", "CONFIRMED", "FAILED"}) /\ Len(Statuses) = Len(withdrawals)
    <3>1. \A w \in Ids : withdrawals[w].status \in
              {"QUEUED", "MANUAL_REVIEW", "REJECTED", "PAYOUT_CREATED", "SUBMITTED", "CONFIRMED", "FAILED"}
        BY <1>0, TableFacts DEF Withdrawal
    <3>. QED
        BY <2>3, <2>5, <3>1
  <2>8. Statuses' = Append(Statuses, row.status)
      BY <2>3, <2>4, <2>5, <2>6, <2>7
  <2>. QED
      BY <2>2, <2>8 DEF Lifecycle!WNext, Lifecycle!Request, Statuses
<1>4. ASSUME NEW w \in Ids, NEW approve \in BOOLEAN, ReviewWithdrawal(w, approve)
      PROVE  Lifecycle!WNext
  <2>. DEFINE new == IF approve THEN "QUEUED" ELSE "REJECTED"
  <2>1. /\ withdrawals[w].status = "MANUAL_REVIEW"
        /\ withdrawals' = [withdrawals EXCEPT ![w] = [withdrawals[w] EXCEPT !.status = new]]
      BY <1>4 DEF ReviewWithdrawal
  <2>2. Ids' = Ids /\ \A v \in Ids : v # w => withdrawals'[v] = withdrawals[v]
      BY <2>1 DEF Ids
  <2>3. withdrawals[w] \in Withdrawal /\ w \in DOMAIN withdrawals
      BY <1>0, TableFacts DEF Ids
  <2>4. withdrawals'[w].status \in {"QUEUED", "REJECTED"}
      BY <2>1, <2>3 DEF Withdrawal
  <2>. QED
      BY <1>2, <2>1, <2>2, <2>4 DEF Lifecycle!Moves
<1>5. ASSUME NEW p \in Processors, ProcessCommit(p) PROVE Lifecycle!WNext
  <2>. DEFINE verdict == Verdicts(p)
              granted == {w \in Held(p) : verdict[w] = "GRANTED"}
              at == process[p].at
              status == IF PayoutMode = "stub" THEN "CONFIRMED" ELSE "PAYOUT_CREATED"
  <2>1. withdrawals' = [w \in Ids |->
              IF w \in granted
              THEN [withdrawals[w] EXCEPT !.status = status, !.processedAt = at]
              ELSE IF w \in Held(p) THEN [withdrawals[w] EXCEPT !.status = verdict[w]]
              ELSE withdrawals[w]]
      BY <1>5 DEF ProcessCommit
  <2>2. \A w \in Held(p) : verdict[w] \in {"MANUAL_REVIEW", "QUEUED", "GRANTED"}
      BY VerdictFacts
  <2>3. \A w \in Held(p) : withdrawals[w].status = "QUEUED"
      BY <1>0 DEF HeldInv
  <2>4. status \in {"CONFIRMED", "PAYOUT_CREATED"}
      OBVIOUS
  <2>5. granted \subseteq Held(p) /\ \A w \in Held(p) \ granted : verdict[w] \in {"MANUAL_REVIEW", "QUEUED"}
      BY <2>2
  <2>. HIDE DEF verdict, granted, at, status
  <2>6. Ids' = Ids
      BY <2>1 DEF Ids
  <2>7. ASSUME NEW w \in Ids, withdrawals'[w].status # withdrawals[w].status
        PROVE  <<withdrawals[w].status, withdrawals'[w].status>> \in Lifecycle!Moves
    <3>1. withdrawals[w] \in Withdrawal
        BY <1>0, TableFacts
    <3>2. CASE w \in granted
      <4>1. withdrawals'[w] = [withdrawals[w] EXCEPT !.status = status, !.processedAt = at]
          BY <2>1, <3>2
      <4>2. withdrawals'[w].status = status
          BY <3>1, <4>1 DEF Withdrawal
      <4>. QED
          BY <2>3, <2>4, <2>5, <3>2, <4>2 DEF Lifecycle!Moves
    <3>3. CASE w \in Held(p) \ granted
      <4>1. withdrawals'[w] = [withdrawals[w] EXCEPT !.status = verdict[w]]
          BY <2>1, <3>3
      <4>2. withdrawals'[w].status = verdict[w]
          BY <3>1, <4>1 DEF Withdrawal
      <4>. QED
          BY <2>3, <2>5, <2>7, <3>3, <4>2 DEF Lifecycle!Moves
    <3>4. CASE w \notin Held(p)
        BY <2>1, <2>5, <2>7, <3>4
    <3>. QED
        BY <3>2, <3>3, <3>4
  <2>. QED
      BY <1>2, <2>6, <2>7
<1>6. ASSUME NEW s \in Submitters, SubmitCommit(s) PROVE Lifecycle!WNext
  <2>. DEFINE image == submit[s].image
  <2>1. withdrawals' = [w \in Ids |->
              IF w \notin DOMAIN image THEN withdrawals[w]
              ELSE IF image[w].status = "FAILED" THEN [withdrawals[w] EXCEPT !.status = "FAILED"]
              ELSE [withdrawals[w] EXCEPT !.status = "SUBMITTED", !.processedAt = submit[s].at]]
      BY <1>6 DEF SubmitCommit
  <2>2. \A w \in DOMAIN image : withdrawals[w].status = "PAYOUT_CREATED"
      BY <1>0 DEF BatchInv, StatusesAgree
  <2>. HIDE DEF image
  <2>3. Ids' = Ids
      BY <2>1 DEF Ids
  <2>4. ASSUME NEW w \in Ids, withdrawals'[w].status # withdrawals[w].status
        PROVE  <<withdrawals[w].status, withdrawals'[w].status>> \in Lifecycle!Moves
    <3>1. withdrawals[w] \in Withdrawal /\ w \in DOMAIN image
        BY <1>0, <2>1, <2>4, TableFacts
    <3>2. withdrawals'[w].status \in {"SUBMITTED", "FAILED"}
        BY <2>1, <3>1 DEF Withdrawal
    <3>. QED
        BY <2>2, <3>1, <3>2 DEF Lifecycle!Moves
  <2>. QED
      BY <1>2, <2>3, <2>4
<1>7. ASSUME ConfirmPayouts PROVE Lifecycle!WNext
  <2>1. Ids' = Ids
      BY <1>7 DEF ConfirmPayouts, Ids
  <2>2. ASSUME NEW w \in Ids, withdrawals'[w].status # withdrawals[w].status
        PROVE  <<withdrawals[w].status, withdrawals'[w].status>> \in Lifecycle!Moves
    <3>1. withdrawals[w] \in Withdrawal
        BY <1>0, TableFacts
    <3>2. \/ withdrawals'[w] = [withdrawals[w] EXCEPT !.status = withdrawals[w].status]
          \/ /\ w \in DOMAIN payouts /\ payouts[w].status = "SUBMITTED"
             /\ \/ withdrawals'[w] = [withdrawals[w] EXCEPT !.status = "CONFIRMED"]
                \/ withdrawals'[w] = [withdrawals[w] EXCEPT !.status = "FAILED"]
        BY <1>7 DEF ConfirmPayouts
    <3>3. /\ w \in DOMAIN payouts /\ payouts[w].status = "SUBMITTED"
          /\ withdrawals'[w].status \in {"CONFIRMED", "FAILED"}
        BY <2>2, <3>1, <3>2 DEF Withdrawal
    <3>4. withdrawals[w].status = "SUBMITTED"
        BY <1>0, <3>3 DEF StatusesAgree
    <3>. QED
        BY <3>3, <3>4 DEF Lifecycle!Moves
  <2>. QED
      BY <1>2, <2>1, <2>2
<1>8. ASSUME NEW p \in Processors, ProcessSteps(p) \/ ProcessAbort(p) PROVE [Lifecycle!WNext]_Statuses
    BY <1>1, <1>5, <1>8 DEF ProcessSteps, ProcessStart, ProcessReadBudget, ProcessLockBatch, ProcessAbort, tables
<1>9. ASSUME NEW s \in Submitters, SubmitSteps(s) \/ SubmitPauses(s) \/ SubmitAbort(s)
      PROVE  [Lifecycle!WNext]_Statuses
    BY <1>1, <1>6, <1>9 DEF SubmitSteps, SubmitLockBatch, SubmitSend, SubmitSendFails,
          SubmitRecipientMissing, SubmitMisconfigured, SubmitDuplicate, SubmitRollback, SubmitAbort,
          SubmitPauses, tables
<1>10. ASSUME \/ \E value \in BOOLEAN : SetHotWalletPayoutsPaused(value)
              \/ \E sig \in DOMAIN chain, result \in {"landed", "failed", "dropped"} : Resolve(sig, result)
              \/ NewBlock \/ Tick \/ UNCHANGED vars
       PROVE  [Lifecycle!WNext]_Statuses
    BY <1>1, <1>10 DEF SetHotWalletPayoutsPaused, Resolve, NewBlock, Tick, vars, tables
<1>. QED
    BY <1>3, <1>4, <1>7, <1>8, <1>9, <1>10 DEF Next

(* The review and the jobs implement the lifecycle a withdrawal is         *)
(* promised: a rejected one is over, and one that left the queue is never  *)
(* reviewed, rejected or queued again.                                     *)
THEOREM LifecycleImplemented == Spec => ImplementsLifecycle
<1>1. Init => Lifecycle!WInit
    BY DEF Init, Lifecycle!WInit, Ids
<1>2. IInv /\ IInv' /\ [Next]_vars => [Lifecycle!WNext]_Statuses
    BY StepRefines
<1>. QED
    BY <1>1, <1>2, SpecIInv, PTL DEF Spec, ImplementsLifecycle, Lifecycle!WSpec, Statuses

-----------------------------------------------------------------------------
(* A row, committed or in the image of a run, tells of a send for w. *)
Recorded(w) ==
    \/ w \in DOMAIN payouts /\ payouts[w].signature # << >>
    \/ \E s \in Submitters : /\ w \in DOMAIN submit[s].image
                             /\ submit[s].image[w].signature # << >>

DoubtInv ==
    /\ IsFiniteSet(DOMAIN sentFor)
    /\ \A w \in Ids : Cardinality(SentFor(w)) <= inDoubt[w] + (IF Recorded(w) THEN 1 ELSE 0)

(* How a step may change what was sent for w: not at all, and the record   *)
(* of it stays or becomes a doubt; or by one transaction, which a row      *)
(* starts to record or which is in doubt.                                  *)
Accounted(w) ==
    /\ inDoubt'[w] \in Nat /\ inDoubt'[w] >= inDoubt[w]
    /\ \/ /\ SentFor(w)' = SentFor(w)
          /\ (Recorded(w) => Recorded(w)') \/ inDoubt'[w] >= inDoubt[w] + 1
       \/ /\ \E sig : SentFor(w)' \subseteq SentFor(w) \cup {sig}
          /\ ~Recorded(w)
          /\ Recorded(w)' \/ inDoubt'[w] >= inDoubt[w] + 1

(* An accounted change keeps the count. *)
LEMMA AccountedKeeps ==
    ASSUME IInv, DoubtInv, IsFiniteSet(DOMAIN sentFor'), Ids' = Ids, \A w \in Ids : Accounted(w)
    PROVE  DoubtInv'
<1>1. ASSUME NEW w \in Ids
      PROVE  Cardinality(SentFor(w)') <= inDoubt'[w] + (IF Recorded(w)' THEN 1 ELSE 0)
  <2>1. IsFiniteSet(SentFor(w)) /\ Cardinality(SentFor(w)) \in Nat
    <3>1. SentFor(w) \subseteq DOMAIN sentFor
        BY DEF SentFor
    <3>. QED
        BY <3>1, FS_Subset, FS_CardinalityType DEF DoubtInv
  <2>2. inDoubt[w] \in Nat
      BY DEF IInv, StatusesAgree, TypeOK
  <2>3. Cardinality(SentFor(w)) <= inDoubt[w] + (IF Recorded(w) THEN 1 ELSE 0)
      BY DEF DoubtInv
  <2>4. CASE /\ SentFor(w)' = SentFor(w)
             /\ (Recorded(w) => Recorded(w)') \/ inDoubt'[w] >= inDoubt[w] + 1
    <3>1. inDoubt'[w] \in Nat /\ inDoubt'[w] >= inDoubt[w]
        BY DEF Accounted
    <3>. QED
        BY <2>1, <2>2, <2>3, <2>4, <3>1
  <2>5. CASE /\ \E sig : SentFor(w)' \subseteq SentFor(w) \cup {sig}
             /\ ~Recorded(w)
             /\ Recorded(w)' \/ inDoubt'[w] >= inDoubt[w] + 1
    <3>1. inDoubt'[w] \in Nat /\ inDoubt'[w] >= inDoubt[w]
        BY DEF Accounted
    <3>2. PICK sig : SentFor(w)' \subseteq SentFor(w) \cup {sig}
        BY <2>5
    <3>3. IsFiniteSet(SentFor(w) \cup {sig}) /\ Cardinality(SentFor(w) \cup {sig}) <= Cardinality(SentFor(w)) + 1
      <4>1. /\ IsFiniteSet(SentFor(w) \cup {sig})
            /\ Cardinality(SentFor(w) \cup {sig}) =
                  IF sig \in SentFor(w) THEN Cardinality(SentFor(w)) ELSE Cardinality(SentFor(w)) + 1
          BY <2>1, FS_AddElement
      <4>. QED
          BY <2>1, <4>1
    <3>4. /\ Cardinality(SentFor(w) \cup {sig}) \in Nat
          /\ Cardinality(SentFor(w)') \in Nat
          /\ Cardinality(SentFor(w)') <= Cardinality(SentFor(w) \cup {sig})
        BY <3>2, <3>3, FS_Subset, FS_CardinalityType
    <3>. QED
        BY <2>1, <2>2, <2>3, <2>5, <3>1, <3>3, <3>4
  <2>. QED
      BY <2>4, <2>5 DEF Accounted
<1>. QED
    BY <1>1 DEF DoubtInv

(* A broadcast for w adds at most its signature, and nothing for others. *)
LEMMA BroadcastSent ==
    ASSUME TypeOK, IsFiniteSet(DOMAIN sentFor), NEW w, NEW sig, Broadcast(w, sig)
    PROVE  /\ IsFiniteSet(DOMAIN sentFor')
           /\ SentFor(w)' \subseteq SentFor(w) \cup {sig}
           /\ \A v \in Ids : v # w => SentFor(v)' = SentFor(v)
<1>1. /\ DOMAIN chain' = DOMAIN chain \cup {sig} /\ DOMAIN sentFor' = DOMAIN chain'
      /\ \A t \in DOMAIN chain : sentFor[t] \subseteq sentFor'[t]
      /\ \A t \in DOMAIN chain' :
            sentFor'[t] \subseteq {w} \cup (IF t \in DOMAIN chain THEN sentFor[t] ELSE {})
      /\ \A t \in DOMAIN chain : t # sig => sentFor'[t] = sentFor[t]
    BY BroadcastFacts
<1>2. DOMAIN sentFor = DOMAIN chain
    BY DEF TypeOK
<1>3. IsFiniteSet(DOMAIN sentFor')
    BY <1>1, <1>2, FS_AddElement
<1>4. SentFor(w)' \subseteq SentFor(w) \cup {sig}
    BY <1>1, <1>2 DEF SentFor
<1>5. ASSUME NEW v \in Ids, v # w PROVE SentFor(v)' = SentFor(v)
  <2>1. \A t \in DOMAIN sentFor' : v \in sentFor'[t] => t \in DOMAIN sentFor /\ v \in sentFor[t]
      BY <1>1, <1>2, <1>5
  <2>2. \A t \in DOMAIN sentFor : v \in sentFor[t] => t \in DOMAIN sentFor' /\ v \in sentFor'[t]
      BY <1>1, <1>2
  <2>. QED
      BY <2>1, <2>2 DEF SentFor
<1>. QED
    BY <1>3, <1>4, <1>5

(* A payout still to be sent in this run has no row that tells of a send. *)
LEMMA TodoUnrecorded ==
    ASSUME IInv, NEW s \in Submitters, NEW w \in submit[s].todo
    PROVE  ~Recorded(w)
<1>1. w \in DOMAIN payouts /\ payouts[w].signature = << >>
    BY DEF IInv, BatchInv, SignatureInv
<1>2. \A q \in Submitters : w \notin DOMAIN submit[q].image
  <2>1. \A q \in Submitters : submit[q].pc \in {"idle", "sending"}
      BY DEF IInv, ShapeInv, SubmitRun
  <2>2. walletLock = s
      BY <2>1 DEF IInv, LockInv
  <2>3. \A q \in Submitters : q # s => DOMAIN submit[q].image = {}
      BY <2>1, <2>2 DEF IInv, LockInv
  <2>. QED
      BY <2>3 DEF IInv, BatchInv
<1>. QED
    BY <1>1, <1>2 DEF Recorded

(* Steps that send nothing and drop no signature. *)
LEMMA QuietDoubt ==
    ASSUME IInv, DoubtInv, Ids' = Ids, sentFor' = sentFor, inDoubt' = inDoubt,
           \A w \in Ids : Recorded(w) => Recorded(w)'
    PROVE  DoubtInv'
<1>1. \A w \in Ids : SentFor(w)' = SentFor(w)
    BY DEF SentFor
<1>2. \A w \in Ids : inDoubt[w] \in Nat
    BY DEF IInv, StatusesAgree, TypeOK
<1>3. IsFiniteSet(DOMAIN sentFor')
    BY DEF DoubtInv
<1>. QED
    BY <1>1, <1>2, <1>3, AccountedKeeps DEF Accounted

(* A request is new: nothing was sent for it. *)
LEMMA CreateDoubt ==
    ASSUME IInv, IInv', DoubtInv, NEW a \in Accounts, NEW amount \in Amounts, CreateWithdrawal(a, amount)
    PROVE  DoubtInv'
<1>. DEFINE n == Len(withdrawals) + 1
<1>1. /\ UNCHANGED <<payouts, submit, sentFor>> /\ inDoubt' = Append(inDoubt, 0)
      /\ \E row : withdrawals' = Append(withdrawals, row)
    BY DEF CreateWithdrawal
<1>2. TypeOK /\ TypeOK' /\ SentInv
    BY DEF IInv, StatusesAgree
<1>3. Len(withdrawals) \in Nat /\ Ids = 1..Len(withdrawals) /\ withdrawals \in Seq(Withdrawal)
    BY <1>2, TableFacts
<1>4. Ids' = Ids \cup {n} /\ n \notin Ids
    BY <1>1, <1>3 DEF Ids
<1>5. inDoubt \in Seq(Nat) /\ Len(inDoubt) = Len(withdrawals)
  <2>1. inDoubt \in [1..Len(withdrawals) -> Nat]
      BY <1>2, <1>3 DEF TypeOK
  <2>. QED
      BY <1>3, <2>1
<1>6. inDoubt'[n] = 0 /\ \A w \in Ids : inDoubt'[w] = inDoubt[w] /\ inDoubt[w] \in Nat
    BY <1>1, <1>3, <1>5
<1>. HIDE DEF n
<1>7. \A w : SentFor(w)' = SentFor(w) /\ (Recorded(w)' <=> Recorded(w))
    BY <1>1 DEF SentFor, Recorded
<1>8. SentFor(n) = {}
    BY <1>2, <1>4 DEF SentFor, SentInv, TypeOK
<1>9. Cardinality(SentFor(n)) = 0
    BY <1>8, FS_EmptySet
<1>10. ASSUME NEW w \in Ids'
       PROVE  Cardinality(SentFor(w)') <= inDoubt'[w] + (IF Recorded(w)' THEN 1 ELSE 0)
  <2>1. CASE w = n
      BY <1>6, <1>7, <1>9, <2>1
  <2>2. CASE w \in Ids
    <3>1. Cardinality(SentFor(w)) <= inDoubt[w] + (IF Recorded(w) THEN 1 ELSE 0)
        BY <2>2 DEF DoubtInv
    <3>. QED
        BY <1>6, <1>7, <2>2, <3>1
  <2>. QED
      BY <1>4, <2>1, <2>2
<1>. QED
    BY <1>1, <1>10 DEF DoubtInv

(* A step of the submit loop: a signature the run writes records the send, *)
(* a lost answer leaves it in doubt.                                       *)
LEMMA LoopDoubt ==
    ASSUME IInv, IInv', DoubtInv, NEW s \in Submitters, NEW w \in Ids,
           \/ SubmitSend(s, w) \/ SubmitSendFails(s, w)
           \/ SubmitRecipientMissing(s, w) \/ SubmitMisconfigured(s, w)
    PROVE  DoubtInv'
<1>0. TypeOK /\ ShapeInv /\ submit \in [Submitters -> SubmitRun] /\ submit[s] \in SubmitRun
    BY DEF IInv, StatusesAgree, ShapeInv
<1>1. /\ \A v \in Ids : inDoubt[v] \in Nat
      /\ inDoubt \in [Ids -> Nat]
    BY <1>0 DEF TypeOK
<1>2. IsFiniteSet(DOMAIN sentFor)
    BY DEF DoubtInv
<1>3. w \in submit[s].todo /\ payouts' = payouts /\ Ids' = Ids
    BY DEF SubmitSend, SubmitSendFails, SubmitRecipientMissing, SubmitMisconfigured, tables, Ids
<1>4. ~Recorded(w)
    BY <1>3, TodoUnrecorded
<1>5. LoopStep(s, w)
    BY SendStep, SendFailsStep, RecipientMissingStep, MisconfiguredStep
<1>6. \A v \in Ids : v # w => (Recorded(v) => Recorded(v)')
  <2>1. \A q \in Submitters : \A v \in DOMAIN submit[q].image :
            v # w => v \in DOMAIN submit'[q].image /\ submit'[q].image[v] = submit[q].image[v]
      BY <1>5 DEF LoopStep
  <2>. QED
      BY <1>3, <2>1 DEF Recorded
<1>7. CASE SubmitSend(s, w)
  <2>. DEFINE sig == Signature(w)
              row == [payouts[w] EXCEPT !.status = "SUBMITTED", !.signature = sig]
  <2>1. /\ inDoubt' = inDoubt
        /\ Write(s, w, row)
        /\ UNCHANGED sentFor \/ Broadcast(w, sig)
      BY <1>7 DEF SubmitSend
  <2>2. payouts[w] \in PayoutRow
      BY <1>0, <1>3 DEF TypeOK, IInv, BatchInv
  <2>3. row.signature = sig /\ sig # << >>
      BY <2>2, SignatureNonempty DEF PayoutRow
  <2>. HIDE DEF row, sig
  <2>4. Recorded(w)'
    <3>1. w \in DOMAIN submit'[s].image /\ submit'[s].image[w] = row
        BY <1>0, <2>1, WriteFacts
    <3>. QED
        BY <2>3, <3>1 DEF Recorded
  <2>5. /\ IsFiniteSet(DOMAIN sentFor')
        /\ SentFor(w)' \subseteq SentFor(w) \cup {sig}
        /\ \A v \in Ids : v # w => SentFor(v)' = SentFor(v)
    <3>1. CASE sentFor' = sentFor
        BY <1>2, <3>1 DEF SentFor
    <3>2. CASE Broadcast(w, sig)
        BY <1>0, <1>2, <3>2, BroadcastSent
    <3>. QED
        BY <2>1, <3>1, <3>2
  <2>6. ASSUME NEW v \in Ids PROVE Accounted(v)
    <3>1. CASE v = w
        BY <1>1, <1>4, <2>1, <2>4, <2>5, <3>1 DEF Accounted
    <3>2. CASE v # w
        BY <1>1, <1>6, <2>1, <2>5, <3>2 DEF Accounted
    <3>. QED
        BY <3>1, <3>2
  <2>. QED
      BY <1>3, <2>5, <2>6, AccountedKeeps
<1>8. CASE SubmitSendFails(s, w) /\ Broadcast(w, Signature(w))
                                 /\ inDoubt' = [inDoubt EXCEPT ![w] = @ + 1]
  <2>1. /\ IsFiniteSet(DOMAIN sentFor')
        /\ SentFor(w)' \subseteq SentFor(w) \cup {Signature(w)}
        /\ \A v \in Ids : v # w => SentFor(v)' = SentFor(v)
      BY <1>0, <1>2, <1>8, BroadcastSent
  <2>2. ASSUME NEW v \in Ids PROVE Accounted(v)
    <3>1. CASE v = w
      <4>1. inDoubt'[w] = inDoubt[w] + 1
          BY <1>1, <1>8
      <4>2. inDoubt'[w] \in Nat /\ inDoubt'[w] >= inDoubt[w] /\ inDoubt'[w] >= inDoubt[w] + 1
          BY <1>1, <4>1
      <4>. QED
          BY <1>4, <2>1, <3>1, <4>2 DEF Accounted
    <3>2. CASE v # w
      <4>1. inDoubt'[v] = inDoubt[v]
          BY <1>1, <1>8, <3>2
      <4>. QED
          BY <1>1, <1>6, <2>1, <3>2, <4>1 DEF Accounted
    <3>. QED
        BY <3>1, <3>2
  <2>. QED
      BY <1>3, <2>1, <2>2, AccountedKeeps
<1>9. CASE UNCHANGED <<sentFor, inDoubt>>
    BY <1>3, <1>4, <1>6, <1>9, QuietDoubt
<1>. QED
    BY <1>7, <1>8, <1>9 DEF SubmitSendFails, SubmitRecipientMissing, SubmitMisconfigured, ghosts

(* A rolled back run leaves every send of its image in doubt. *)
LEMMA RollbackDoubt ==
    ASSUME IInv, IInv', DoubtInv, NEW s \in Submitters, NEW w,
           \/ SubmitAbort(s)
           \/ SubmitDuplicate(s, w)
    PROVE  DoubtInv'
<1>0. TypeOK /\ ShapeInv /\ submit \in [Submitters -> SubmitRun] /\ submit[s] \in SubmitRun
    BY DEF IInv, StatusesAgree, ShapeInv
<1>1. /\ \A v \in Ids : inDoubt[v] \in Nat
      /\ IsFiniteSet(DOMAIN sentFor)
    BY <1>0 DEF TypeOK, DoubtInv
<1>2. PICK sent : /\ SubmitRollback(s, sent) /\ SentBy(s) \subseteq sent
                  /\ \/ UNCHANGED sentFor
                     \/ w \in sent /\ w \in submit[s].todo /\ Broadcast(w, Signature(w))
    BY DEF SubmitAbort, SubmitDuplicate
<1>3. /\ Ids' = Ids /\ payouts' = payouts
      /\ \A v \in Ids : inDoubt'[v] = IF v \in sent THEN inDoubt[v] + 1 ELSE inDoubt[v]
    BY <1>2 DEF SubmitRollback, tables, Ids
<1>4. \A v \in Ids : /\ inDoubt'[v] \in Nat /\ inDoubt'[v] >= inDoubt[v]
                     /\ v \in sent => inDoubt'[v] >= inDoubt[v] + 1
    BY <1>1, <1>3
<1>5. submit' = [submit EXCEPT ![s] = IdleSubmit]
    BY <1>2 DEF SubmitRollback
<1>6. \A v \in Ids : Recorded(v) => Recorded(v)' \/ v \in sent
  <2>1. \A q \in Submitters : q # s => submit'[q] = submit[q]
      BY <1>0, <1>5
  <2>2. \A v \in DOMAIN submit[s].image : submit[s].image[v].signature # << >> => v \in sent
      BY <1>2 DEF SentBy, IInv, SignatureInv
  <2>. QED
      BY <1>3, <2>1, <2>2 DEF Recorded
<1>7. CASE sentFor' = sentFor
  <2>1. \A v \in Ids : SentFor(v)' = SentFor(v)
      BY <1>7 DEF SentFor
  <2>2. \A v \in Ids : Accounted(v)
      BY <1>4, <1>6, <2>1 DEF Accounted
  <2>. QED
      BY <1>1, <1>3, <1>7, <2>2, AccountedKeeps
<1>8. CASE w \in sent /\ w \in submit[s].todo /\ Broadcast(w, Signature(w))
  <2>1. /\ IsFiniteSet(DOMAIN sentFor')
        /\ SentFor(w)' \subseteq SentFor(w) \cup {Signature(w)}
        /\ \A v \in Ids : v # w => SentFor(v)' = SentFor(v)
      BY <1>0, <1>1, <1>8, BroadcastSent
  <2>2. ~Recorded(w)
      BY <1>8, TodoUnrecorded
  <2>3. ASSUME NEW v \in Ids PROVE Accounted(v)
    <3>1. CASE v = w
        BY <1>4, <1>8, <2>1, <2>2, <3>1 DEF Accounted
    <3>2. CASE v # w
        BY <1>4, <1>6, <2>1, <3>2 DEF Accounted
    <3>. QED
        BY <3>1, <3>2
  <2>. QED
      BY <1>3, <2>1, <2>3, AccountedKeeps
<1>. QED
    BY <1>2, <1>7, <1>8

(* Every step accounts for what it sends. *)
LEMMA NextDoubt == IInv /\ IInv' /\ DoubtInv /\ [Next]_vars => DoubtInv'
<1>. SUFFICES ASSUME IInv, IInv', DoubtInv, [Next]_vars PROVE DoubtInv'
    OBVIOUS
<1>0. StatusesAgree /\ TypeOK /\ ShapeInv /\ LockInv /\ BatchInv /\ SignatureInv
    BY DEF IInv, StatusesAgree
<1>1. CASE \E a \in Accounts, amount \in Amounts : CreateWithdrawal(a, amount)
    BY <1>1, CreateDoubt
<1>2. CASE \E w \in Ids, approve \in BOOLEAN : ReviewWithdrawal(w, approve)
  <2>1. PICK w \in Ids, approve \in BOOLEAN : ReviewWithdrawal(w, approve)
      BY <1>2
  <2>2. UNCHANGED <<payouts, submit, sentFor, inDoubt>> /\ Ids' = Ids
      BY <2>1 DEF ReviewWithdrawal, ghosts, Ids
  <2>. QED
      BY <2>2, QuietDoubt DEF Recorded
<1>3. ASSUME UNCHANGED <<withdrawals, payouts, submit, sentFor, inDoubt>> PROVE DoubtInv'
    BY <1>3, QuietDoubt DEF Recorded, Ids
<1>4. ASSUME NEW p \in Processors, ProcessCommit(p) PROVE DoubtInv'
  <2>1. /\ Ids' = Ids /\ UNCHANGED <<submit, sentFor, inDoubt>>
        /\ DOMAIN payouts \subseteq DOMAIN payouts'
        /\ \A w \in DOMAIN payouts : payouts'[w] = payouts[w]
      BY <1>4 DEF ProcessCommit, ghosts, Ids
  <2>. QED
      BY <2>1, QuietDoubt DEF Recorded
<1>5. ASSUME NEW p \in Processors, ProcessSteps(p) \/ ProcessAbort(p) PROVE DoubtInv'
    BY <1>3, <1>4, <1>5 DEF ProcessSteps, ProcessStart, ProcessReadBudget, ProcessLockBatch, ProcessAbort,
                            tables, ghosts
<1>6. ASSUME NEW s \in Submitters, SubmitLockBatch(s) PROVE DoubtInv'
  <2>1. PICK run : submit' = [submit EXCEPT ![s] = run]
      BY <1>6 DEF SubmitLockBatch
  <2>2. /\ Ids' = Ids /\ UNCHANGED <<payouts, sentFor, inDoubt>> /\ submit[s].pc = "idle"
      BY <1>6 DEF SubmitLockBatch, MaySubmit, tables, ghosts, Ids
  <2>3. DOMAIN submit[s].image = {} /\ \A q \in Submitters : q # s => submit'[q] = submit[q]
      BY <1>0, <2>1, <2>2 DEF LockInv, ShapeInv
  <2>. QED
      BY <2>2, <2>3, QuietDoubt DEF Recorded
<1>7. ASSUME NEW s \in Submitters, SubmitCommit(s) PROVE DoubtInv'
  <2>1. /\ Ids' = Ids /\ UNCHANGED <<sentFor, inDoubt>>
        /\ DOMAIN payouts' = DOMAIN payouts
        /\ \A w \in DOMAIN payouts :
              payouts'[w] = IF w \in DOMAIN submit[s].image THEN submit[s].image[w] ELSE payouts[w]
        /\ submit[s].pc = "sending"
      BY <1>7 DEF SubmitCommit, ghosts, Ids
  <2>2. \A w \in DOMAIN submit[s].image : w \in DOMAIN payouts /\ payouts[w].signature = << >>
      BY <1>0 DEF BatchInv, SignatureInv
  <2>3. \A q \in Submitters : q # s => DOMAIN submit[q].image = {}
    <3>1. \A q \in Submitters : submit[q].pc \in {"idle", "sending"}
        BY <1>0 DEF ShapeInv, SubmitRun
    <3>. QED
        BY <1>0, <2>1, <3>1 DEF LockInv
  <2>. QED
      BY <2>1, <2>2, <2>3, QuietDoubt DEF Recorded
<1>8. ASSUME NEW s \in Submitters, SubmitSteps(s) \/ SubmitPauses(s) \/ SubmitAbort(s) PROVE DoubtInv'
  <2>1. CASE \E w \in Ids : \/ SubmitSend(s, w) \/ SubmitSendFails(s, w)
                            \/ SubmitRecipientMissing(s, w) \/ SubmitMisconfigured(s, w)
      BY <2>1, LoopDoubt
  <2>2. CASE SubmitAbort(s) \/ \E w \in Ids : SubmitDuplicate(s, w)
      BY <2>2, RollbackDoubt
  <2>3. CASE SubmitPauses(s)
      BY <1>3, <2>3 DEF SubmitPauses, ghosts
  <2>. QED
      BY <1>6, <1>7, <1>8, <2>1, <2>2, <2>3 DEF SubmitSteps
<1>9. CASE ConfirmPayouts
  <2>1. /\ Ids' = Ids /\ UNCHANGED <<submit, sentFor, inDoubt>>
        /\ DOMAIN payouts' = DOMAIN payouts
      BY <1>9 DEF ConfirmPayouts, ghosts, Ids
  <2>2. ASSUME NEW w \in DOMAIN payouts PROVE payouts'[w].signature = payouts[w].signature
    <3>1. payouts[w] \in PayoutRow
        BY <1>0 DEF TypeOK
    <3>2. \/ payouts'[w] = [payouts[w] EXCEPT !.status = payouts[w].status]
          \/ payouts'[w] = [payouts[w] EXCEPT !.status = "CONFIRMED"]
          \/ payouts'[w] = [payouts[w] EXCEPT !.status = "FAILED"]
        BY <1>9 DEF ConfirmPayouts
    <3>. QED
        BY <3>1, <3>2 DEF PayoutRow
  <2>. QED
      BY <2>1, <2>2, QuietDoubt DEF Recorded
<1>10. CASE \/ \E value \in BOOLEAN : SetHotWalletPayoutsPaused(value)
            \/ \E sig \in DOMAIN chain, result \in {"landed", "failed", "dropped"} : Resolve(sig, result)
            \/ NewBlock \/ Tick \/ UNCHANGED vars
    BY <1>3, <1>10 DEF SetHotWalletPayoutsPaused, Resolve, NewBlock, Tick, vars, tables, ghosts
<1>. QED
    BY <1>1, <1>2, <1>5, <1>8, <1>9, <1>10 DEF Next

(* SubmitSolanaPayouts accounts for every transfer it broadcasts: none for *)
(* a withdrawal that is or can still be rejected and refunded, and a       *)
(* second one for a withdrawal only when no row tells of the first.        *)
THEOREM SendsAlwaysAccounted == Spec => []SendsAccounted
<1>1. Init => DoubtInv
    BY FS_EmptySet DEF Init, DoubtInv, Ids
<1>2. IInv /\ DoubtInv => SendsAccounted
  <2>. SUFFICES ASSUME IInv, DoubtInv PROVE SendsAccounted
      OBVIOUS
  <2>1. RejectedNeverSent
    <3>. SUFFICES ASSUME NEW w \in Ids,
                         withdrawals[w].status \in {"QUEUED", "MANUAL_REVIEW", "REJECTED"}
                  PROVE  SentFor(w) = {}
        BY DEF RejectedNeverSent
    <3>1. w \notin DOMAIN payouts
        BY DEF IInv, StatusesAgree
    <3>. QED
        BY <3>1 DEF IInv, SentInv, SentFor
  <2>2. ResendsAreInDoubt
      BY DEF DoubtInv, Recorded, ResendsAreInDoubt
  <2>. QED
      BY <2>1, <2>2 DEF SendsAccounted
<1>. QED
    BY <1>1, <1>2, SpecIInv, NextDoubt, PTL DEF Spec

-----------------------------------------------------------------------------
(* The limits of withdrawals.  In stub mode a grant is final: its row is   *)
(* confirmed when it is made, and nothing moves processed_at afterwards.   *)

GrantedOn(at) == {w \in DOMAIN payouts : SameDay(payouts[w].createdAt, at)}
GrantedIn(at) == {w \in DOMAIN payouts : SameHour(payouts[w].createdAt, at)}
OfAccount(S, a) == {w \in S : withdrawals[w].account = a}

(* No submit run starts, and the hour a row is counted by is its grant's. *)
StubInv ==
    /\ \A s \in Submitters : submit[s].pc = "idle"
    /\ \A w \in DOMAIN payouts : /\ payouts[w].status = "CONFIRMED"
                                 /\ payouts[w].createdAt = withdrawals[w].processedAt

(* A batch lists each of its rows once. *)
QueueInv ==
    \A p \in Processors :
        LET batch == process[p].batch
        IN  /\ \E n \in Nat : DOMAIN batch = 1..n
            /\ \A j, k \in DOMAIN batch : batch[j] = batch[k] => j = k

(* What a run has read of the budgets is what the tables hold until it     *)
(* commits: with one run nobody else grants.                               *)
BudgetInv ==
    \A p \in Processors, at \in Nat :
        process[p].pc \in {"budgeted", "locked"} /\ process[p].at = at =>
            process[p].budget = Spending(at)

(* What was granted in an hour and on a day, whether or not it is now. *)
GrantedInv ==
    /\ \A w \in DOMAIN payouts : Amount(w) <= SingleMax
    /\ \A at \in Nat : /\ Total(GrantedIn(at)) <= GlobalHourlyMax
                       /\ Total(GrantedOn(at)) <= GlobalDailyMax
                       /\ \A a \in Accounts : Total(OfAccount(GrantedOn(at), a)) <= UserDailyMax

LimitIInv == PayoutMode = "stub" => StubInv /\ QueueInv /\ BudgetInv /\ GrantedInv

(* Amounts add up. *)
LEMMA TotalFacts ==
    ASSUME TypeOK
    PROVE  /\ \A w \in Ids : Amount(w) \in Nat /\ withdrawals[w].account \in Accounts
           /\ Total({}) = 0
           /\ \A S \in SUBSET Ids : IsFiniteSet(S) /\ Total(S) \in Nat
           /\ \A w \in Ids : Total({w}) = Amount(w)
           /\ \A S, T \in SUBSET Ids : S \cap T = {} => Total(S \cup T) = Total(S) + Total(T)
<1>. DEFINE f == [w \in Ids |-> Amount(w)]
<1>1. \A w \in Ids : Amount(w) \in Nat /\ withdrawals[w].account \in Accounts
    BY TableFacts, PayoutsAssumption DEF Amount, Withdrawal
<1>2. IsFiniteSet(Ids)
    BY TableFacts
<1>3. \A w \in Ids : f[w] = Amount(w) /\ f[w] \in Nat
    BY <1>1
<1>4. \A S : Total(S) = SumFunctionOnSet(f, S)
    BY DEF Total
<1>. HIDE DEF f
<1>5. ASSUME NEW S \in SUBSET Ids PROVE IntOn(f, S) /\ IsFiniteSet(S) /\ Total(S) \in Nat
    BY <1>2, <1>3, <1>4, FS_Subset, SumNat DEF IntOn
<1>6. Total({}) = 0
    BY <1>4, SumEmpty
<1>7. ASSUME NEW w \in Ids PROVE Total({w}) = Amount(w)
  <2>1. IntOn(f, {w})
      BY <1>5
  <2>2. SumFunctionOnSet(f, {w}) = f[w] + SumFunctionOnSet(f, {w} \ {w})
      BY <2>1, SumRemove
  <2>3. {w} \ {w} = {}
      OBVIOUS
  <2>. QED
      BY <1>1, <1>3, <1>4, <1>6, <2>2, <2>3
<1>8. ASSUME NEW S \in SUBSET Ids, NEW T \in SUBSET Ids, S \cap T = {}
      PROVE  Total(S \cup T) = Total(S) + Total(T)
  <2>1. IntOn(f, S \cup T) /\ S \in SUBSET (S \cup T) /\ (S \cup T) \ S = T
      BY <1>5, <1>8
  <2>. QED
      BY <1>4, <2>1, SumSplit
<1>. QED
    BY <1>1, <1>5, <1>6, <1>7, <1>8

(* The sums over rows that were there do not change with the table. *)
TotalNext(S) == SumFunctionOnSet([w \in Ids' |-> withdrawals'[w].amount], S)

LEMMA TotalStays ==
    ASSUME TypeOK, Ids \subseteq Ids',
           \A w \in Ids : withdrawals'[w].amount = withdrawals[w].amount
    PROVE  \A S \in SUBSET Ids : TotalNext(S) = Total(S)
<1>. DEFINE f == [w \in Ids |-> Amount(w)]
            g == [w \in Ids' |-> withdrawals'[w].amount]
<1>1. \A w \in Ids : f[w] = g[w] /\ f[w] \in Int
    BY TotalFacts DEF Amount
<1>2. \A S : Total(S) = SumFunctionOnSet(f, S) /\ TotalNext(S) = SumFunctionOnSet(g, S)
    BY DEF Total, TotalNext
<1>. HIDE DEF f, g
<1>3. ASSUME NEW S \in SUBSET Ids PROVE TotalNext(S) = Total(S)
  <2>1. IntOn(f, S)
      BY <1>1, TotalFacts DEF IntOn
  <2>. QED
      BY <1>1, <1>2, <2>1, SumSame
<1>. QED
    BY <1>3

-----------------------------------------------------------------------------
(* The loop of ProcessAutoWithdrawals over its batch. *)
Budget == [user : [Accounts -> Nat], hourly : Nat, daily : Nat]

WithinLimits(b) ==
    /\ \A a \in Accounts : b.user[a] <= UserDailyMax
    /\ b.hourly <= GlobalHourlyMax
    /\ b.daily <= GlobalDailyMax

(* Budget b is budget c and the amounts of the rows in S. *)
Spends(b, c, S) ==
    /\ b.hourly = c.hourly + Total(S)
    /\ b.daily = c.daily + Total(S)
    /\ \A a \in Accounts : b.user[a] = c.user[a] + Total(OfAccount(S, a))

(* One turn: a row is granted if the limits allow it, and charged if it is *)
(* granted.                                                                *)
LEMMA ChargeFacts ==
    ASSUME TypeOK, NEW w \in Ids, NEW b \in Budget, WithinLimits(b)
    PROVE  /\ Charge(b, w) \in Budget /\ WithinLimits(Charge(b, w))
           /\ Verdict(b, w) # "GRANTED" => Charge(b, w) = b
           /\ Verdict(b, w) = "GRANTED" =>
                 /\ Amount(w) <= SingleMax
                 /\ Charge(b, w).hourly = b.hourly + Amount(w)
                 /\ Charge(b, w).daily = b.daily + Amount(w)
                 /\ \A a \in Accounts : Charge(b, w).user[a] =
                        b.user[a] + (IF a = withdrawals[w].account THEN Amount(w) ELSE 0)
<1>. DEFINE m == Amount(w)
            o == withdrawals[w].account
            c == [user |-> [b.user EXCEPT ![o] = @ + m], hourly |-> b.hourly + m, daily |-> b.daily + m]
<1>1. m \in Nat /\ o \in Accounts
    BY TotalFacts
<1>2. Charge(b, w) = IF Verdict(b, w) = "GRANTED" THEN c ELSE b
    BY DEF Charge
<1>3. Verdict(b, w) = "GRANTED" =>
         ~(m > SingleMax \/ b.user[o] + m > UserDailyMax \/ b.hourly + m > GlobalHourlyMax
             \/ b.daily + m > GlobalDailyMax)
    BY DEF Verdict
<1>4. /\ {SingleMax, UserDailyMax, GlobalHourlyMax, GlobalDailyMax} \subseteq Nat
      /\ b.user \in [Accounts -> Nat] /\ b.hourly \in Nat /\ b.daily \in Nat
    BY PayoutsAssumption DEF Budget
<1>. HIDE DEF m, o
<1>5. /\ c.hourly = b.hourly + m /\ c.daily = b.daily + m
      /\ c.user = [b.user EXCEPT ![o] = @ + m]
    OBVIOUS
<1>6. \A a \in Accounts : c.user[a] = b.user[a] + (IF a = o THEN m ELSE 0)
    BY <1>1, <1>4, <1>5
<1>7. c \in Budget
    BY <1>1, <1>4 DEF Budget
<1>. HIDE DEF c
<1>8. CASE Verdict(b, w) = "GRANTED"
  <2>1. m <= SingleMax /\ b.user[o] + m <= UserDailyMax /\ b.hourly + m <= GlobalHourlyMax
        /\ b.daily + m <= GlobalDailyMax
      BY <1>1, <1>3, <1>4, <1>8
  <2>2. WithinLimits(c)
      BY <1>1, <1>4, <1>5, <1>6, <2>1 DEF WithinLimits
  <2>. QED
      BY <1>2, <1>5, <1>6, <1>7, <1>8, <2>1, <2>2 DEF m, o
<1>9. CASE Verdict(b, w) # "GRANTED"
    BY <1>2, <1>9
<1>. QED
    BY <1>8, <1>9

(* The budget before the k-th row, and after it. *)
UnfoldCharge(f, b, batch, k) == IF k = 1 THEN b ELSE Charge(f[k - 1], batch[k - 1])
IsCharges(f, b, batch) == f = [k \in DOMAIN batch |-> UnfoldCharge(f, b, batch, k)]
Charges(b, batch) == CHOOSE f : IsCharges(f, b, batch)
After(b, batch, k) == IF k = 0 THEN b ELSE Charge(Charges(b, batch)[k], batch[k])

(* The rows that the first k turns grant. *)
GrantedUpTo(b, batch, k) ==
    {batch[j] : j \in {i \in 1..k : Verdict(Charges(b, batch)[i], batch[i]) = "GRANTED"}}

(* The recursion is well founded. *)
LEMMA ChargesExist ==
    ASSUME NEW b, NEW batch, NEW n \in Nat, DOMAIN batch = 1..n
    PROVE  IsCharges(Charges(b, batch), b, batch)
<1>. DEFINE Ok(m) == \E f : DOMAIN f = 1..m /\ \A k \in 1..m : f[k] = UnfoldCharge(f, b, batch, k)
            Bad == {m \in Nat : ~Ok(m)}
<1>1. Ok(0)
  <2>. DEFINE f == [k \in 1..0 |-> b]
  <2>1. DOMAIN f = 1..0 /\ \A k \in 1..0 : f[k] = UnfoldCharge(f, b, batch, k)
      OBVIOUS
  <2>. QED
      BY <2>1
<1>2. ASSUME NEW m \in Nat, Ok(m) PROVE Ok(m + 1)
  <2>1. PICK f : DOMAIN f = 1..m /\ \A k \in 1..m : f[k] = UnfoldCharge(f, b, batch, k)
      BY <1>2
  <2>. DEFINE g == [k \in 1..m + 1 |-> IF k <= m THEN f[k] ELSE UnfoldCharge(f, b, batch, k)]
  <2>2. DOMAIN g = 1..m + 1 /\ \A k \in 1..m : g[k] = f[k]
      OBVIOUS
  <2>3. ASSUME NEW k \in 1..m + 1 PROVE g[k] = UnfoldCharge(g, b, batch, k)
    <3>1. g[k] = UnfoldCharge(f, b, batch, k)
        BY <2>1
    <3>. HIDE DEF g
    <3>2. k = 1 \/ k - 1 \in 1..m
        OBVIOUS
    <3>. QED
        BY <2>2, <3>1, <3>2 DEF UnfoldCharge
  <2>. HIDE DEF g
  <2>. QED
      BY <2>2, <2>3
<1>. HIDE DEF Ok
<1>3. Bad = {}
  <2>. SUFFICES ASSUME Bad # {} PROVE FALSE
      OBVIOUS
  <2>1. PICK m \in Bad : \A j \in Bad : m <= j
      BY LeastNumber
  <2>2. m # 0 /\ m \in Nat
      BY <1>1
  <2>3. m - 1 \in Nat /\ m - 1 \notin Bad
      BY <2>1, <2>2
  <2>4. Ok(m - 1)
      BY <2>3
  <2>5. Ok((m - 1) + 1) /\ (m - 1) + 1 = m
      BY <1>2, <2>2, <2>3, <2>4
  <2>. QED
      BY <2>5
<1>4. PICK f : DOMAIN f = 1..n /\ \A k \in 1..n : f[k] = UnfoldCharge(f, b, batch, k)
  <2>1. Ok(n)
      BY <1>3
  <2>. QED
      BY <2>1 DEF Ok
<1>5. \E g : IsCharges(g, b, batch)
  <2>. DEFINE g == [k \in 1..n |-> UnfoldCharge(f, b, batch, k)]
  <2>1. \A k \in 1..n : g[k] = f[k]
      BY <1>4
  <2>2. ASSUME NEW k \in 1..n PROVE UnfoldCharge(f, b, batch, k) = UnfoldCharge(g, b, batch, k)
    <3>. HIDE DEF g
    <3>1. k = 1 \/ k - 1 \in 1..n
        OBVIOUS
    <3>. QED
        BY <2>1, <3>1 DEF UnfoldCharge
  <2>3. g = [k \in 1..n |-> UnfoldCharge(g, b, batch, k)]
      BY <2>2
  <2>. HIDE DEF g
  <2>. QED
      BY <2>3 DEF IsCharges
<1>. QED
    BY <1>5, Zenon DEF Charges

(* What a process run decides is what the loop decides turn by turn. *)
LEMMA VerdictsAreTheLoops ==
    ASSUME NEW p
    PROVE  Verdicts(p) = [w \in Held(p) |->
              Verdict(Charges(process[p].budget, process[p].batch)[
                          CHOOSE k \in DOMAIN process[p].batch : process[p].batch[k] = w], w)]
BY Zenon DEF Verdicts, Charges, IsCharges, UnfoldCharge

(* Invariant of the loop: the limits hold and what was granted is charged. *)
LEMMA LoopCharges ==
    ASSUME TypeOK, NEW batch, NEW n \in Nat, DOMAIN batch = 1..n,
           \A k \in 1..n : batch[k] \in Ids,
           \A j, k \in 1..n : batch[j] = batch[k] => j = k,
           NEW b \in Budget, WithinLimits(b)
    PROVE  \A k \in 0..n :
              /\ After(b, batch, k) \in Budget /\ WithinLimits(After(b, batch, k))
              /\ GrantedUpTo(b, batch, k) \subseteq Ids
              /\ \A w \in GrantedUpTo(b, batch, k) : Amount(w) <= SingleMax
              /\ Spends(After(b, batch, k), b, GrantedUpTo(b, batch, k))
<1>. DEFINE f == Charges(b, batch)
            A(k) == After(b, batch, k)
            G(k) == GrantedUpTo(b, batch, k)
            Ok(k) == /\ A(k) \in Budget /\ WithinLimits(A(k)) /\ G(k) \subseteq Ids
                     /\ \A w \in G(k) : Amount(w) <= SingleMax
                     /\ Spends(A(k), b, G(k))
            Bad == {k \in 0..n : ~Ok(k)}
<1>1. A(0) = b /\ \A k \in 1..n : A(k) = Charge(f[k], batch[k])
    BY DEF After
<1>2. \A k \in 1..n : f[k] = A(k - 1)
  <2>1. \A k \in 1..n : f[k] = UnfoldCharge(f, b, batch, k)
      BY ChargesExist DEF IsCharges
  <2>2. ASSUME NEW k \in 1..n PROVE f[k] = A(k - 1)
    <3>1. CASE k = 1
        BY <1>1, <2>1, <3>1 DEF UnfoldCharge
    <3>2. CASE k # 1
      <4>1. k - 1 \in 1..n
          BY <3>2
      <4>. QED
          BY <1>1, <2>1, <3>2, <4>1 DEF UnfoldCharge
    <3>. QED
        BY <3>1, <3>2
  <2>. QED
      BY <2>2
<1>3. /\ G(0) = {}
      /\ \A k \in 1..n : G(k) = G(k - 1) \cup (IF Verdict(f[k], batch[k]) = "GRANTED" THEN {batch[k]} ELSE {})
      /\ \A k \in 1..n : batch[k] \notin G(k - 1)
  <2>. DEFINE D(k) == {i \in 1..k : Verdict(f[i], batch[i]) = "GRANTED"}
  <2>1. D(0) = {} /\ \A k : G(k) = {batch[j] : j \in D(k)}
      BY DEF GrantedUpTo
  <2>2. ASSUME NEW k \in 1..n
        PROVE  /\ D(k) = D(k - 1) \cup (IF Verdict(f[k], batch[k]) = "GRANTED" THEN {k} ELSE {})
               /\ D(k - 1) \subseteq 1..n /\ k \notin D(k - 1)
      OBVIOUS
  <2>. HIDE DEF D, G, f
  <2>3. G(0) = {}
      BY <2>1
  <2>4. ASSUME NEW k \in 1..n
        PROVE  /\ G(k) = G(k - 1) \cup (IF Verdict(f[k], batch[k]) = "GRANTED" THEN {batch[k]} ELSE {})
               /\ batch[k] \notin G(k - 1)
    <3>1. /\ G(k) = {batch[j] : j \in D(k)} /\ G(k - 1) = {batch[j] : j \in D(k - 1)}
        BY <2>1
    <3>. QED
        BY <2>2, <3>1
  <2>. QED
      BY <2>3, <2>4
<1>. HIDE DEF f, A, G
<1>4. Ok(0)
  <2>1. \A a \in Accounts : OfAccount({}, a) = {}
      BY DEF OfAccount
  <2>2. b.hourly \in Nat /\ b.daily \in Nat /\ \A a \in Accounts : b.user[a] \in Nat
      BY DEF Budget
  <2>3. Total({}) = 0
      BY TotalFacts
  <2>4. Spends(b, b, {})
    <3>1. b.hourly = b.hourly + Total({}) /\ b.daily = b.daily + Total({})
        BY <2>2, <2>3
    <3>2. ASSUME NEW a \in Accounts PROVE b.user[a] = b.user[a] + Total(OfAccount({}, a))
      <4>1. Total(OfAccount({}, a)) = 0 /\ b.user[a] \in Nat
          BY <2>1, <2>2, <2>3
      <4>. QED
          BY <4>1
    <3>. QED
        BY <3>1, <3>2 DEF Spends
  <2>. QED
      BY <1>1, <1>3, <2>4
<1>5. ASSUME NEW k \in 1..n, Ok(k - 1) PROVE Ok(k)
  <2>. DEFINE w == batch[k]
              c == A(k - 1)
              d == A(k)
              S == G(k - 1)
  <2>1. /\ w \in Ids /\ w \notin S /\ S \subseteq Ids /\ c \in Budget /\ WithinLimits(c) /\ d = Charge(c, w)
        /\ Spends(c, b, S) /\ \A v \in S : Amount(v) <= SingleMax
        /\ G(k) = S \cup (IF Verdict(c, w) = "GRANTED" THEN {w} ELSE {})
      BY <1>1, <1>2, <1>3, <1>5
  <2>. HIDE DEF w, c, d, S
  <2>2. d \in Budget /\ WithinLimits(d)
      BY <2>1, ChargeFacts
  <2>3. CASE Verdict(c, w) # "GRANTED"
    <3>1. d = c /\ G(k) = S
        BY <2>1, <2>3, ChargeFacts
    <3>. QED
        BY <2>1, <2>2, <3>1 DEF d
  <2>4. CASE Verdict(c, w) = "GRANTED"
    <3>1. /\ Amount(w) <= SingleMax
          /\ d.hourly = c.hourly + Amount(w) /\ d.daily = c.daily + Amount(w)
          /\ \A a \in Accounts : d.user[a] =
                c.user[a] + (IF a = withdrawals[w].account THEN Amount(w) ELSE 0)
        BY <2>1, <2>4, ChargeFacts
    <3>2. G(k) = S \cup {w} /\ S \cap {w} = {} /\ {w} \subseteq Ids
        BY <2>1, <2>4
    <3>3. Total(S \cup {w}) = Total(S) + Amount(w)
        BY <2>1, <3>2, TotalFacts
    <3>4. ASSUME NEW a \in Accounts
          PROVE  Total(OfAccount(S \cup {w}, a)) =
                    Total(OfAccount(S, a)) + (IF a = withdrawals[w].account THEN Amount(w) ELSE 0)
      <4>1. OfAccount(S, a) \subseteq Ids /\ OfAccount(S, a) \cap {w} = {}
            /\ OfAccount(S \cup {w}, a) = OfAccount(S, a) \cup (IF a = withdrawals[w].account THEN {w} ELSE {})
          BY <2>1 DEF OfAccount
      <4>2. Total(OfAccount(S, a)) \in Nat /\ Total({w}) = Amount(w)
          BY <2>1, <4>1, TotalFacts
      <4>3. CASE a = withdrawals[w].account
        <5>1. Total(OfAccount(S, a) \cup {w}) = Total(OfAccount(S, a)) + Total({w})
            BY <3>2, <4>1, TotalFacts
        <5>. QED
            BY <4>1, <4>2, <4>3, <5>1
      <4>4. CASE a # withdrawals[w].account
        <5>1. OfAccount(S \cup {w}, a) = OfAccount(S, a)
            BY <4>1, <4>4
        <5>. QED
            BY <4>2, <4>4, <5>1
      <4>. QED
          BY <4>3, <4>4
    <3>5. /\ Total(S) \in Nat /\ Amount(w) \in Nat
          /\ \A a \in Accounts : Total(OfAccount(S, a)) \in Nat
      <4>1. \A a \in Accounts : OfAccount(S, a) \subseteq Ids
          BY <2>1 DEF OfAccount
      <4>. QED
          BY <2>1, <4>1, TotalFacts
    <3>6. /\ b.hourly \in Nat /\ b.daily \in Nat /\ \A a \in Accounts : b.user[a] \in Nat
        BY DEF Budget
    <3>7. Spends(d, b, S \cup {w})
      <4>1. d.hourly = b.hourly + Total(S \cup {w}) /\ d.daily = b.daily + Total(S \cup {w})
          BY <2>1, <3>1, <3>3, <3>5, <3>6 DEF Spends
      <4>2. ASSUME NEW a \in Accounts PROVE d.user[a] = b.user[a] + Total(OfAccount(S \cup {w}, a))
        <5>. DEFINE x == IF a = withdrawals[w].account THEN Amount(w) ELSE 0
        <5>1. x \in Nat
            BY <3>5
        <5>2. /\ d.user[a] = c.user[a] + x /\ c.user[a] = b.user[a] + Total(OfAccount(S, a))
              /\ Total(OfAccount(S \cup {w}, a)) = Total(OfAccount(S, a)) + x
            BY <2>1, <3>1, <3>4 DEF Spends
        <5>. HIDE DEF x
        <5>. QED
            BY <3>5, <3>6, <5>1, <5>2
      <4>. QED
          BY <4>1, <4>2 DEF Spends
    <3>. QED
        BY <2>1, <2>2, <3>1, <3>2, <3>7 DEF d
  <2>. QED
      BY <2>3, <2>4
<1>. HIDE DEF Ok
<1>6. Bad = {}
  <2>. SUFFICES ASSUME Bad # {} PROVE FALSE
      OBVIOUS
  <2>0. Bad \in SUBSET Nat
      OBVIOUS
  <2>1. PICK k \in Bad : \A j \in Bad : k <= j
      BY <2>0, LeastNumber
  <2>2. k \in 1..n /\ k - 1 \in 0..n /\ k - 1 \notin Bad
      BY <1>4, <2>1
  <2>. QED
      BY <1>5, <2>2
<1>. QED
    BY <1>6 DEF Ok, A, G

-----------------------------------------------------------------------------
(* The budgets as sums over the payout rows, before and after a step. *)
SpendingIsGranted ==
    \A at : Spending(at) = [user |-> [a \in Accounts |-> Total(OfAccount(GrantedOn(at), a))],
                            hourly |-> Total(GrantedIn(at)), daily |-> Total(GrantedOn(at))]

LEMMA SpendingForm == IInv /\ StubInv => SpendingIsGranted
<1>. SUFFICES ASSUME IInv, StubInv PROVE SpendingIsGranted
    OBVIOUS
<1>. DEFINE granted == {w \in Ids : withdrawals[w].status \in {"PAYOUT_CREATED", "SUBMITTED", "CONFIRMED"}}
<1>1. granted = DOMAIN payouts /\ \A w \in granted : payouts[w].createdAt = withdrawals[w].processedAt
  <2>1. StatusesAgree
      BY DEF IInv
  <2>2. \A w \in DOMAIN payouts : w \in Ids /\ withdrawals[w].status = "CONFIRMED"
      BY <2>1 DEF StatusesAgree, StubInv
  <2>3. \A w \in granted : w \in DOMAIN payouts
      BY <2>1 DEF StatusesAgree
  <2>. QED
      BY <2>2, <2>3 DEF StubInv
<1>2. ASSUME NEW at
      PROVE  Spending(at) = [user |-> [a \in Accounts |-> Total(OfAccount(GrantedOn(at), a))],
                             hourly |-> Total(GrantedIn(at)), daily |-> Total(GrantedOn(at))]
  <2>. DEFINE today == {w \in granted : SameDay(withdrawals[w].processedAt, at)}
              hour == {w \in granted : SameHour(withdrawals[w].processedAt, at)}
  <2>1. today = GrantedOn(at) /\ hour = GrantedIn(at)
      BY <1>1 DEF GrantedOn, GrantedIn
  <2>2. \A a : {w \in today : withdrawals[w].account = a} = OfAccount(today, a)
      BY DEF OfAccount
  <2>3. Spending(at) = [user |-> [a \in Accounts |-> Total({w \in today : withdrawals[w].account = a})],
                        hourly |-> Total(hour), daily |-> Total(today)]
      BY DEF Spending
  <2>. HIDE DEF today, hour
  <2>. QED
      BY <2>1, <2>2, <2>3
<1>. QED
    BY <1>2 DEF SpendingIsGranted

OnNext(at) == {w \in DOMAIN payouts' : SameDay(payouts'[w].createdAt, at)}
InNext(at) == {w \in DOMAIN payouts' : SameHour(payouts'[w].createdAt, at)}
OfNext(S, a) == {w \in S : withdrawals'[w].account = a}

LEMMA NextForms ==
    \A at : /\ Total(GrantedIn(at))' = TotalNext(InNext(at))
            /\ Total(GrantedOn(at))' = TotalNext(OnNext(at))
            /\ \A a : Total(OfAccount(GrantedOn(at), a))' = TotalNext(OfNext(OnNext(at), a))
BY DEF Total, TotalNext, GrantedIn, GrantedOn, OfAccount, InNext, OnNext, OfNext, Amount, Ids,
       SameDay, SameHour

LEMMA GrantedRows ==
    ASSUME IInv
    PROVE  /\ DOMAIN payouts \in SUBSET Ids
           /\ \A at : GrantedOn(at) \in SUBSET Ids /\ GrantedIn(at) \in SUBSET Ids
           /\ \A at, a : OfAccount(GrantedOn(at), a) \in SUBSET Ids
BY DEF IInv, StatusesAgree, TypeOK, GrantedOn, GrantedIn, OfAccount

(* Whoever grants nothing leaves the budgets alone. *)
LEMMA QuietLimits ==
    ASSUME IInv, IInv', StubInv, GrantedInv,
           payouts' = payouts, Ids \subseteq Ids',
           \A w \in Ids : /\ withdrawals'[w].amount = withdrawals[w].amount
                          /\ withdrawals'[w].account = withdrawals[w].account,
           \A w \in DOMAIN payouts : withdrawals'[w].processedAt = withdrawals[w].processedAt,
           \A s \in Submitters : submit'[s].pc = "idle"
    PROVE  StubInv' /\ GrantedInv' /\ \A at : Spending(at)' = Spending(at)
<1>1. TypeOK
    BY DEF IInv, StatusesAgree
<1>2. StubInv'
    BY DEF StubInv
<1>3. \A S \in SUBSET Ids : TotalNext(S) = Total(S)
    BY <1>1, TotalStays
<1>4. \A at : /\ OnNext(at) = GrantedOn(at) /\ InNext(at) = GrantedIn(at)
              /\ \A a : OfNext(GrantedOn(at), a) = OfAccount(GrantedOn(at), a)
  <2>1. \A at : OnNext(at) = GrantedOn(at) /\ InNext(at) = GrantedIn(at)
      BY DEF OnNext, InNext, GrantedOn, GrantedIn
  <2>2. \A at, a : OfNext(GrantedOn(at), a) = OfAccount(GrantedOn(at), a)
      BY GrantedRows DEF OfNext, OfAccount
  <2>. QED
      BY <2>1, <2>2
<1>5. \A at : /\ Total(GrantedIn(at))' = Total(GrantedIn(at))
              /\ Total(GrantedOn(at))' = Total(GrantedOn(at))
              /\ \A a : Total(OfAccount(GrantedOn(at), a))' = Total(OfAccount(GrantedOn(at), a))
  <2>1. ASSUME NEW at
        PROVE  /\ TotalNext(InNext(at)) = Total(GrantedIn(at))
               /\ TotalNext(OnNext(at)) = Total(GrantedOn(at))
               /\ \A a : TotalNext(OfNext(OnNext(at), a)) = Total(OfAccount(GrantedOn(at), a))
      BY <1>3, <1>4, GrantedRows
  <2>. QED
      BY <2>1, NextForms
<1>6. GrantedInv'
  <2>1. \A w \in DOMAIN payouts : Amount(w)' = Amount(w)
      BY GrantedRows DEF Amount
  <2>. QED
      BY <1>5, <2>1 DEF GrantedInv
<1>7. \A at : Spending(at)' = Spending(at)
  <2>1. SpendingIsGranted
      BY SpendingForm
  <2>2. SpendingIsGranted'
      BY <1>2, SpendingForm, PTL
  <2>. QED
      BY <1>5, <2>1, <2>2 DEF SpendingIsGranted
<1>. QED
    BY <1>2, <1>6, <1>7

(* What a run has read is a budget, and one within the limits. *)
LEMMA BudgetFits ==
    ASSUME IInv, StubInv, GrantedInv, NEW at \in Nat
    PROVE  /\ Spending(at) \in Budget /\ WithinLimits(Spending(at))
           /\ Spending(at).hourly = Total(GrantedIn(at)) /\ Spending(at).daily = Total(GrantedOn(at))
           /\ \A a \in Accounts : Spending(at).user[a] = Total(OfAccount(GrantedOn(at), a))
<1>. DEFINE user == [a \in Accounts |-> Total(OfAccount(GrantedOn(at), a))]
<1>1. Spending(at) = [user |-> user, hourly |-> Total(GrantedIn(at)), daily |-> Total(GrantedOn(at))]
    BY SpendingForm DEF SpendingIsGranted
<1>2. TypeOK
    BY DEF IInv, StatusesAgree
<1>3. /\ Total(GrantedIn(at)) \in Nat /\ Total(GrantedOn(at)) \in Nat
      /\ \A a \in Accounts : Total(OfAccount(GrantedOn(at), a)) \in Nat
    BY <1>2, GrantedRows, TotalFacts
<1>4. user \in [Accounts -> Nat] /\ \A a \in Accounts : user[a] = Total(OfAccount(GrantedOn(at), a))
    BY <1>3
<1>. HIDE DEF user
<1>. QED
    BY <1>1, <1>3, <1>4 DEF Budget, WithinLimits, GrantedInv

(* A run commits its grants: they come on top of what was granted in the   *)
(* hour and on the day whose budget it read.                               *)
LEMMA CommitLimits ==
    ASSUME IInv, IInv', PayoutMode = "stub", StubInv, QueueInv, BudgetInv, GrantedInv,
           NEW p \in Processors, ProcessCommit(p)
    PROVE  StubInv' /\ GrantedInv'
<1>. DEFINE at == process[p].at
            batch == process[p].batch
            b == process[p].budget
            verdict == Verdicts(p)
            granted == {w \in Held(p) : verdict[w] = "GRANTED"}
<1>1. TypeOK /\ ShapeInv /\ at \in Nat
    BY DEF IInv, StatusesAgree, ShapeInv, ProcessRun
<1>2. PICK n \in Nat : DOMAIN batch = 1..n
    BY DEF QueueInv
<1>3. /\ \A k \in 1..n : batch[k] \in Ids
      /\ \A j, k \in 1..n : batch[j] = batch[k] => j = k
      /\ Held(p) = {batch[k] : k \in 1..n}
  <2>1. Held(p) \subseteq Ids
      BY <1>1 DEF TypeOK
  <2>. QED
      BY <1>2, <2>1 DEF Held, QueueInv
<1>4. b = Spending(at)
    BY <1>1 DEF BudgetInv, ProcessCommit
<1>5. /\ b \in Budget /\ WithinLimits(b)
      /\ b.hourly = Total(GrantedIn(at)) /\ b.daily = Total(GrantedOn(at))
      /\ \A a \in Accounts : b.user[a] = Total(OfAccount(GrantedOn(at), a))
    BY <1>1, <1>4, BudgetFits
<1>6. granted = GrantedUpTo(b, batch, n)
  <2>1. \A w \in Held(p) : verdict[w] =
            Verdict(Charges(b, batch)[CHOOSE k \in DOMAIN batch : batch[k] = w], w)
      BY VerdictsAreTheLoops
  <2>. HIDE DEF verdict, b, batch
  <2>2. ASSUME NEW k \in 1..n PROVE verdict[batch[k]] = Verdict(Charges(b, batch)[k], batch[k])
    <3>1. (CHOOSE j \in DOMAIN batch : batch[j] = batch[k]) = k
        BY <1>2, <1>3
    <3>. QED
        BY <1>3, <2>1, <3>1
  <2>. QED
      BY <1>3, <2>2 DEF GrantedUpTo
<1>. DEFINE c == After(b, batch, n)
<1>7. /\ WithinLimits(c) /\ granted \subseteq Ids /\ Spends(c, b, granted)
      /\ \A w \in granted : Amount(w) <= SingleMax
  <2>. HIDE DEF b, batch, granted
  <2>1. n \in 0..n
      OBVIOUS
  <2>. QED
      BY <1>1, <1>2, <1>3, <1>5, <1>6, <2>1, LoopCharges
<1>8. /\ granted \cap DOMAIN payouts = {} /\ UNCHANGED <<deployment, submit>>
      /\ Ids' = Ids
      /\ \A w \in Ids : /\ withdrawals'[w].amount = withdrawals[w].amount
                        /\ withdrawals'[w].account = withdrawals[w].account
      /\ \A w \in granted : withdrawals'[w].processedAt = at
      /\ \A w \in DOMAIN payouts : withdrawals'[w].processedAt = withdrawals[w].processedAt
      /\ DOMAIN payouts' = DOMAIN payouts \cup granted
      /\ \A w \in granted : payouts'[w] = NewPayout(w, at)
      /\ \A w \in DOMAIN payouts : payouts'[w] = payouts[w]
  <2>1. /\ granted \cap DOMAIN payouts = {} /\ UNCHANGED <<deployment, submit>>
        /\ withdrawals' = [w \in Ids |->
              IF w \in granted
              THEN [withdrawals[w] EXCEPT !.status = IF PayoutMode = "stub" THEN "CONFIRMED"
                                                                            ELSE "PAYOUT_CREATED",
                                          !.processedAt = at]
              ELSE IF w \in Held(p) THEN [withdrawals[w] EXCEPT !.status = verdict[w]]
              ELSE withdrawals[w]]
        /\ payouts' = [w \in DOMAIN payouts \cup granted |->
              IF w \in granted THEN NewPayout(w, at) ELSE payouts[w]]
      BY DEF ProcessCommit
  <2>. HIDE DEF granted, verdict, at
  <2>2. Ids' = Ids
      BY <2>1 DEF Ids
  <2>3. \A w \in Ids : withdrawals[w] \in Withdrawal
      BY <1>1, TableFacts
  <2>4. DOMAIN payouts \subseteq Ids /\ granted \subseteq Ids
      BY <1>1, <1>7 DEF TypeOK
  <2>5. ASSUME NEW w \in Ids
        PROVE  /\ withdrawals'[w].amount = withdrawals[w].amount
               /\ withdrawals'[w].account = withdrawals[w].account
               /\ withdrawals'[w].processedAt = IF w \in granted THEN at ELSE withdrawals[w].processedAt
      BY <2>1, <2>3 DEF Withdrawal
  <2>. QED
      BY <2>1, <2>2, <2>4, <2>5
<1>. HIDE DEF granted, at, b, c, batch
<1>9. StubInv'
  <2>1. \A w \in granted : payouts'[w].status = "CONFIRMED" /\ payouts'[w].createdAt = at
      BY <1>8 DEF NewPayout
  <2>. QED
      BY <1>8, <2>1 DEF StubInv
<1>10. \A S \in SUBSET Ids : TotalNext(S) = Total(S)
    BY <1>1, <1>8, TotalStays
<1>11. \A w \in granted : payouts'[w].createdAt = at
    BY <1>8 DEF NewPayout
<1>12. granted \in SUBSET Ids /\ \A a : OfAccount(granted, a) \in SUBSET Ids
    BY <1>7 DEF OfAccount
<1>13. ASSUME NEW t \in Nat
       PROVE  TotalNext(InNext(t)) <= GlobalHourlyMax
  <2>1. InNext(t) = GrantedIn(t) \cup (IF SameHour(at, t) THEN granted ELSE {})
      BY <1>8, <1>11 DEF InNext, GrantedIn
  <2>2. CASE SameHour(at, t)
    <3>1. InNext(t) = GrantedIn(at) \cup granted /\ GrantedIn(at) \cap granted = {}
        BY <1>8, <2>1, <2>2 DEF SameHour, GrantedIn
    <3>2. TotalNext(InNext(t)) = Total(GrantedIn(at)) + Total(granted)
        BY <1>1, <1>10, <1>12, <3>1, GrantedRows, TotalFacts
    <3>. QED
        BY <1>5, <1>7, <3>2 DEF Spends, WithinLimits
  <2>3. CASE ~SameHour(at, t)
    <3>1. TotalNext(InNext(t)) = Total(GrantedIn(t))
        BY <1>10, <2>1, <2>3, GrantedRows
    <3>. QED
        BY <3>1 DEF GrantedInv
  <2>. QED
      BY <2>2, <2>3
<1>14. ASSUME NEW t \in Nat
       PROVE  /\ TotalNext(OnNext(t)) <= GlobalDailyMax
              /\ \A a \in Accounts : TotalNext(OfNext(OnNext(t), a)) <= UserDailyMax
  <2>1. OnNext(t) = GrantedOn(t) \cup (IF SameDay(at, t) THEN granted ELSE {})
      BY <1>8, <1>11 DEF OnNext, GrantedOn
  <2>2. OnNext(t) \subseteq Ids
      BY <1>12, <2>1, GrantedRows
  <2>3. \A a : OfNext(OnNext(t), a) = OfAccount(OnNext(t), a)
      BY <1>8, <2>2 DEF OfNext, OfAccount
  <2>4. CASE SameDay(at, t)
    <3>1. GrantedOn(t) = GrantedOn(at)
      <4>1. \A x : SameDay(x, t) <=> SameDay(x, at)
          BY <1>1, <2>4 DEF SameDay
      <4>. QED
          BY <4>1 DEF GrantedOn
    <3>2. OnNext(t) = GrantedOn(at) \cup granted /\ GrantedOn(at) \cap granted = {}
        BY <1>8, <2>1, <2>4, <3>1 DEF GrantedOn
    <3>3. TotalNext(OnNext(t)) = Total(GrantedOn(at)) + Total(granted)
        BY <1>1, <1>10, <1>12, <3>2, GrantedRows, TotalFacts
    <3>4. ASSUME NEW a \in Accounts
          PROVE  TotalNext(OfNext(OnNext(t), a)) =
                    Total(OfAccount(GrantedOn(at), a)) + Total(OfAccount(granted, a))
      <4>1. OfNext(OnNext(t), a) = OfAccount(GrantedOn(at), a) \cup OfAccount(granted, a)
          BY <2>3, <3>2 DEF OfAccount
      <4>2. OfAccount(GrantedOn(at), a) \cap OfAccount(granted, a) = {}
          BY <3>2 DEF OfAccount
      <4>. QED
          BY <1>1, <1>10, <1>12, <4>1, <4>2, GrantedRows, TotalFacts
    <3>. QED
        BY <1>5, <1>7, <3>3, <3>4 DEF Spends, WithinLimits
  <2>5. CASE ~SameDay(at, t)
    <3>1. /\ TotalNext(OnNext(t)) = Total(GrantedOn(t))
          /\ \A a \in Accounts : TotalNext(OfNext(OnNext(t), a)) = Total(OfAccount(GrantedOn(t), a))
        BY <1>10, <2>1, <2>3, <2>5, GrantedRows
    <3>. QED
        BY <3>1 DEF GrantedInv
  <2>. QED
      BY <2>4, <2>5
<1>15. \A w \in DOMAIN payouts' : Amount(w)' <= SingleMax
  <2>1. \A w \in DOMAIN payouts' : w \in Ids /\ Amount(w)' = Amount(w)
      BY <1>8, <1>12, GrantedRows DEF Amount
  <2>. QED
      BY <1>7, <1>8, <2>1 DEF GrantedInv
<1>. QED
    BY <1>9, <1>13, <1>14, <1>15, NextForms DEF GrantedInv

(* In stub mode no submit and no confirmation takes place, and of the      *)
(* other steps only the commit of a process run grants anything.           *)
LEMMA StubSteps ==
    ASSUME IInv, PayoutMode = "stub", StubInv, [Next]_vars
    PROVE  \/ /\ process' = process
              /\ payouts' = payouts /\ Ids \subseteq Ids'
              /\ \A w \in Ids : /\ withdrawals'[w].amount = withdrawals[w].amount
                                /\ withdrawals'[w].account = withdrawals[w].account
                                /\ withdrawals'[w].processedAt = withdrawals[w].processedAt
              /\ \A s \in Submitters : submit'[s].pc = "idle"
           \/ \E p \in Processors : ProcessSteps(p) \/ ProcessAbort(p)
<1>. DEFINE Quiet == /\ process' = process
                     /\ payouts' = payouts /\ Ids \subseteq Ids'
                     /\ \A w \in Ids : /\ withdrawals'[w].amount = withdrawals[w].amount
                                       /\ withdrawals'[w].account = withdrawals[w].account
                                       /\ withdrawals'[w].processedAt = withdrawals[w].processedAt
                     /\ \A s \in Submitters : submit'[s].pc = "idle"
<1>0. /\ \A w \in DOMAIN payouts : payouts[w].status = "CONFIRMED"
      /\ \A s \in Submitters : submit[s].pc = "idle" /\ submit[s].todo = {}
    BY DEF IInv, LockInv, StubInv
<1>1. CASE \E a \in Accounts, amount \in Amounts : CreateWithdrawal(a, amount)
  <2>1. PICK row : /\ withdrawals' = Append(withdrawals, row)
                   /\ UNCHANGED <<process, payouts, submit>>
      BY <1>1 DEF CreateWithdrawal
  <2>2. withdrawals \in Seq(Withdrawal)
      BY TableFacts DEF IInv, StatusesAgree
  <2>3. Ids \subseteq Ids' /\ \A w \in Ids : withdrawals'[w] = withdrawals[w]
      BY <2>1, <2>2 DEF Ids
  <2>. QED
      BY <1>0, <2>1, <2>3
<1>2. CASE \E w \in Ids, approve \in BOOLEAN : ReviewWithdrawal(w, approve)
  <2>1. PICK w \in Ids : \E s : /\ withdrawals' = [withdrawals EXCEPT ![w].status = s]
                                /\ UNCHANGED <<process, payouts, submit>>
      BY <1>2 DEF ReviewWithdrawal
  <2>2. PICK s : /\ withdrawals' = [withdrawals EXCEPT ![w].status = s]
                 /\ UNCHANGED <<process, payouts, submit>>
      BY <2>1
  <2>3. \A v \in Ids : withdrawals[v] \in Withdrawal
      BY TableFacts DEF IInv, StatusesAgree
  <2>4. Ids' = Ids
      BY <2>2 DEF Ids
  <2>5. ASSUME NEW v \in Ids
        PROVE  /\ withdrawals'[v].amount = withdrawals[v].amount
               /\ withdrawals'[v].account = withdrawals[v].account
               /\ withdrawals'[v].processedAt = withdrawals[v].processedAt
    <3>1. withdrawals'[v] = IF v = w THEN [withdrawals[v] EXCEPT !.status = s] ELSE withdrawals[v]
        BY <2>2 DEF Ids
    <3>. QED
        BY <2>3, <3>1 DEF Withdrawal
  <2>. QED
      BY <1>0, <2>2, <2>4, <2>5
<1>3. CASE UNCHANGED <<process, payouts, withdrawals, submit>>
    BY <1>0, <1>3 DEF Ids
<1>4. CASE \E value \in BOOLEAN : SetHotWalletPayoutsPaused(value)
    BY <1>3, <1>4 DEF SetHotWalletPayoutsPaused
<1>5. CASE \E s \in Submitters : SubmitSteps(s) \/ SubmitPauses(s) \/ SubmitAbort(s)
  <2>1. PICK s \in Submitters : SubmitSteps(s) \/ SubmitPauses(s) \/ SubmitAbort(s)
      BY <1>5
  <2>2. submit[s].pc = "idle" /\ submit[s].todo = {}
      BY <1>0
  <2>. QED
      BY <2>1, <2>2 DEF SubmitSteps, SubmitLockBatch, SubmitPauses, MaySubmit, SubmitSend, SubmitSendFails,
         SubmitRecipientMissing, SubmitMisconfigured, SubmitDuplicate, SubmitCommit, SubmitAbort
<1>6. CASE ConfirmPayouts
  <2>. DEFINE open == {w \in DOMAIN payouts : payouts[w].status = "SUBMITTED"}
  <2>1. \E batch \in SUBSET open :
           {w \in batch : Outcome(payouts[w].signature) = "landed"} \cup
           {w \in batch : Outcome(payouts[w].signature) = "failed"} # {}
      BY <1>6 DEF ConfirmPayouts
  <2>2. open = {}
      BY <1>0
  <2>. QED
      BY <2>1, <2>2
<1>7. CASE \E sig \in DOMAIN chain, result \in {"landed", "failed", "dropped"} : Resolve(sig, result)
    BY <1>3, <1>7 DEF Resolve, tables
<1>8. CASE NewBlock \/ Tick
    BY <1>3, <1>8 DEF NewBlock, Tick, tables
<1>9. CASE UNCHANGED vars
    BY <1>3, <1>9 DEF vars, tables
<1>. QED
    BY <1>1, <1>2, <1>4, <1>5, <1>6, <1>7, <1>8, <1>9 DEF Next

LEMMA ModeStays ==
    ASSUME [Next]_vars
    PROVE  deployment' = deployment
BY DEF Next, vars, tables, CreateWithdrawal, ReviewWithdrawal, SetHotWalletPayoutsPaused, ProcessSteps,
   ProcessStart, ProcessReadBudget, ProcessLockBatch, ProcessCommit, ProcessAbort, SubmitSteps,
   SubmitLockBatch, SubmitSend, SubmitSendFails, SubmitRecipientMissing, SubmitMisconfigured,
   SubmitDuplicate, SubmitRollback, SubmitCommit, SubmitPauses, SubmitAbort, ConfirmPayouts, Resolve,
   NewBlock, Tick

(* The steps of a process run before its commit. *)
LEMMA ReadLimits ==
    ASSUME IInv, IInv', StubInv, QueueInv, BudgetInv, GrantedInv, NEW p \in Processors,
           ProcessStart(p) \/ ProcessReadBudget(p) \/ ProcessLockBatch(p) \/ ProcessAbort(p)
    PROVE  StubInv' /\ QueueInv' /\ BudgetInv' /\ GrantedInv'
<1>1. /\ UNCHANGED <<withdrawals, payouts, submit>>
      /\ process' = [process EXCEPT ![p] = process'[p]]
      /\ process \in [Processors -> ProcessRun]
    BY DEF IInv, ShapeInv, ProcessStart, ProcessReadBudget, ProcessLockBatch, ProcessAbort, tables
<1>2. StubInv' /\ GrantedInv' /\ \A at : Spending(at)' = Spending(at)
  <2>1. Ids' = Ids
      BY <1>1 DEF Ids
  <2>. QED
      BY <1>1, <2>1, QuietLimits DEF StubInv
<1>3. \A q \in Processors : q # p => process'[q] = process[q]
    BY <1>1
<1>4. process[p] \in ProcessRun
    BY <1>1
<1>5. CASE ProcessStart(p) \/ ProcessAbort(p)
  <2>1. process'[p].batch = << >> /\ process'[p].pc \in {"idle", "started"}
    <3>1. DOMAIN process = Processors
        BY <1>1
    <3>2. CASE process' = [process EXCEPT ![p] = [IdleProcess EXCEPT !.pc = "started", !.at = now]]
      <4>1. process'[p] = [IdleProcess EXCEPT !.pc = "started", !.at = now]
          BY <3>1, <3>2
      <4>. QED
          BY <4>1 DEF IdleProcess
    <3>3. CASE process' = [process EXCEPT ![p] = IdleProcess]
      <4>1. process'[p] = IdleProcess
          BY <3>1, <3>3
      <4>. QED
          BY <4>1 DEF IdleProcess
    <3>. QED
        BY <1>5, <3>2, <3>3 DEF ProcessStart, ProcessAbort
  <2>2. DOMAIN process'[p].batch = 1..0 /\ 1..0 = {}
      BY <2>1
  <2>3. QueueInv'
    <3>1. ASSUME NEW q \in Processors
          PROVE  /\ \E n \in Nat : DOMAIN process'[q].batch = 1..n
                 /\ \A j, k \in DOMAIN process'[q].batch :
                       process'[q].batch[j] = process'[q].batch[k] => j = k
      <4>1. CASE q = p
          BY <2>2, <4>1
      <4>2. CASE q # p
          BY <1>3, <4>2 DEF QueueInv
      <4>. QED
          BY <4>1, <4>2
    <3>. QED
        BY <3>1 DEF QueueInv
  <2>4. BudgetInv'
      BY <1>2, <1>3, <2>1 DEF BudgetInv
  <2>. QED
      BY <1>2, <2>3, <2>4
<1>6. CASE ProcessReadBudget(p)
  <2>1. /\ process'[p].batch = process[p].batch /\ process'[p].at = process[p].at
        /\ process'[p].budget = Spending(process[p].at)
      BY <1>1, <1>4, <1>6 DEF ProcessReadBudget, ProcessRun
  <2>2. QueueInv'
      BY <1>3, <2>1 DEF QueueInv
  <2>3. BudgetInv'
    <3>1. ASSUME NEW q \in Processors, NEW at \in Nat,
                 process'[q].pc \in {"budgeted", "locked"}, process'[q].at = at
          PROVE  process'[q].budget = Spending(at)
      <4>1. CASE q = p
        <5>1. process[p].at = at
            BY <2>1, <3>1, <4>1
        <5>. QED
            BY <2>1, <4>1, <5>1
      <4>2. CASE q # p
          BY <1>3, <3>1, <4>2 DEF BudgetInv
      <4>. QED
          BY <4>1, <4>2
    <3>. QED
        BY <1>2, <3>1 DEF BudgetInv
  <2>. QED
      BY <1>2, <2>2, <2>3
<1>7. CASE ProcessLockBatch(p)
  <2>. DEFINE free == {w \in Ids : /\ withdrawals[w].status = "QUEUED"
                                   /\ \A q \in Processors \ {p} : w \notin Held(q)}
              batch == First(free, ProcessLimit)
              rows == [k \in 1..Cardinality(batch) |->
                          CHOOSE w \in batch : Cardinality(Older(free, w)) = k - 1]
  <2>1. /\ process[p].pc = "budgeted"
        /\ process' = [process EXCEPT ![p] = [process[p] EXCEPT !.pc = "locked", !.batch = rows]]
      BY <1>7 DEF ProcessLockBatch, First, Older
  <2>2. Cardinality(batch) \in Nat
        /\ \A k \in 1..Cardinality(batch) : \E w \in batch : Cardinality(Older(free, w)) = k - 1
    <3>1. IsFiniteSet(Ids) /\ Ids \subseteq Nat
        BY TableFacts DEF IInv, StatusesAgree
    <3>2. free \in SUBSET Nat /\ IsFiniteSet(free)
        BY <3>1, FS_Subset
    <3>. HIDE DEF free
    <3>. QED
        BY <3>2, PayoutsAssumption, RankExists
  <2>. HIDE DEF batch, free
  <2>3. \A j, k \in DOMAIN rows : rows[j] = rows[k] => j = k
    <3>1. \A k \in DOMAIN rows : Cardinality(Older(free, rows[k])) = k - 1
        BY <2>2
    <3>2. \A k \in DOMAIN rows : k \in Nat
        BY <2>2
    <3>. HIDE DEF rows
    <3>3. ASSUME NEW j \in DOMAIN rows, NEW k \in DOMAIN rows, rows[j] = rows[k] PROVE j = k
      <4>1. j - 1 = k - 1
          BY <3>1, <3>3
      <4>. QED
          BY <3>2, <4>1
    <3>. QED
        BY <3>3
  <2>4. \E n \in Nat : DOMAIN rows = 1..n
      BY <2>2
  <2>. HIDE DEF rows
  <2>5. /\ process'[p].batch = rows /\ process'[p].at = process[p].at
        /\ process'[p].budget = process[p].budget
      BY <1>1, <1>4, <2>1 DEF ProcessRun
  <2>6. QueueInv'
      BY <1>3, <2>3, <2>4, <2>5 DEF QueueInv
  <2>7. BudgetInv'
    <3>1. ASSUME NEW q \in Processors, NEW at \in Nat,
                 process'[q].pc \in {"budgeted", "locked"}, process'[q].at = at
          PROVE  process'[q].budget = Spending(at)
        BY <1>3, <2>1, <2>5, <3>1 DEF BudgetInv
    <3>. QED
        BY <1>2, <3>1 DEF BudgetInv
  <2>. QED
      BY <1>2, <2>6, <2>7
<1>. QED
    BY <1>5, <1>6, <1>7

(* With one process run at a time the budgets a run has read are good      *)
(* until it commits.                                                       *)
LEMMA NextLimits ==
    ASSUME \A p, q \in Processors : p = q
    PROVE  IInv /\ IInv' /\ LimitIInv /\ [Next]_vars => LimitIInv'
<1>. SUFFICES ASSUME IInv, IInv', LimitIInv, [Next]_vars, PayoutMode = "stub"
              PROVE  StubInv' /\ QueueInv' /\ BudgetInv' /\ GrantedInv'
    BY ModeStays DEF LimitIInv, PayoutMode
<1>1. StubInv /\ QueueInv /\ BudgetInv /\ GrantedInv
    BY DEF LimitIInv
<1>2. CASE /\ process' = process
           /\ payouts' = payouts /\ Ids \subseteq Ids'
           /\ \A w \in Ids : /\ withdrawals'[w].amount = withdrawals[w].amount
                             /\ withdrawals'[w].account = withdrawals[w].account
                             /\ withdrawals'[w].processedAt = withdrawals[w].processedAt
           /\ \A s \in Submitters : submit'[s].pc = "idle"
  <2>1. \A w \in DOMAIN payouts : withdrawals'[w].processedAt = withdrawals[w].processedAt
      BY <1>2, GrantedRows
  <2>2. StubInv' /\ GrantedInv' /\ \A at : Spending(at)' = Spending(at)
      BY <1>1, <1>2, <2>1, QuietLimits
  <2>. QED
      BY <1>1, <1>2, <2>2 DEF QueueInv, BudgetInv
<1>3. ASSUME NEW p \in Processors, ProcessSteps(p) \/ ProcessAbort(p)
      PROVE  StubInv' /\ QueueInv' /\ BudgetInv' /\ GrantedInv'
  <2>1. CASE ProcessCommit(p)
    <3>1. StubInv' /\ GrantedInv'
        BY <1>1, <2>1, CommitLimits
    <3>2. process' = [process EXCEPT ![p] = IdleProcess]
        BY <2>1 DEF ProcessCommit
    <3>3. process'[p] = IdleProcess /\ \A q \in Processors : q = p
        BY <3>2 DEF IInv, ShapeInv
    <3>4. IdleProcess.batch = << >> /\ IdleProcess.pc = "idle"
        BY DEF IdleProcess
    <3>5. DOMAIN IdleProcess.batch = 1..0
        BY <3>4
    <3>. QED
        BY <3>1, <3>3, <3>4, <3>5 DEF QueueInv, BudgetInv
  <2>2. CASE ProcessStart(p) \/ ProcessReadBudget(p) \/ ProcessLockBatch(p) \/ ProcessAbort(p)
      BY <1>1, <2>2, ReadLimits
  <2>. QED
      BY <1>3, <2>1, <2>2 DEF ProcessSteps
<1>. QED
    BY <1>1, <1>2, <1>3, StubSteps

LEMMA InitLimits == Init => LimitIInv
<1>. SUFFICES ASSUME Init PROVE StubInv /\ QueueInv /\ BudgetInv /\ GrantedInv
    BY DEF LimitIInv
<1>. USE DEF Init
<1>1. StubInv
    BY DEF StubInv, IdleSubmit
<1>2. QueueInv /\ BudgetInv
  <2>1. \A p \in Processors : process[p].batch = << >> /\ process[p].pc = "idle"
      BY DEF IdleProcess
  <2>2. \A p \in Processors : DOMAIN process[p].batch = 1..0
      BY <2>1
  <2>. QED
      BY <2>1, <2>2 DEF QueueInv, BudgetInv
<1>3. GrantedInv
  <2>1. \A at : /\ GrantedIn(at) = {} /\ GrantedOn(at) = {}
                /\ \A a : OfAccount(GrantedOn(at), a) = {}
      BY DEF GrantedIn, GrantedOn, OfAccount
  <2>2. Total({}) = 0
      BY InitIInv, TotalFacts DEF IInv, StatusesAgree
  <2>3. {UserDailyMax, GlobalHourlyMax, GlobalDailyMax} \subseteq Nat
      BY PayoutsAssumption
  <2>4. \A at : /\ Total(GrantedIn(at)) = 0 /\ Total(GrantedOn(at)) = 0
                /\ \A a : Total(OfAccount(GrantedOn(at), a)) = 0
      BY <2>1, <2>2
  <2>5. DOMAIN payouts = {}
      OBVIOUS
  <2>. QED
      BY <2>3, <2>4, <2>5 DEF GrantedInv
<1>. QED
    BY <1>1, <1>2, <1>3

(* The limits of automatic withdrawals hold of every hour, day and account *)
(* as long as one run at a time grants and payouts are stubs: a run counts *)
(* its own grants on top of budgets that nobody else changes.  Of two      *)
(* runs, or when a submit moves processed_at, that is not so.              *)
THEOREM LimitsAlwaysRespected ==
    ASSUME \A p, q \in Processors : p = q
    PROVE  Spec => [](PayoutMode = "stub" => LimitsRespected)
<1>1. IInv /\ LimitIInv => (PayoutMode = "stub" => LimitsRespected)
  <2>. SUFFICES ASSUME IInv, StubInv, GrantedInv PROVE LimitsRespected
      BY DEF LimitIInv
  <2>. DEFINE standing == {w \in DOMAIN payouts : payouts[w].status # "FAILED"}
  <2>1. standing = DOMAIN payouts
      BY DEF StubInv
  <2>2. \A w \in DOMAIN payouts : payouts[w].createdAt \in Nat
      BY DEF IInv, StatusesAgree, TypeOK, PayoutRow
  <2>3. \A w \in DOMAIN payouts : withdrawals[w].account \in Accounts
      BY GrantedRows, TotalFacts DEF IInv, StatusesAgree
  <2>4. \A at : /\ {v \in standing : SameHour(payouts[v].createdAt, at)} = GrantedIn(at)
                /\ {v \in standing : SameDay(payouts[v].createdAt, at)} = GrantedOn(at)
      BY <2>1 DEF GrantedIn, GrantedOn
  <2>. HIDE DEF standing
  <2>5. LimitsRespected <=>
          \A w \in standing :
            /\ Amount(w) <= SingleMax
            /\ Total({v \in standing : SameHour(payouts[v].createdAt, payouts[w].createdAt)})
                  <= GlobalHourlyMax
            /\ Total({v \in standing : SameDay(payouts[v].createdAt, payouts[w].createdAt)})
                  <= GlobalDailyMax
            /\ Total({v \in {u \in standing : SameDay(payouts[u].createdAt, payouts[w].createdAt)} :
                          withdrawals[v].account = withdrawals[w].account}) <= UserDailyMax
      BY DEF LimitsRespected, standing
  <2>6. ASSUME NEW w \in standing
        PROVE  /\ Amount(w) <= SingleMax
               /\ Total(GrantedIn(payouts[w].createdAt)) <= GlobalHourlyMax
               /\ Total(GrantedOn(payouts[w].createdAt)) <= GlobalDailyMax
               /\ Total(OfAccount(GrantedOn(payouts[w].createdAt), withdrawals[w].account)) <= UserDailyMax
      BY <2>1, <2>2, <2>3 DEF GrantedInv
  <2>. QED
      BY <2>4, <2>5, <2>6 DEF OfAccount
<1>2. Init => IInv /\ LimitIInv
    BY InitIInv, InitLimits
<1>3. IInv /\ LimitIInv /\ [Next]_vars => IInv' /\ LimitIInv'
    BY NextIInv, NextLimits
<1>. QED
    BY <1>1, <1>2, <1>3, PTL DEF Spec
=============================================================================
