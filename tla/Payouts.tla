------------------------------ MODULE Payouts -------------------------------
(***************************************************************************)
(* From a withdrawal request to an SPL transfer: the review by an          *)
(* administrator and the three worker jobs ProcessAutoWithdrawals,         *)
(* SubmitSolanaPayouts and ConfirmSolanaPayouts.                           *)
(*                                                                         *)
(* A job is one PostgreSQL transaction of several statements.  The worker  *)
(* gives up on a job after ten seconds while the job runs on, and there    *)
(* may be several replicas, so runs of one job overlap (Processors,        *)
(* Submitters).  What a run writes is visible when it commits; what it     *)
(* sends to Solana is not undone when it does not.  The chain is external. *)
(***************************************************************************)
EXTENDS Integers, Sequences, FiniteSets, FiniteSetsExt, Functions

CONSTANTS
    Accounts,         \* account ids; a withdrawal goes to the account's wallet
    Amounts,          \* AEB amounts a request may name
    SingleMax, UserDailyMax, GlobalHourlyMax, GlobalDailyMax,
    ProcessLimit, SubmitLimit, ConfirmLimit,   \* batch sizes of the jobs
    Deployments,      \* configurations: [mode, rpc] is SOLANA_PAYOUT_MODE, SOLANA_RPC_ENABLED
    HoursPerDay,
    Processors,       \* runs of ProcessAutoWithdrawals
    Submitters,       \* runs of SubmitSolanaPayouts
    NoOne,            \* nobody holds the hot wallet's row
    MaxWithdrawals,   \* bound: requests
    MaxNow,           \* bound: the clock, in hours
    MaxBlocks,        \* bound: blockhashes
    MaxAborts,        \* bound: runs that end without committing
    MaxLost           \* bound: sends whose answer is lost

ASSUME PayoutsAssumption ==
    /\ Amounts \subseteq Nat \ {0}
    /\ {SingleMax, UserDailyMax, GlobalHourlyMax, GlobalDailyMax, ProcessLimit, SubmitLimit,
        ConfirmLimit, MaxWithdrawals, MaxNow, MaxBlocks, MaxAborts, MaxLost} \subseteq Nat
    /\ HoursPerDay \in Nat \ {0}
    /\ Deployments \subseteq [mode : {"stub", "record", "rpc"}, rpc : BOOLEAN]
    /\ \A d \in Deployments : d.mode = "rpc" => d.rpc
    /\ NoOne \notin Submitters

VARIABLES
    deployment,   \* how the service is configured
    withdrawals,  \* withdrawals
    payouts,      \* solana_payouts: withdrawal id -> its row, if it has one
    paused,       \* hot_wallet_status.payouts_paused
    walletLock,   \* the submit run that holds the hot_wallet_status row
    process,      \* process runs in flight
    submit,       \* submit runs in flight
    chain,        \* external: signature -> what became of the transaction
    block,        \* external: the latest blockhash
    now,          \* wall clock, in hours
    aborts, lost, \* how often a run, an answer was lost
    sentFor,      \* history: signature -> the withdrawals it was sent for
    inDoubt       \* history: withdrawal id -> sends that no committed row records

tables == <<deployment, withdrawals, payouts, paused>>
external == <<chain, block>>
counts == <<now, aborts, lost>>
ghosts == <<sentFor, inDoubt>>
vars == <<tables, walletLock, process, submit, external, counts, ghosts>>

Ids == DOMAIN withdrawals
Never == -1

PayoutMode == deployment.mode
RpcEnabled == deployment.rpc

SameHour(s, t) == s = t
SameDay(s, t) == s >= 0 /\ s \div HoursPerDay = t \div HoursPerDay

Amount(w) == withdrawals[w].amount
Total(ids) == SumFunctionOnSet([w \in Ids |-> Amount(w)], ids)

NoBudget == [user |-> [a \in Accounts |-> 0], hourly |-> 0, daily |-> 0]
IdleProcess == [pc |-> "idle", at |-> 0, budget |-> NoBudget, batch |-> << >>]
IdleSubmit == [pc |-> "idle", at |-> 0, todo |-> {}, image |-> << >>, pausing |-> FALSE]

Init ==
    /\ deployment \in Deployments
    /\ withdrawals = << >>
    /\ payouts = << >>
    /\ paused = FALSE
    /\ walletLock = NoOne
    /\ process = [p \in Processors |-> IdleProcess]
    /\ submit = [s \in Submitters |-> IdleSubmit]
    /\ chain = << >>
    /\ block = 0
    /\ now = 0
    /\ aborts = 0
    /\ lost = 0
    /\ sentFor = << >>
    /\ inDoubt = << >>

-----------------------------------------------------------------------------
(* RequestWithdrawal and CreateWithdrawal; the debit is in AebLedger. *)
CreateWithdrawal(a, amount) ==
    /\ Len(withdrawals) < MaxWithdrawals
    /\ withdrawals' = Append(withdrawals,
            [account |-> a, amount |-> amount, processedAt |-> Never,
             status |-> IF amount > SingleMax THEN "MANUAL_REVIEW" ELSE "QUEUED"])
    /\ inDoubt' = Append(inDoubt, 0)
    /\ UNCHANGED <<deployment, payouts, paused, walletLock, process, submit, external, counts, sentFor>>

(* Fault: the review does not look at the status. *)
ReviewAnything(w, approve) ==
    /\ withdrawals' = [withdrawals EXCEPT ![w].status = IF approve THEN "QUEUED" ELSE "REJECTED"]
    /\ UNCHANGED <<deployment, payouts, paused, walletLock, process, submit, external, counts, ghosts>>

(* Fault: a queued withdrawal can be rejected. *)
ReviewQueued(w, approve) ==
    /\ withdrawals[w].status \in {"QUEUED", "MANUAL_REVIEW"}
    /\ withdrawals' = [withdrawals EXCEPT ![w].status = IF approve THEN "QUEUED" ELSE "REJECTED"]
    /\ UNCHANGED <<deployment, payouts, paused, walletLock, process, submit, external, counts, ghosts>>

(* ReviewWithdrawal; the refund of a rejection is in AebLedger. *)
ReviewWithdrawal(w, approve) ==
    /\ withdrawals[w].status = "MANUAL_REVIEW"
    /\ withdrawals' = [withdrawals EXCEPT ![w].status = IF approve THEN "QUEUED" ELSE "REJECTED"]
    /\ UNCHANGED <<deployment, payouts, paused, walletLock, process, submit, external, counts, ghosts>>

(* Fault: the pause does not wait for the run that is under way. *)
PauseAtOnce(value) ==
    /\ paused' = value
    /\ UNCHANGED <<deployment, withdrawals, payouts, walletLock, process, submit, external, counts, ghosts>>

(* SetHotWalletPayoutsPaused waits for a submit run that holds the row. *)
SetHotWalletPayoutsPaused(value) ==
    /\ walletLock = NoOne
    /\ paused' = value
    /\ UNCHANGED <<deployment, withdrawals, payouts, walletLock, process, submit, external, counts, ghosts>>

-----------------------------------------------------------------------------
(* ProcessAutoWithdrawalsWithChain.  The service reads the clock first. *)
ProcessStart(p) ==
    /\ process[p].pc = "idle"
    /\ process' = [process EXCEPT ![p] = [IdleProcess EXCEPT !.pc = "started", !.at = now]]
    /\ UNCHANGED <<tables, walletLock, submit, external, counts, ghosts>>

(* What the account and the server have been granted, as the rows tell it. *)
Spending(at) ==
    LET granted == {w \in Ids : withdrawals[w].status \in {"PAYOUT_CREATED", "SUBMITTED", "CONFIRMED"}}
        today == {w \in granted : SameDay(withdrawals[w].processedAt, at)}
    IN  [user |-> [a \in Accounts |-> Total({w \in today : withdrawals[w].account = a})],
         hourly |-> Total({w \in granted : SameHour(withdrawals[w].processedAt, at)}),
         daily |-> Total(today)]

ProcessReadBudget(p) ==
    /\ process[p].pc = "started"
    /\ process' = [process EXCEPT ![p].pc = "budgeted", ![p].budget = Spending(process[p].at)]
    /\ UNCHANGED <<tables, walletLock, submit, external, counts, ghosts>>

(* SELECT ... WHERE status = 'QUEUED' ORDER BY created_at LIMIT n FOR      *)
(* UPDATE SKIP LOCKED: no lock is waited for.                              *)
Held(p) == {process[p].batch[k] : k \in DOMAIN process[p].batch}

ProcessLockBatch(p) ==
    LET free == {w \in Ids : /\ withdrawals[w].status = "QUEUED"
                             /\ \A q \in Processors \ {p} : w \notin Held(q)}
        older(w) == {v \in free : v < w}
        batch == {w \in free : Cardinality(older(w)) < ProcessLimit}
    IN  /\ process[p].pc = "budgeted"
        /\ process' = [process EXCEPT ![p].pc = "locked", ![p].batch =
                [k \in 1..Cardinality(batch) |->
                    CHOOSE w \in batch : Cardinality(older(w)) = k - 1]]
        /\ UNCHANGED <<tables, walletLock, submit, external, counts, ghosts>>

(* The switch over the limits.  The hourly limit only delays, and is looked *)
(* at before the daily one.                                                *)
Verdict(budget, w) ==
    LET amount == Amount(w)
    IN  IF amount > SingleMax \/ budget.user[withdrawals[w].account] + amount > UserDailyMax
        THEN "MANUAL_REVIEW"
        ELSE IF budget.hourly + amount > GlobalHourlyMax THEN "QUEUED"
        ELSE IF budget.daily + amount > GlobalDailyMax THEN "MANUAL_REVIEW"
        ELSE "GRANTED"

(* Fault: every row of a batch is held against the budget that was read. *)
ChargeNothing(budget, w) == budget

(* A granted row counts against the rows that follow it in the batch. *)
Charge(budget, w) ==
    IF Verdict(budget, w) = "GRANTED"
    THEN [user |-> [budget.user EXCEPT ![withdrawals[w].account] = @ + Amount(w)],
          hourly |-> budget.hourly + Amount(w), daily |-> budget.daily + Amount(w)]
    ELSE budget

Verdicts(p) ==
    LET batch == process[p].batch
        before[k \in DOMAIN batch] ==
            IF k = 1 THEN process[p].budget ELSE Charge(before[k - 1], batch[k - 1])
    IN  [w \in Held(p) |->
            LET k == CHOOSE k \in DOMAIN batch : batch[k] = w IN Verdict(before[k], w)]

(* INSERT INTO solana_payouts: in stub mode the row is confirmed at once.  *)
StubSignature(w) == <<"stub", w>>

NewPayout(w, at) ==
    IF PayoutMode = "stub"
    THEN [status |-> "CONFIRMED", signature |-> StubSignature(w), createdAt |-> at]
    ELSE [status |-> "CREATED", signature |-> << >>, createdAt |-> at]

(* uq_solana_payouts_withdrawal lets a withdrawal have one payout row. *)
ProcessCommit(p) ==
    LET verdict == Verdicts(p)
        granted == {w \in Held(p) : verdict[w] = "GRANTED"}
        at == process[p].at
    IN  /\ process[p].pc = "locked"
        /\ granted \cap DOMAIN payouts = {}
        /\ withdrawals' = [w \in Ids |->
                IF w \in granted
                THEN [withdrawals[w] EXCEPT
                        !.status = IF PayoutMode = "stub" THEN "CONFIRMED" ELSE "PAYOUT_CREATED",
                        !.processedAt = at]
                ELSE IF w \in Held(p) THEN [withdrawals[w] EXCEPT !.status = verdict[w]]
                ELSE withdrawals[w]]
        /\ payouts' = [w \in DOMAIN payouts \cup granted |->
                IF w \in granted THEN NewPayout(w, at) ELSE payouts[w]]
        /\ process' = [process EXCEPT ![p] = IdleProcess]
        /\ UNCHANGED <<deployment, paused, walletLock, submit, external, counts, ghosts>>

(* must() panics, or the process dies: nothing was written. *)
ProcessAbort(p) ==
    /\ process[p].pc # "idle"
    /\ aborts < MaxAborts
    /\ aborts' = aborts + 1
    /\ process' = [process EXCEPT ![p] = IdleProcess]
    /\ UNCHANGED <<tables, walletLock, submit, external, now, lost, ghosts>>

-----------------------------------------------------------------------------
(* SubmitSolanaPayouts.  payoutsPaused upserts the hot wallet's row, which *)
(* keeps it locked to the end of the run; a paused wallet ends the run.    *)
MaySubmit(s) ==
    /\ PayoutMode # "stub"
    /\ submit[s].pc = "idle"
    /\ walletLock = NoOne
    /\ ~paused

(* ensureHotWalletFunded finds the key unusable or the balance too low. *)
SubmitPauses(s) ==
    /\ MaySubmit(s)
    /\ PayoutMode = "rpc"
    /\ paused' = TRUE
    /\ UNCHANGED <<deployment, withdrawals, payouts, walletLock, process, submit, external, counts, ghosts>>

(* Fault: payouts that were submitted are taken up again. *)
SubmitAgain(s) ==
    LET free == {w \in DOMAIN payouts : payouts[w].status \in {"CREATED", "SUBMITTED"}}
    IN  /\ MaySubmit(s)
        /\ free # {}
        /\ walletLock' = s
        /\ submit' = [submit EXCEPT ![s] = [IdleSubmit EXCEPT !.pc = "sending", !.at = now, !.todo = free]]
        /\ UNCHANGED <<tables, process, external, counts, ghosts>>

SubmitLockBatch(s) ==
    LET free == {w \in DOMAIN payouts : payouts[w].status = "CREATED"}
    IN  /\ MaySubmit(s)
        /\ free # {}
        /\ walletLock' = s
        /\ \E batch \in SUBSET free :
              /\ Cardinality(batch) = Min({SubmitLimit, Cardinality(free)})
              /\ \A v \in batch, w \in free \ batch : payouts[v].createdAt <= payouts[w].createdAt
              /\ submit' = [submit EXCEPT ![s] =
                      [IdleSubmit EXCEPT !.pc = "sending", !.at = now, !.todo = batch]]
        /\ UNCHANGED <<tables, process, external, counts, ghosts>>

(* A signature is that of the signed message: recipient, amount, blockhash. *)
Signature(w) ==
    IF PayoutMode = "rpc" THEN <<withdrawals[w].account, Amount(w), block>> ELSE <<"record", w>>

(* Fault: the column has no unique constraint. *)
NeverTaken(s, sig) == FALSE

(* solana_payouts.signature is UNIQUE. *)
SignatureTaken(s, sig) ==
    \/ \E w \in DOMAIN payouts : payouts[w].signature = sig
    \/ \E w \in DOMAIN submit[s].image : submit[s].image[w].signature = sig

Write(s, w, row) ==
    submit' = [submit EXCEPT ![s].todo = @ \ {w},
                             ![s].image = [v \in DOMAIN @ \cup {w} |-> IF v = w THEN row ELSE @[v]]]

(* The cluster has the transaction; the same bytes are the same transaction. *)
Broadcast(w, sig) ==
    /\ chain' = [t \in DOMAIN chain \cup {sig} |-> IF t \in DOMAIN chain THEN chain[t] ELSE "pending"]
    /\ sentFor' = [t \in DOMAIN sentFor \cup {sig} |->
            (IF t \in DOMAIN sentFor THEN sentFor[t] ELSE {}) \cup (IF t = sig THEN {w} ELSE {})]

(* SendSPLTransfer returns a signature. *)
SubmitSend(s, w) ==
    LET sig == Signature(w)
    IN  /\ w \in submit[s].todo
        /\ ~SignatureTaken(s, sig)
        /\ Write(s, w, [payouts[w] EXCEPT !.status = "SUBMITTED", !.signature = sig])
        /\ IF PayoutMode = "rpc" THEN Broadcast(w, sig) ELSE UNCHANGED <<chain, sentFor>>
        /\ UNCHANGED <<tables, walletLock, process, block, counts, inDoubt>>

(* SendSPLTransfer returns an error: the transaction may be out, or not.   *)
(* The row stays CREATED for the next run.                                 *)
SubmitSendFails(s, w) ==
    /\ PayoutMode = "rpc"
    /\ w \in submit[s].todo
    /\ submit' = [submit EXCEPT ![s].todo = @ \ {w}]
    /\ \/ UNCHANGED <<chain, lost, ghosts>>
       \/ /\ lost < MaxLost
          /\ lost' = lost + 1
          /\ Broadcast(w, Signature(w))
          /\ inDoubt' = [inDoubt EXCEPT ![w] = @ + 1]
    /\ UNCHANGED <<tables, walletLock, process, block, now, aborts>>

(* ErrRecipientATAMissing. *)
SubmitRecipientMissing(s, w) ==
    /\ PayoutMode = "rpc"
    /\ w \in submit[s].todo
    /\ Write(s, w, [payouts[w] EXCEPT !.status = "FAILED"])
    /\ UNCHANGED <<tables, walletLock, process, external, counts, ghosts>>

(* ErrPayoutKeyMissing or ErrPayoutConfig: pause, and leave the loop. *)
SubmitMisconfigured(s, w) ==
    /\ PayoutMode = "rpc"
    /\ w \in submit[s].todo
    /\ submit' = [submit EXCEPT ![s].todo = {}, ![s].pausing = TRUE]
    /\ UNCHANGED <<tables, walletLock, process, external, counts, ghosts>>

SubmitCommit(s) ==
    LET image == submit[s].image
    IN  /\ submit[s].pc = "sending"
        /\ submit[s].todo = {}
        /\ payouts' = [w \in DOMAIN payouts |-> IF w \in DOMAIN image THEN image[w] ELSE payouts[w]]
        /\ withdrawals' = [w \in Ids |->
                IF w \notin DOMAIN image THEN withdrawals[w]
                ELSE IF image[w].status = "FAILED"
                THEN [withdrawals[w] EXCEPT !.status = "FAILED"]
                ELSE [withdrawals[w] EXCEPT !.status = "SUBMITTED", !.processedAt = submit[s].at]]
        /\ paused' = submit[s].pausing
        /\ walletLock' = NoOne
        /\ submit' = [submit EXCEPT ![s] = IdleSubmit]
        /\ UNCHANGED <<deployment, process, external, counts, ghosts>>

(* The run is rolled back; what it sent stays sent, and no row tells of it. *)
SubmitRollback(s, sent) ==
    /\ aborts < MaxAborts
    /\ aborts' = aborts + 1
    /\ walletLock' = NoOne
    /\ submit' = [submit EXCEPT ![s] = IdleSubmit]
    /\ inDoubt' = [w \in Ids |-> IF w \in sent THEN inDoubt[w] + 1 ELSE inDoubt[w]]
    /\ UNCHANGED <<tables, process, block, now, lost>>

SentBy(s) == {w \in DOMAIN submit[s].image : submit[s].image[w].status = "SUBMITTED"}

(* The process dies, a statement or the commit fails. *)
SubmitAbort(s) ==
    /\ submit[s].pc = "sending"
    /\ SubmitRollback(s, SentBy(s))
    /\ UNCHANGED <<chain, sentFor>>

(* Two payouts of one wallet and amount under one blockhash are one        *)
(* transaction: the second is sent, its UPDATE violates the unique         *)
(* signature, and the run ends with an error.                              *)
SubmitDuplicate(s, w) ==
    /\ w \in submit[s].todo
    /\ SignatureTaken(s, Signature(w))
    /\ Broadcast(w, Signature(w))
    /\ SubmitRollback(s, SentBy(s) \cup {w})

-----------------------------------------------------------------------------
(* Fault: a status the job does not recognise as confirmed. *)
OutcomeMisread(sig) ==
    IF sig \in DOMAIN chain /\ chain[sig] = "failed" THEN "failed" ELSE "unknown"

(* ConfirmSolanaPayouts: one status query for the batch.  Without an RPC   *)
(* client every submitted row counts as finalized.                         *)
Outcome(sig) ==
    IF ~RpcEnabled THEN "landed" ELSE IF sig \in DOMAIN chain THEN chain[sig] ELSE "unknown"

ConfirmPayouts ==
    LET open == {w \in DOMAIN payouts : payouts[w].status = "SUBMITTED"}
    IN  \E batch \in SUBSET open :
          LET landed == {w \in batch : Outcome(payouts[w].signature) = "landed"}
              failed == {w \in batch : Outcome(payouts[w].signature) = "failed"}
              result(row, w) == [row EXCEPT !.status = IF w \in landed THEN "CONFIRMED"
                                                       ELSE IF w \in failed THEN "FAILED" ELSE @]
          IN  /\ Cardinality(batch) = Min({ConfirmLimit, Cardinality(open)})
              /\ \A v \in batch, w \in open \ batch :
                    withdrawals[v].processedAt <= withdrawals[w].processedAt
              /\ landed \cup failed # {}
              /\ payouts' = [w \in DOMAIN payouts |-> result(payouts[w], w)]
              /\ withdrawals' = [w \in Ids |-> result(withdrawals[w], w)]
              /\ UNCHANGED <<deployment, paused, walletLock, process, submit, external, counts, ghosts>>

-----------------------------------------------------------------------------
(* External: a transaction lands, fails, or is dropped with its blockhash. *)
Resolve(sig, result) ==
    /\ chain[sig] = "pending"
    /\ chain' = [chain EXCEPT ![sig] = result]
    /\ UNCHANGED <<tables, walletLock, process, submit, block, counts, ghosts>>

NewBlock ==
    /\ block < MaxBlocks
    /\ block' = block + 1
    /\ UNCHANGED <<tables, walletLock, process, submit, chain, counts, ghosts>>

Tick ==
    /\ now < MaxNow
    /\ now' = now + 1
    /\ UNCHANGED <<tables, walletLock, process, submit, external, aborts, lost, ghosts>>

ProcessSteps(p) ==
    ProcessStart(p) \/ ProcessReadBudget(p) \/ ProcessLockBatch(p) \/ ProcessCommit(p)

SubmitSteps(s) ==
    \/ SubmitLockBatch(s)
    \/ \E w \in Ids :
          \/ SubmitSend(s, w)
          \/ SubmitSendFails(s, w)
          \/ SubmitRecipientMissing(s, w)
          \/ SubmitMisconfigured(s, w)
          \/ SubmitDuplicate(s, w)
    \/ SubmitCommit(s)

Next ==
    \/ \E a \in Accounts, amount \in Amounts : CreateWithdrawal(a, amount)
    \/ \E w \in Ids, approve \in BOOLEAN : ReviewWithdrawal(w, approve)
    \/ \E value \in BOOLEAN : SetHotWalletPayoutsPaused(value)
    \/ \E p \in Processors : ProcessSteps(p) \/ ProcessAbort(p)
    \/ \E s \in Submitters : SubmitSteps(s) \/ SubmitPauses(s) \/ SubmitAbort(s)
    \/ ConfirmPayouts
    \/ \E sig \in DOMAIN chain, result \in {"landed", "failed", "dropped"} : Resolve(sig, result)
    \/ NewBlock
    \/ Tick

(* The worker calls each job on every tick and a run that is not cut off   *)
(* goes on to its end.                                                     *)
Fairness ==
    /\ \A p \in Processors : WF_vars(ProcessSteps(p))
    /\ \A s \in Submitters : WF_vars(SubmitSteps(s))
    /\ WF_vars(ConfirmPayouts)

Spec == Init /\ [][Next]_vars /\ Fairness

-----------------------------------------------------------------------------
PayoutRow == [status : {"CREATED", "SUBMITTED", "CONFIRMED", "FAILED"},
              signature : {<< >>} \cup DOMAIN chain \cup ({"stub", "record"} \X Ids),
              createdAt : Nat]

(* The type of the tables, of the runs in flight and of the chain. *)
TypeOK ==
    /\ withdrawals \in Seq([account : Accounts, amount : Amounts, processedAt : Nat \cup {Never},
                            status : {"QUEUED", "MANUAL_REVIEW", "REJECTED", "PAYOUT_CREATED",
                                      "SUBMITTED", "CONFIRMED", "FAILED"}])
    /\ DOMAIN payouts \subseteq Ids
    /\ \A w \in DOMAIN payouts : payouts[w] \in PayoutRow
    /\ paused \in BOOLEAN
    /\ walletLock \in Submitters \cup {NoOne}
    /\ \A p \in Processors : Held(p) \subseteq Ids
    /\ \A s \in Submitters : /\ submit[s].todo \cup DOMAIN submit[s].image \subseteq Ids
                             /\ \A w \in DOMAIN submit[s].image : submit[s].image[w] \in PayoutRow
    /\ DOMAIN sentFor = DOMAIN chain
    /\ \A sig \in DOMAIN chain : /\ chain[sig] \in {"pending", "landed", "failed", "dropped"}
                                 /\ sentFor[sig] \subseteq Ids
    /\ inDoubt \in [Ids -> Nat]

(* The two tables tell one story: a payout row exists exactly for the      *)
(* withdrawals that left the queue, and their statuses move together.      *)
StatusesAgree ==
    /\ TypeOK
    /\ DOMAIN payouts = {w \in Ids : withdrawals[w].status \notin
                                        {"QUEUED", "MANUAL_REVIEW", "REJECTED"}}
    /\ \A w \in DOMAIN payouts :
          withdrawals[w].status = IF payouts[w].status = "CREATED" THEN "PAYOUT_CREATED"
                                                                   ELSE payouts[w].status

(* Every confirmed withdrawal has a landed transfer of its own: two        *)
(* withdrawals never share one, and none is confirmed unpaid.              *)
ConfirmedIsPaid ==
    PayoutMode = "rpc" =>
        LET confirmed == {w \in DOMAIN payouts : payouts[w].status = "CONFIRMED"}
        IN  /\ \A w \in confirmed : /\ payouts[w].signature \in DOMAIN chain
                                    /\ chain[payouts[w].signature] = "landed"
                                    /\ w \in sentFor[payouts[w].signature]
            /\ \A v, w \in confirmed : payouts[v].signature = payouts[w].signature => v = w

SentFor(w) == {sig \in DOMAIN sentFor : w \in sentFor[sig]}

(* A rejected withdrawal was refunded: nothing is ever sent for it. *)
RejectedNeverSent ==
    \A w \in Ids : withdrawals[w].status \in {"QUEUED", "MANUAL_REVIEW", "REJECTED"} => SentFor(w) = {}

(* A withdrawal is sent again only after a send of which no row tells: a   *)
(* lost answer, or a run that sent and did not commit.                     *)
ResendsAreInDoubt ==
    \A w \in Ids :
        LET recorded == \/ w \in DOMAIN payouts /\ payouts[w].signature # << >>
                        \/ \E s \in Submitters : /\ w \in DOMAIN submit[s].image
                                                 /\ submit[s].image[w].signature # << >>
        IN  Cardinality(SentFor(w)) <= inDoubt[w] + (IF recorded THEN 1 ELSE 0)

(* A pause that the administrator was told is in force stops every send,   *)
(* those of a run already under way included.                              *)
PauseStopsSends ==
    [][sentFor' # sentFor => ~paused]_vars

(* AUTO_WITHDRAW_SINGLE_MAX, USER_DAILY_WITHDRAW_MAX,                      *)
(* GLOBAL_HOURLY_WITHDRAW_MAX and GLOBAL_DAILY_WITHDRAW_MAX bound what is  *)
(* granted and has not failed, by the hour or day it was granted in.       *)
LimitsRespected ==
    LET standing == {w \in DOMAIN payouts : payouts[w].status # "FAILED"}
        onDay(w) == {v \in standing : SameDay(payouts[v].createdAt, payouts[w].createdAt)}
    IN  \A w \in standing :
          /\ Amount(w) <= SingleMax
          /\ Total({v \in standing : SameHour(payouts[v].createdAt, payouts[w].createdAt)})
                <= GlobalHourlyMax
          /\ Total(onDay(w)) <= GlobalDailyMax
          /\ Total({v \in onDay(w) : withdrawals[v].account = withdrawals[w].account})
                <= UserDailyMax

(* At most one transfer per withdrawal ever lands. *)
PaidAtMostOnce ==
    \A w \in Ids : Cardinality({sig \in SentFor(w) : chain[sig] = "landed"}) <= 1

(* A submitted payout whose transfer landed is eventually confirmed. *)
LandedIsConfirmed ==
    \A w \in 1..MaxWithdrawals :
        (w \in DOMAIN payouts /\ payouts[w].status = "SUBMITTED"
            /\ payouts[w].signature \in DOMAIN chain /\ chain[payouts[w].signature] = "landed")
        ~> (w \in DOMAIN payouts /\ payouts[w].status = "CONFIRMED")

(* The jobs implement the promise made of a withdrawal. *)
Lifecycle == INSTANCE WithdrawalLifecycle WITH
                status <- [w \in Ids |-> withdrawals[w].status]

ImplementsLifecycle == Lifecycle!WSpec

(* Every send is accounted for: none for a withdrawal that still can be or *)
(* was rejected, and a second one only when no row tells of the first.     *)
SendsAccounted == RejectedNeverSent /\ ResendsAreInDoubt
=============================================================================
