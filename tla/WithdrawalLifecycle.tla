------------------------ MODULE WithdrawalLifecycle ------------------------
(***************************************************************************)
(* What the withdrawal tables promise an account: a request is queued or   *)
(* reviewed, a rejected one is over, one that left the queue is never      *)
(* reviewed, rejected or queued again, and it ends confirmed or failed.    *)
(***************************************************************************)
EXTENDS Integers, Sequences

VARIABLE status  \* withdrawal id -> its status

Entry == {"QUEUED", "MANUAL_REVIEW"}

(* The administrator's decisions and the worker's jobs. *)
Moves ==
    {<<"MANUAL_REVIEW", "QUEUED">>, <<"MANUAL_REVIEW", "REJECTED">>,
     <<"QUEUED", "MANUAL_REVIEW">>, <<"QUEUED", "PAYOUT_CREATED">>, <<"QUEUED", "CONFIRMED">>,
     <<"PAYOUT_CREATED", "SUBMITTED">>, <<"PAYOUT_CREATED", "FAILED">>,
     <<"SUBMITTED", "CONFIRMED">>, <<"SUBMITTED", "FAILED">>}

WInit == status = << >>

Request == \E s \in Entry : status' = Append(status, s)

(* A job commits the moves of a whole batch at once. *)
Advance ==
    /\ DOMAIN status' = DOMAIN status
    /\ \A w \in DOMAIN status :
          status'[w] # status[w] => <<status[w], status'[w]>> \in Moves

WNext == Request \/ Advance

WSpec == WInit /\ [][WNext]_status
=============================================================================
