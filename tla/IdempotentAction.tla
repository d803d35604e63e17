------------------------- MODULE IdempotentAction --------------------------
(***************************************************************************)
(* runIdempotentAction: the transaction around every operation that takes  *)
(* an opId.  An attempt is one execution of a handler; attempts of the     *)
(* same operation are client retries, duplicated deliveries, or the same   *)
(* request reaching two replicas.                                          *)
(*                                                                         *)
(* A request is what the client sent (body: scope, account, character and  *)
(* parameters) and what the service computed into the hashed request while *)
(* handling it (stamp: rolled offers, the clock, the character's level).   *)
(***************************************************************************)
EXTENDS Integers, FiniteSets

CONSTANTS
    OpIds,     \* operation ids chosen by clients
    Attempts,  \* handler executions
    Bodies,    \* client requests
    Stamps,    \* values the service may compute into the hashed request
    NoOne      \* no attempt

ASSUME AttemptsAssumption ==
    /\ NoOne \notin Attempts
    /\ {"none", "refused", "failed"} \cap Attempts = {}

VARIABLES
    keys,     \* idempotency_keys: opId -> the stored row, or NoKey
    holder,   \* pg_advisory_xact_lock: opId -> the attempt that holds it
    pc,       \* attempt -> where its transaction stands
    req,      \* attempt -> its request
    reply,    \* attempt -> what it returned
    applied   \* history: opId -> the attempts whose mutation was committed

vars == <<keys, holder, pc, req, reply, applied>>

Request == [op : OpIds, body : Bodies, stamp : Stamps]
Key == [body : Bodies, stamp : Stamps, response : Attempts]
NoKey == [response |-> NoOne]

Reply == {"none", "refused", "failed"} \cup Attempts

Pcs == {"new", "waiting", "locked", "running", "ran", "done"}

TypeOK ==
    /\ keys \in [OpIds -> Key \cup {NoKey}]
    /\ holder \in [OpIds -> Attempts \cup {NoOne}]
    /\ pc \in [Attempts -> Pcs]
    /\ req \in [Attempts -> Request]
    /\ reply \in [Attempts -> Reply]
    /\ applied \in [OpIds -> SUBSET Attempts]

Init ==
    /\ keys = [op \in OpIds |-> NoKey]
    /\ holder = [op \in OpIds |-> NoOne]
    /\ pc = [t \in Attempts |-> "new"]
    /\ req \in [Attempts -> Request]
    /\ reply = [t \in Attempts |-> "none"]
    /\ applied = [op \in OpIds |-> {}]

(* Fault: a session lock, which the end of the transaction does not free. *)
EndKeepsLock(t, answer) ==
    /\ pc' = [pc EXCEPT ![t] = "done"]
    /\ reply' = [reply EXCEPT ![t] = answer]
    /\ UNCHANGED <<holder, req>>

(* The transaction ends, by commit or by the deferred rollback; either way *)
(* the advisory lock goes with it.                                         *)
End(t, answer) ==
    /\ pc' = [pc EXCEPT ![t] = "done"]
    /\ reply' = [reply EXCEPT ![t] = answer]
    /\ holder' = [holder EXCEPT ![req[t].op] = NoOne]
    /\ UNCHANGED req

(* The service computes its part of the request when the handler runs. *)
Begin(t, stamp) ==
    /\ pc[t] = "new"
    /\ pc' = [pc EXCEPT ![t] = "waiting"]
    /\ req' = [req EXCEPT ![t].stamp = stamp]
    /\ UNCHANGED <<keys, holder, reply, applied>>

Lock(t) ==
    /\ pc[t] = "waiting"
    /\ holder[req[t].op] = NoOne
    /\ holder' = [holder EXCEPT ![req[t].op] = t]
    /\ pc' = [pc EXCEPT ![t] = "locked"]
    /\ UNCHANGED <<keys, req, reply, applied>>

(* SELECT ... FROM idempotency_keys finds no row: the callback may run. *)
LookupMiss(t) ==
    /\ pc[t] = "locked"
    /\ keys[req[t].op] = NoKey
    /\ pc' = [pc EXCEPT ![t] = "running"]
    /\ UNCHANGED <<keys, holder, req, reply, applied>>

(* Fault: the stored row is not compared with the request. *)
AnyRequest(t) == TRUE

(* Same scope, account, character and request hash. *)
SameRequest(t) ==
    /\ keys[req[t].op].body = req[t].body
    /\ keys[req[t].op].stamp = req[t].stamp

(* Fault: the answer is returned without looking whether there is one. *)
ReplayUnchecked(t) ==
    /\ pc[t] = "locked"
    /\ End(t, keys[req[t].op].response)
    /\ UNCHANGED <<keys, applied>>

(* Fault: a replay answers with a freshly computed result. *)
ReplayOwnResult(t) ==
    /\ pc[t] = "locked"
    /\ keys[req[t].op] # NoKey
    /\ End(t, t)
    /\ UNCHANGED <<keys, applied>>

LookupReplay(t) ==
    /\ pc[t] = "locked"
    /\ keys[req[t].op] # NoKey
    /\ SameRequest(t)
    /\ End(t, keys[req[t].op].response)
    /\ UNCHANGED <<keys, applied>>

LookupRefuse(t) ==
    /\ pc[t] = "locked"
    /\ keys[req[t].op] # NoKey
    /\ ~SameRequest(t)
    /\ End(t, "refused")
    /\ UNCHANGED <<keys, applied>>

(* The callback's statements; nothing is visible before the commit. *)
Run(t) ==
    /\ pc[t] = "running"
    /\ pc' = [pc EXCEPT ![t] = "ran"]
    /\ UNCHANGED <<keys, holder, req, reply, applied>>

(* INSERT INTO idempotency_keys and COMMIT.  op_id is the primary key.  The *)
(* connection may be lost after the commit: the caller then sees an error.  *)
Commit(t) ==
    LET op == req[t].op
    IN  /\ pc[t] = "ran"
        /\ keys[op] = NoKey
        /\ keys' = [keys EXCEPT ![op] =
                [body |-> req[t].body, stamp |-> req[t].stamp, response |-> t]]
        /\ applied' = [applied EXCEPT ![op] = @ \cup {t}]
        /\ \/ End(t, t)
           \/ End(t, "failed")

(* Fault: the callback writes through the pool and not the transaction. *)
FailKeepsEffect(t) ==
    /\ pc[t] \in {"locked", "running", "ran"}
    /\ End(t, "failed")
    /\ applied' = [applied EXCEPT ![req[t].op] = IF pc[t] = "ran" THEN @ \cup {t} ELSE @]
    /\ UNCHANGED keys

(* The callback or a statement returns an error, or the process dies: the  *)
(* whole transaction is rolled back and no key is stored.                  *)
Fail(t) ==
    /\ pc[t] \in {"locked", "running", "ran"}
    /\ End(t, "failed")
    /\ UNCHANGED <<keys, applied>>

Step(t) ==
    \/ \E stamp \in Stamps : Begin(t, stamp)
    \/ Lock(t)
    \/ LookupMiss(t)
    \/ LookupReplay(t)
    \/ LookupRefuse(t)
    \/ Run(t)
    \/ Commit(t)
    \/ Fail(t)

Next == \E t \in Attempts : Step(t)

(* A handler that has begun runs on; the lock manager serves waiters in    *)
(* turn, so an attempt is not passed over for ever.                        *)
Fairness ==
    \A t \in Attempts : WF_vars(Step(t)) /\ SF_vars(Lock(t))

Spec == Init /\ [][Next]_vars /\ Fairness

-----------------------------------------------------------------------------
(* The mutation of an operation is committed at most once, whatever        *)
(* retries, duplicates, crashes and lost answers there are, and exactly    *)
(* when its key is: never an effect without its key or a key without it.   *)
AppliedOnce ==
    \A op \in OpIds :
        applied[op] = IF keys[op] = NoKey THEN {} ELSE {keys[op].response}

(* A successful answer is the answer of the one committed mutation of that *)
(* operation, and that mutation was asked for with the same body: nobody   *)
(* is handed the result of another account, scope or parameter set.        *)
RepliesAgree ==
    \A t \in Attempts : reply[t] \in Attempts =>
        /\ applied[req[t].op] = {reply[t]}
        /\ req[reply[t]].op = req[t].op
        /\ req[reply[t]].body = req[t].body

(* No attempt waits for ever behind the advisory lock. *)
EveryAttemptAnswered ==
    \A t \in Attempts : pc[t] = "waiting" ~> pc[t] = "done"

(* runIdempotentAction implements the promise of an opId. *)
Once == INSTANCE ExactlyOnce WITH
            performedBy <- [op \in OpIds |-> keys[op].response],
            answer <- [t \in Attempts |-> IF reply[t] \in Attempts THEN reply[t] ELSE NoOne]

ImplementsExactlyOnce == Once!OSpec
=============================================================================
