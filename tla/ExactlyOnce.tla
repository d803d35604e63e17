---------------------------- MODULE ExactlyOnce ----------------------------
(***************************************************************************)
(* What opId promises to a caller of the economy and admin APIs: the       *)
(* effect of an operation happens at most once, whichever of its attempts  *)
(* performs it, and every successful answer is that effect's answer.       *)
(***************************************************************************)
CONSTANTS OpIds, Attempts, NoOne

VARIABLES
    performedBy,  \* opId -> the attempt whose effect stands, or NoOne
    answer        \* attempt -> the attempt whose result it returned, or NoOne

onceVars == <<performedBy, answer>>

OInit ==
    /\ performedBy = [op \in OpIds |-> NoOne]
    /\ answer = [t \in Attempts |-> NoOne]

(* The effect happens; its caller learns of it, or the answer is lost. *)
Perform(op, t) ==
    /\ performedBy[op] = NoOne
    /\ performedBy' = [performedBy EXCEPT ![op] = t]
    /\ \/ answer' = [answer EXCEPT ![t] = t]
       \/ UNCHANGED answer

(* A later attempt returns the answer of the effect that stands. *)
Replay(op, t) ==
    /\ performedBy[op] # NoOne
    /\ answer[t] = NoOne
    /\ answer' = [answer EXCEPT ![t] = performedBy[op]]
    /\ UNCHANGED performedBy

ONext == \E op \in OpIds, t \in Attempts : Perform(op, t) \/ Replay(op, t)

OSpec == OInit /\ [][ONext]_onceVars
=============================================================================
