\* Three attempts of two operations, two clients' bodies, a service that may stamp them.
SPECIFICATION Spec
CONSTANTS
    OpIds = {op1, op2}
    Attempts = {t1, t2, t3}
    Bodies = {b1, b2}
    Stamps = {0, 1}
    NoOne = NoOne
INVARIANTS
    TypeOK
    AppliedOnce
    RepliesAgree
PROPERTIES
    EveryAttemptAnswered
    ImplementsExactlyOnce
\* every attempt is eventually answered and the instance is over
CHECK_DEADLOCK FALSE
