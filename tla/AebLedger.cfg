\* One account with cooldown rows, a mint refund and a withdrawal.
SPECIFICATION Spec
CONSTANTS
    Accounts = {1}
    Amounts = {1, 2}
    AdminLocked = {0}
    Cooldowns = {0, 2}
    SettleLimit = 2
    SingleMax = 1
    MaxRecords = 3
    MaxWithdrawals = 1
    MaxMints = 1
    MaxIssued = 3
    MaxNow = 2
INVARIANTS
    TypeOK
    BooksBalance
    LockedBacked
    RefundsCovered
PROPERTIES
    CooldownOrder
\* the bounds let every behaviour stop
CHECK_DEADLOCK FALSE
