\* An administrator grants locked AEB.
SPECIFICATION Spec
CONSTANTS
    Accounts = {1}
    Amounts = {1, 2}
    AdminLocked = {0, 1}
    Cooldowns = {0, 2}
    SettleLimit = 2
    SingleMax = 1
    MaxRecords = 2
    MaxWithdrawals = 0
    MaxMints = 1
    MaxIssued = 2
    MaxNow = 2
INVARIANTS
    LockedBacked
CHECK_DEADLOCK FALSE
