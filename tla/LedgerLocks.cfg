\* A spender and two settle runs, wide (two accounts) or deep (one account, time passes).
SPECIFICATION MCSpec
CONSTANTS
    Accounts = {1, 2}
    Amounts = {1, 2}
    AdminLocked = {0}
    Cooldowns = {0, 1}
    SettleLimit = 2
    SingleMax = 1
    MaxRecords = 2
    MaxWithdrawals = 1
    MaxMints = 0
    MaxIssued = 3
    MaxNow = 1
    Spenders = {s1}
    Settlers = {w1, w2}
    MaxSpends = 2
    MaxCrashes = 1
PROPERTIES
    ImplementsLedger
    MatureRowsSettle
\* the bounds let every behaviour stop
CHECK_DEADLOCK FALSE
