\* A submit run dies between its send and its commit.
SPECIFICATION Spec
CONSTANTS
    Accounts = {1}
    Amounts = {1}
    SingleMax = 1
    UserDailyMax = 1
    GlobalHourlyMax = 9
    GlobalDailyMax = 9
    ProcessLimit = 2
    SubmitLimit = 2
    ConfirmLimit = 2
    Deployments <- OnChain
    HoursPerDay = 2
    Processors = {p1}
    Submitters = {s1}
    NoOne = NoOne
    MaxWithdrawals = 1
    MaxNow = 0
    MaxBlocks = 1
    MaxAborts = 1
    MaxLost = 0
INVARIANTS
    PaidAtMostOnce
\* the bounds let every behaviour stop
CHECK_DEADLOCK FALSE
