\* Two withdrawals on chain with lost answers, or three stub payouts over three hours.
SPECIFICATION MCSpec
CONSTANTS
    Accounts = {1, 2}
    Amounts = {1, 2, 3}
    SingleMax = 2
    UserDailyMax = 3
    GlobalHourlyMax = 3
    GlobalDailyMax = 4
    ProcessLimit = 2
    SubmitLimit = 2
    ConfirmLimit = 2
    Deployments <- AllDeployments
    HoursPerDay = 2
    Processors = {p1}
    Submitters = {s1}
    NoOne = NoOne
    MaxWithdrawals = 3
    MaxNow = 2
    MaxBlocks = 1
    MaxAborts = 1
    MaxLost = 1
INVARIANTS
    ConfirmedIsPaid
    SendsAccounted
    StatusesAgree
    
PROPERTIES
    ImplementsLifecycle
    
    PauseStopsSends
\* the bounds let every behaviour stop
CHECK_DEADLOCK FALSE
