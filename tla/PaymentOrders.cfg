\* Two orders and two receipts, the scan and a verified submit at the same time.
SPECIFICATION Spec
CONSTANTS
    Accounts = {1}
    Stranger = Stranger
    Purposes = {"license", "shop"}
    Exclusive = {"license"}
    Price <- Prices
    PayAmounts = {2}
    Timeout = 1
    RpcAtStart = {TRUE, FALSE}
    Clients = {c1}
    MaxOrders = 2
    MaxReceipts = 2
    MaxNow = 2
    MaxErrors = 1
    NoOrder = NoOrder
INVARIANTS
    
    DeliveredOnce
    

    
\* the bounds let every behaviour stop
CHECK_DEADLOCK FALSE
