SPECIFICATION FairSpec
CONSTANTS
    Orders = {o1}
    Consumers = {h1, h2}
    Callers = {h1, h2}
    CustomerCalls <- AllCustomerCalls
    Absent = Absent
    RedisUp = FALSE
    ProviderCanFail = TRUE
    MaxCrashes = 1
    MaxOverlaps = 2
INVARIANTS
    TypeOK
    NothingCollectedUnpaid
    ToldOnlyIfPaid
    CashRefundedOnce
PROPERTIES
    CashRefundFinal
    EveryOrderGetsAPayment
