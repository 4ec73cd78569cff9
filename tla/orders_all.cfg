SPECIFICATION Spec
CONSTANTS
    Orders = {o1}
    Requests = {q1, q2}
    Calls <- RealCalls
    Absent = Absent
    None = None
    MaxCrashes = 1
    ReleaseCanFail = TRUE
INVARIANTS
    TypeOK
    OutboxMirrorsRow
    RefundBooked
    SettledOnce
    KitchenToldOnce
