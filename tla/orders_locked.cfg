SPECIFICATION Spec
CONSTANTS
    Orders = {o1}
    Requests = {q1, q2}
    Calls <- OnlyLocked
    Absent = Absent
    None = None
    MaxCrashes = 2
    ReleaseCanFail = TRUE
INVARIANTS
    AuditIsAWalk
    RefundedOnce
    StockReleasedOnce
PROPERTY
    ImplementsLifecycle
