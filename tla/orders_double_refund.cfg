SPECIFICATION Spec
CONSTANTS
    Orders = {o1}
    Requests = {q1, q2}
    Calls <- CancelOnly
    Absent = Absent
    None = None
    MaxCrashes = 0
    ReleaseCanFail = FALSE
INVARIANT
    OneRefundCommand
