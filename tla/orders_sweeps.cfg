SPECIFICATION FairSpec
CONSTANTS
    Orders = {o1, o2}
    Requests = {q1, q2}
    Calls <- SweptCalls
    Absent = Absent
    None = None
    MaxCrashes = 1
    ReleaseCanFail = TRUE
PROPERTY
    RequestsFinish
