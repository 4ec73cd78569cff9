SPECIFICATION RepeatingSpec
CONSTANTS
    Orders = {o1}
    Consumers = {h1}
    Callers = {h1, h2}
    CustomerCalls <- ResumeOnly
    Absent = Absent
    RedisUp = TRUE
    ProviderCanFail = FALSE
    MaxCrashes = 1
    MaxOverlaps = 1
PROPERTIES
    PaidIsTold
