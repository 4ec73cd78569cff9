SPECIFICATION FairSpec
CONSTANTS
    Relays = {r1, r2}
    MaxEvents = 3
    BatchSize = 2
    MaxTrouble = 1
    MaxEdits = 2
    Lines = {1, 2}
    Cities = {1, 2}
    FirstLine = 1
    FirstCity = 1
    Customer = ann
    People = {ann, bob}
    Tokens = {t1, t2}
    MaxDevices = 1
    Configured = {"SMS", "EMAIL"}
    MaxCalls = 2
    Life <- LastMile
    MaxChanges = 2
    MaxReviews = 1
    MaxAtOnce = 2
INVARIANTS
    PassedIsHandled
    CopyIsCurrent
    PointMatchesAddress
    ReviewsAreEarned
    AuditIsTrue
    SmsOnlyIfAsked
    DevicesCapped
PROPERTY
    EverythingGoesOut
CHECK_DEADLOCK FALSE
